----------------------------- MODULE CallOffers -----------------------------
(***************************************************************************)
(* The invariant from which the two ends of a call agree on its media      *)
(* (CallMedia), and the steps that keep it: a step that concerns no offer, *)
(* and those of one end that offers, answers, refuses, gives up or repeats *)
(* an ACK.                                                                 *)
(*                                                                         *)
(* A BYE ends the exchange of offers, so the invariant Dealing speaks of a *)
(* call in which nobody has sent one (Parted).  It says what the offer of  *)
(* an end that is open rests on: a request of this end that is not         *)
(* answered yet (Open), or an INVITE of the other end that this one        *)
(* answered with an offer and that waits for its ACK (Serving); and that   *)
(* what the ends agreed on differs only as long as an answer is on its way *)
(* (Agreed).                                                               *)
(***************************************************************************)
EXTENDS CallEnds

Parted(w) == \E t \in Indices(w) : w.tsx[t].method = "BYE"

\* A request of u that can carry an offer has no final response yet.
Open(w, t, u) ==
    /\ t \in Indices(w) /\ w.tsx[t].from = u
    /\ w.tsx[t].method \in {"INVITE", "UPDATE"} /\ w.tsx[t].client = "calling"

\* The INVITE t of the other end is being answered by u, or was and waits for its ACK.
Serving(w, t, u) ==
    /\ t \in Indices(w) /\ w.inv[u].invite_tsx = t
    /\ w.tsx[t].method = "INVITE" /\ w.tsx[t].from = Peer(u)
    /\ w.tsx[t].server \in {"proceeding", "completed"} /\ w.tsx[t].status < 300

\* The offer of u stays open for good.
Stuck(w, u) ==
    /\ w.inv[u].state = "CONFIRMED" /\ w.neg[u].state = "LOCAL_OFFER"
    /\ \A t \in Indices(w) : ~Open(w, t, u) /\ ~Serving(w, t, u)

\* The answer to the offer in request t of u is on its way ...
Carried(w, t, u) ==
    Open(w, t, u) /\ w.tsx[t].sdp # 0 /\ ~w.tsx[t].done /\ w.tsx[t].body # 0

\* ... or the ACK for INVITE t, in which the offer of u was the response.
Asked(w, t, u) ==
    /\ Serving(w, t, u) /\ ~w.tsx[t].answered /\ w.neg[u].state = "LOCAL_OFFER"
    /\ w.tsx[t].client # "calling"

Acked(w, t, u) == Asked(w, t, u) /\ w.inv[Peer(u)].last_ack # 0

Due(w, u) == \E t \in Indices(w) : Carried(w, t, u) \/ Acked(w, t, u)

Matched(w) ==
    /\ w.neg["caller"].active_local.sdp = w.neg["callee"].active_remote.sdp
    /\ w.neg["callee"].active_local.sdp = w.neg["caller"].active_remote.sdp

-----------------------------------------------------------------------------
(* The invariant *)

\* What an end notes: an answer is negotiated as soon as it arrives, there is nothing to
\* negotiate outside a call, and the cached ACK is for a request that was answered.
Notes(w) ==
    \A u \in Ends :
       /\ ~w.neg[u].has_remote_answer
       /\ w.inv[u].state \in {"NULL", "DISCONNECTED"} => w.neg[u].state = "NULL"
       /\ w.inv[u].last_ack_cseq # 0 =>
             /\ w.inv[u].last_ack_cseq \in Indices(w)
             /\ w.tsx[w.inv[u].last_ack_cseq].client # "calling"

\* An ACK is for an INVITE that was accepted.
Accepted(w) ==
    \A ack \in w.acks : /\ ack.t \in Indices(w) /\ w.tsx[ack.t].method = "INVITE"
                        /\ w.tsx[ack.t].client = "terminated"
                        /\ w.tsx[ack.t].server \in {"completed", "terminated"}
                        /\ w.tsx[ack.t].status < 300

\* Only an end that is confirmed asks for more, and an INVITE that is not refused is the
\* one its server remembers.
Requests(w) ==
    \A t \in Indices(w) :
       /\ t # 1 /\ w.tsx[t].method \in {"INVITE", "UPDATE"} =>
             w.inv[w.tsx[t].from].state = "CONFIRMED"
       /\ w.tsx[t].server = "none" => w.tsx[t].body = 0 /\ ~w.tsx[t].answered
       /\ /\ w.tsx[t].method = "INVITE" /\ w.tsx[t].server \in {"proceeding", "completed"}
          /\ w.tsx[t].status < 300
          => w.inv[Peer(w.tsx[t].from)].invite_tsx = t

\* Only the callee waits for an ACK, after its 2xx response, and accepts no other
\* INVITE until it comes.
Connecting(w) ==
    \A u \in Ends : w.inv[u].state = "CONNECTING" =>
       /\ u = "callee" /\ w.inv[u].invite_tsx = 1
       /\ w.tsx[1].server = "completed" /\ w.tsx[1].status < 300
       /\ \A t \in Indices(w) :
             t # 1 /\ w.tsx[t].method = "INVITE" => w.tsx[t].status \notin 200..299

\* An end that is confirmed has at most one request open, which carries its offer if it
\* has one, and none while it serves an INVITE, which is the last one of the other end.
AsksFor(w, t, u) ==
    /\ ~w.tsx[t].done
    /\ w.tsx[t].method = "INVITE" => w.inv[u].invite_tsx = t
    /\ w.tsx[t].method = "UPDATE" => w.tsx[t].sdp # 0
    /\ w.tsx[t].sdp # 0 => w.neg[u].state = "LOCAL_OFFER" /\ w.neg[u].local.sdp = w.tsx[t].sdp
    /\ w.tsx[t].sdp = 0 => w.neg[u].state = "DONE"
    /\ \A s \in Indices(w) : Open(w, s, u) => s = t

Answers(w, t, u) ==
    /\ \A s \in Indices(w) : ~Open(w, s, u)
    /\ w.tsx[t].answered => w.neg[u].state = "DONE"
    /\ ~w.tsx[t].answered =>
          /\ w.neg[u].state = "LOCAL_OFFER" /\ w.tsx[t].sdp = 0
          /\ w.tsx[t].body = w.neg[u].local.sdp
    /\ \A s \in Indices(w) :
          Open(w, s, Peer(u)) /\ w.tsx[s].method = "INVITE" /\ w.tsx[s].status \in 200..299
          => s = t

Steady(w, u) ==
    /\ w.neg[u].state \in {"DONE", "LOCAL_OFFER"}
    /\ w.inv[u].invite_tsx # 1
    /\ \A t \in Indices(w) : /\ Open(w, t, u) => AsksFor(w, t, u)
                             /\ Serving(w, t, u) => Answers(w, t, u)

\* The callee before the ACK: the offer is the caller's or its own.
CalleeRings(w) ==
    LET n == w.neg["callee"]
        x == w.tsx[1]
    IN  /\ \/ n.state = "REMOTE_OFFER" /\ x.sdp # 0 /\ n.remote.sdp = x.sdp
              /\ ~x.answered /\ x.body = 0
           \/ n.state = "NULL" /\ x.sdp = 0 /\ ~x.answered /\ x.body = 0
           \/ n.state = "DONE" /\ x.sdp # 0 /\ x.answered /\ x.body # 0
           \/ n.state = "LOCAL_OFFER" /\ x.sdp = 0 /\ ~x.answered
              /\ x.body = n.local.sdp /\ x.body # 0
        /\ w.inv["callee"].state = "CONNECTING" => n.state \in {"DONE", "LOCAL_OFFER"}

\* The caller before the 2xx response, likewise.
CallerRings(w) ==
    LET n == w.neg["caller"]
        m == w.neg["callee"]
        x == w.tsx[1]
        over == w.inv["callee"].state = "DISCONNECTED"
    IN  /\ \/ n.state = "LOCAL_OFFER" /\ x.sdp # 0 /\ n.local.sdp = x.sdp /\ ~x.done
           \/ n.state = "DONE" /\ x.sdp # 0 /\ x.done /\ (over \/ (x.body # 0 /\ x.answered))
           \/ n.state = "NULL" /\ x.sdp = 0 /\ ~x.done
           \/ /\ n.state \in {"WAIT_NEGO", "REMOTE_OFFER"} /\ x.sdp = 0 /\ ~x.done
              /\ n.state = "WAIT_NEGO" => n.local.sdp # 0
              /\ over \/ (m.state = "LOCAL_OFFER" /\ n.remote.sdp = m.local.sdp)
        /\ w.inv["callee"].state # "CONFIRMED"

\* What the offer of u rests on: the answer that is on its way is what the other end
\* took, and an offer in a response is the one that waits for its answer.
Rests(w, t, u) ==
    /\ Carried(w, t, u) =>
          /\ w.tsx[t].status < 300
          /\ w.neg[Peer(u)].active_remote.sdp = w.tsx[t].sdp
          /\ w.neg[Peer(u)].active_local.sdp = w.tsx[t].body
    /\ Acked(w, t, u) =>
          /\ w.neg[Peer(u)].active_remote.sdp = w.neg[u].local.sdp
          /\ w.neg[Peer(u)].active_local.sdp = w.inv[Peer(u)].last_ack
    /\ Asked(w, t, u) =>
          /\ w.inv[Peer(u)].last_ack_cseq = t
          /\ \A ack \in w.acks : ack.t = t => ack.sdp = w.inv[Peer(u)].last_ack
    /\ Open(w, t, Peer(u)) /\ w.tsx[t].sdp = 0 /\ w.tsx[t].body # 0 =>
          \/ Stuck(w, u)
          \/ Serving(w, t, u) /\ ~w.tsx[t].answered /\ w.neg[u].state = "LOCAL_OFFER"
             /\ w.neg[u].local.sdp = w.tsx[t].body

\* What the ends agreed on differs only while an answer is on its way, or when an offer
\* stays open for good.
Agreed(w) ==
    /\ Matched(w) \/ \E u \in Ends : Stuck(w, u) \/ Due(w, u)
    /\ \E u \in Ends : ~Due(w, u)
    /\ \A u \in Ends, t \in Indices(w) : Rests(w, t, u)

\* The callee that has no call has not looked at the INVITE.
Unheard(w) == w.inv["callee"].state = "NULL" => w.tsx[1].server \in {"none", "trying"}

Joined(w) == \A u \in Ends : w.inv[u].state # "DISCONNECTED"

Dealing(w) ==
    /\ Notes(w) /\ Accepted(w) /\ Requests(w) /\ Connecting(w) /\ Unheard(w)
    /\ \A u \in Ends : w.inv[u].state = "CONFIRMED" => Steady(w, u)
    /\ w.inv["callee"].state \in {"INCOMING", "EARLY", "CONNECTING"} => CalleeRings(w)
    /\ w.inv["caller"].state \in {"CALLING", "EARLY"} => CallerRings(w)
    /\ Joined(w) => Agreed(w)

-----------------------------------------------------------------------------
(* What an operator on the world does *)

SameDeal(n, m) ==
    /\ m.state = n.state /\ m.local.sdp = n.local.sdp /\ m.remote.sdp = n.remote.sdp
    /\ m.active_local.sdp = n.active_local.sdp /\ m.active_remote.sdp = n.active_remote.sdp
    /\ m.has_remote_answer = n.has_remote_answer

SameSession(r, s) ==
    /\ s.state = r.state /\ s.invite_tsx = r.invite_tsx
    /\ s.last_ack_cseq = r.last_ack_cseq /\ s.last_ack = r.last_ack

Twin(x, y) ==
    /\ y.method = x.method /\ y.from = x.from /\ y.sdp = x.sdp
    /\ y.client = x.client /\ y.done = x.done
    /\ y.server = x.server /\ y.status = x.status
    /\ y.body = x.body /\ y.answered = x.answered

\* All but the ends U and the transactions T.
Frame(w, v, U, T) ==
    /\ Sound(v) /\ Len(v.tsx) = Len(w.tsx)
    /\ \A u \in Ends \ U : SameSession(w.inv[u], v.inv[u]) /\ SameDeal(w.neg[u], v.neg[u])
    /\ \A t \in Indices(w) \ T : Twin(w.tsx[t], v.tsx[t])
    /\ \A t \in Indices(w) : /\ v.tsx[t].method = w.tsx[t].method
                             /\ v.tsx[t].from = w.tsx[t].from

\* The media of u are negotiated, or not.
Deals(w, v, u) ==
    /\ Frame(w, v, {u}, {}) /\ v.acks = w.acks /\ v.tsx = w.tsx
    /\ SameSession(w.inv[u], v.inv[u])

\* What negotiating and withdrawing an offer leave.
Done(w, v, u, local, remote) ==
    /\ v.neg[u].state = "DONE" /\ ~v.neg[u].has_remote_answer
    /\ v.neg[u].active_local.sdp = local /\ v.neg[u].active_remote.sdp = remote

\* Nothing changes.
LEMMA FrameRefl ==
  ASSUME NEW w, Sound(w), NEW U, NEW T
  PROVE  Frame(w, w, U, T)
BY DEF Frame, SameSession, SameDeal, Twin

\* One thing after another.
LEMMA FrameTrans ==
  ASSUME NEW w, NEW v, NEW x, NEW U, NEW T, Frame(w, v, U, T), Frame(v, x, U, T)
  PROVE  Frame(w, x, U, T)
BY DEF Frame, SameSession, SameDeal, Twin, Indices

\* A transaction changes.
LEMMA TsxFrame ==
  ASSUME NEW w, Sound(w), NEW t \in Indices(w), NEW x \in Transactions(Nat, Nat),
         x.method = w.tsx[t].method, x.from = w.tsx[t].from, x.of = w.tsx[t].of
  PROVE  LET v == [w EXCEPT !.tsx[t] = x]
         IN  /\ Frame(w, v, {}, {t}) /\ v.tsx[t] = x
             /\ v.neg = w.neg /\ v.inv = w.inv /\ v.acks = w.acks
<1> DEFINE v == [w EXCEPT !.tsx[t] = x]
<1>1. /\ Sound(v) /\ Len(v.tsx) = Len(w.tsx)
      /\ v.tsx[t] = x /\ \A i \in 1..Len(w.tsx) \ {t} : v.tsx[i] = w.tsx[i]
      /\ v.neg = w.neg /\ v.inv = w.inv /\ v.acks = w.acks
  BY PutTsxSound DEF Indices
<1> HIDE DEF v
<1>2. Frame(w, v, {}, {t})
  BY <1>1 DEF Frame, SameSession, SameDeal, Twin, Indices
<1>3. QED
  BY <1>1, <1>2 DEF v

\* The client gets on.
LEMMA EnterFrame ==
  ASSUME NEW w, Sound(w), NEW t \in Indices(w),
         NEW client \in {"calling", "completed", "terminated"}, NEW code \in Nat
  PROVE  LET v == ClientEnters(w, t, client, code)
         IN  /\ Frame(w, v, {}, {t}) /\ v.neg = w.neg /\ v.inv = w.inv /\ v.acks = w.acks
             /\ Twin([w.tsx[t] EXCEPT !.client = client], v.tsx[t])
<1> DEFINE y == [w.tsx[t] EXCEPT !.client = client]
           z == [y EXCEPT !.code = code]
           a == [w EXCEPT !.tsx[t] = y]
           v == [a EXCEPT !.tsx[t] = z]
<1>1. w.tsx[t] \in Transactions(Nat, Nat)
  BY SoundParts DEF Indices
<1>2. /\ y \in Transactions(Nat, Nat) /\ z \in Transactions(Nat, Nat)
      /\ y.method = w.tsx[t].method /\ y.from = w.tsx[t].from /\ y.of = w.tsx[t].of
      /\ z.method = w.tsx[t].method /\ z.from = w.tsx[t].from /\ z.of = w.tsx[t].of
      /\ Twin(y, z)
  BY <1>1 DEF Transactions, Twin
<1>3. ASSUME a.tsx[t] = y
      PROVE  ClientEnters(w, t, client, code) = v
  BY <1>3 DEF ClientEnters
<1>4. Twin(y, z) <=> Twin([w.tsx[t] EXCEPT !.client = client], z)
  OBVIOUS
<1> HIDE DEF y, z
<1>5. /\ Frame(w, a, {}, {t}) /\ a.tsx[t] = y
      /\ a.neg = w.neg /\ a.inv = w.inv /\ a.acks = w.acks
  BY <1>2, TsxFrame
<1> HIDE DEF a
<1>6. Sound(a) /\ t \in Indices(a)
  BY <1>5 DEF Frame, Indices
<1>7. /\ Frame(a, v, {}, {t}) /\ v.tsx[t] = z
      /\ v.neg = w.neg /\ v.inv = w.inv /\ v.acks = w.acks
  BY <1>2, <1>5, <1>6, TsxFrame
<1>8. ClientEnters(w, t, client, code) = v
  BY <1>3, <1>5
<1> HIDE DEF v
<1>9. Frame(w, v, {}, {t})
  BY <1>5, <1>7, FrameTrans
<1>10. QED
  BY <1>2, <1>4, <1>7, <1>8, <1>9

\* A response to t is sent, and nothing else happens.
Sends(w, v, t, status, body) ==
    /\ Frame(w, v, {}, {t}) /\ v.neg = w.neg /\ v.inv = w.inv /\ v.acks = w.acks
    /\ v.tsx[t].sdp = w.tsx[t].sdp /\ v.tsx[t].client = w.tsx[t].client
    /\ v.tsx[t].done = w.tsx[t].done /\ v.tsx[t].answered = w.tsx[t].answered
    /\ v.tsx[t].status = status /\ v.tsx[t].body = body
    /\ v.tsx[t].server = IF status < 200 THEN "proceeding"
                         ELSE IF w.tsx[t].method = "INVITE" THEN "completed" ELSE "terminated"

\* pjsip_dlg_send_response.
LEMMA SendsSame ==
  ASSUME NEW w, Sound(w), NEW t \in Indices(w), NEW status \in Nat, NEW body \in Nat
  PROVE  Sends(w, SendResponse(w, t, status, body), t, status, body)
<1> DEFINE server == IF status < 200 THEN "proceeding"
                     ELSE IF w.tsx[t].method = "INVITE" THEN "completed" ELSE "terminated"
           q == w.tsx[t]
           x == [q EXCEPT !.status = status]
           y == [x EXCEPT !.body = body]
           z == [y EXCEPT !.server = server]
           a == [w EXCEPT !.tsx[t] = x]
           b == [a EXCEPT !.tsx[t] = y]
           c == [b EXCEPT !.tsx[t] = z]
<1>1. q \in Transactions(Nat, Nat)
  BY SoundParts DEF Indices
<1>2. /\ x \in Transactions(Nat, Nat) /\ y \in Transactions(Nat, Nat)
      /\ z \in Transactions(Nat, Nat)
      /\ x.method = q.method /\ x.from = q.from /\ x.of = q.of
      /\ y.method = q.method /\ y.from = q.from /\ y.of = q.of
      /\ z.method = q.method /\ z.from = q.from /\ z.of = q.of
      /\ z.sdp = q.sdp /\ z.client = q.client /\ z.done = q.done /\ z.answered = q.answered
      /\ z.status = status /\ z.body = body /\ z.server = server
  BY <1>1 DEF Transactions
<1>3. ASSUME a.tsx[t] = x, b.tsx[t] = y
      PROVE  SendResponse(w, t, status, body) = c
  BY <1>3 DEF SendResponse
<1> HIDE DEF x, y, z, server
<1>4. /\ Frame(w, a, {}, {t}) /\ a.tsx[t] = x
      /\ a.neg = w.neg /\ a.inv = w.inv /\ a.acks = w.acks
  BY <1>2, TsxFrame
<1> HIDE DEF a
<1>5. Sound(a) /\ t \in Indices(a)
  BY <1>4 DEF Frame, Indices
<1>6. /\ Frame(a, b, {}, {t}) /\ b.tsx[t] = y
      /\ b.neg = w.neg /\ b.inv = w.inv /\ b.acks = w.acks
  BY <1>2, <1>4, <1>5, TsxFrame, SMTT(60)
<1> HIDE DEF b
<1>7. Sound(b) /\ t \in Indices(b)
  BY <1>5, <1>6 DEF Frame, Indices
<1>8. /\ Frame(b, c, {}, {t}) /\ c.tsx[t] = z
      /\ c.neg = w.neg /\ c.inv = w.inv /\ c.acks = w.acks
  BY <1>2, <1>6, <1>7, TsxFrame
<1>9. SendResponse(w, t, status, body) = c
  BY <1>3, <1>4, <1>6
<1> HIDE DEF c
<1>10. Frame(w, c, {}, {t})
  BY <1>4, <1>6, <1>8, FrameTrans
<1>11. QED
  BY <1>2, <1>8, <1>9, <1>10 DEF server, Sends

\* One part of a transaction changes.
LEMMA MarkFrame ==
  ASSUME NEW w, Sound(w), NEW t \in Indices(w), NEW b \in BOOLEAN,
         NEW s \in {"trying", "terminated"}
  PROVE  LET d == [w EXCEPT !.tsx[t].done = b]
             a == [w EXCEPT !.tsx[t].answered = b]
             x == [w EXCEPT !.tsx[t].expires = b]
             e == [w EXCEPT !.tsx[t].server = s]
         IN  /\ Frame(w, d, {}, {t}) /\ d.neg = w.neg /\ d.inv = w.inv /\ d.acks = w.acks
             /\ Twin([w.tsx[t] EXCEPT !.done = b], d.tsx[t])
             /\ Frame(w, a, {}, {t}) /\ a.neg = w.neg /\ a.inv = w.inv /\ a.acks = w.acks
             /\ Twin([w.tsx[t] EXCEPT !.answered = b], a.tsx[t])
             /\ Frame(w, x, {}, {}) /\ x.neg = w.neg /\ x.inv = w.inv /\ x.acks = w.acks
             /\ Frame(w, e, {}, {t}) /\ e.neg = w.neg /\ e.inv = w.inv /\ e.acks = w.acks
             /\ Twin([w.tsx[t] EXCEPT !.server = s], e.tsx[t])
<1> DEFINE q == w.tsx[t]
           d == [q EXCEPT !.done = b]
           a == [q EXCEPT !.answered = b]
           x == [q EXCEPT !.expires = b]
           e == [q EXCEPT !.server = s]
<1>1. q \in Transactions(Nat, Nat)
  BY SoundParts DEF Indices
<1>2. /\ d \in Transactions(Nat, Nat) /\ d.method = q.method /\ d.from = q.from /\ d.of = q.of
      /\ a \in Transactions(Nat, Nat) /\ a.method = q.method /\ a.from = q.from /\ a.of = q.of
      /\ x \in Transactions(Nat, Nat) /\ x.method = q.method /\ x.from = q.from /\ x.of = q.of
      /\ e \in Transactions(Nat, Nat) /\ e.method = q.method /\ e.from = q.from /\ e.of = q.of
      /\ Twin(q, x) /\ Twin(d, d) /\ Twin(a, a) /\ Twin(e, e)
  BY <1>1 DEF Transactions, Twin
<1>3. Twin([w.tsx[t] EXCEPT !.done = b], d) /\ Twin([w.tsx[t] EXCEPT !.answered = b], a)
      /\ Twin([w.tsx[t] EXCEPT !.server = s], e) /\ Twin(w.tsx[t], x)
  BY <1>2
<1>4. /\ [w EXCEPT !.tsx[t].done = b] = [w EXCEPT !.tsx[t] = d]
      /\ [w EXCEPT !.tsx[t].answered = b] = [w EXCEPT !.tsx[t] = a]
      /\ [w EXCEPT !.tsx[t].expires = b] = [w EXCEPT !.tsx[t] = x]
      /\ [w EXCEPT !.tsx[t].server = s] = [w EXCEPT !.tsx[t] = e]
  OBVIOUS
<1> HIDE DEF d, a, x, e
<1>5. /\ Frame(w, [w EXCEPT !.tsx[t] = d], {}, {t}) /\ [w EXCEPT !.tsx[t] = d].tsx[t] = d
      /\ [w EXCEPT !.tsx[t] = d].neg = w.neg /\ [w EXCEPT !.tsx[t] = d].inv = w.inv
      /\ [w EXCEPT !.tsx[t] = d].acks = w.acks
  BY <1>2, TsxFrame
<1>6. /\ Frame(w, [w EXCEPT !.tsx[t] = a], {}, {t}) /\ [w EXCEPT !.tsx[t] = a].tsx[t] = a
      /\ [w EXCEPT !.tsx[t] = a].neg = w.neg /\ [w EXCEPT !.tsx[t] = a].inv = w.inv
      /\ [w EXCEPT !.tsx[t] = a].acks = w.acks
  BY <1>2, TsxFrame
<1>7. /\ Frame(w, [w EXCEPT !.tsx[t] = e], {}, {t}) /\ [w EXCEPT !.tsx[t] = e].tsx[t] = e
      /\ [w EXCEPT !.tsx[t] = e].neg = w.neg /\ [w EXCEPT !.tsx[t] = e].inv = w.inv
      /\ [w EXCEPT !.tsx[t] = e].acks = w.acks
  BY <1>2, TsxFrame
<1>8. /\ Frame(w, [w EXCEPT !.tsx[t] = x], {}, {t}) /\ [w EXCEPT !.tsx[t] = x].tsx[t] = x
      /\ [w EXCEPT !.tsx[t] = x].neg = w.neg /\ [w EXCEPT !.tsx[t] = x].inv = w.inv
      /\ [w EXCEPT !.tsx[t] = x].acks = w.acks
  BY <1>2, TsxFrame
<1>9. Frame(w, [w EXCEPT !.tsx[t] = x], {}, {})
  BY <1>3, <1>8 DEF Frame
<1>10. QED
  BY <1>3, <1>4, <1>5, <1>6, <1>7, <1>8, <1>9

\* pj_pool_reset leaves the descriptions as they are.
LEMMA ResetDeal ==
  ASSUME NEW n \in Negotiators(Nat), NEW pool
  PROVE  SameDeal(n, PoolReset(n, pool))
<1> DEFINE A(copy) == IF copy.pool = pool THEN [copy EXCEPT !.pool = "stale"] ELSE copy
<1>1. \A c \in Copies(Nat) : A(c).sdp = c.sdp
  BY DEF Copies
<1>2. /\ n.local \in Copies(Nat) /\ n.remote \in Copies(Nat)
      /\ n.active_local \in Copies(Nat) /\ n.active_remote \in Copies(Nat)
  BY DEF Negotiators
<1>3. PoolReset(n, pool) =
        [n EXCEPT !.local = A(n.local), !.remote = A(n.remote),
                  !.active_local = A(n.active_local), !.active_remote = A(n.active_remote),
                  !.initial = IF n.initial = pool THEN "stale" ELSE n.initial]
  BY DEF PoolReset
<1> HIDE DEF A
<1>4. QED
  BY <1>1, <1>2, <1>3 DEF SameDeal, Negotiators

\* pjmedia_sdp_neg_negotiate agrees on what was being negotiated, or leaves all as it was.
LEMMA NegotiateDeal ==
  ASSUME NEW n \in Negotiators(Nat), NEW fits \in BOOLEAN, NEW prov, NEW pool
  PROVE  LET m == PoolReset(NegotiateSdp(n, fits, prov), pool)
         IN  /\ m.state = "DONE" /\ ~m.has_remote_answer
             /\ fits => m.active_local.sdp = n.local.sdp /\ m.active_remote.sdp = n.remote.sdp
             /\ ~fits => /\ m.active_local.sdp = n.active_local.sdp
                         /\ m.active_remote.sdp = n.active_remote.sdp
<1> DEFINE A(copy) == IF copy.pool = pool THEN [copy EXCEPT !.pool = "stale"] ELSE copy
           x == NegotiateSdp(n, fits, prov)
           m == PoolReset(x, pool)
<1>1. /\ x.state = "DONE" /\ ~x.has_remote_answer
      /\ fits => x.active_local = Copy(n.local.sdp, prov) /\ x.active_remote = n.remote
      /\ ~fits => x.active_local = n.active_local /\ x.active_remote = n.active_remote
  BY DEF NegotiateSdp, Settled, Negotiators
<1>2. /\ m.state = x.state /\ m.has_remote_answer = x.has_remote_answer
      /\ m.active_local = A(x.active_local) /\ m.active_remote = A(x.active_remote)
  BY DEF PoolReset, NegotiateSdp, Settled, Negotiators
<1>3. /\ A(Copy(n.local.sdp, prov)).sdp = n.local.sdp
      /\ \A c \in Copies(Nat) : A(c).sdp = c.sdp
  BY DEF Copy, Copies
<1>4. n.remote \in Copies(Nat) /\ n.active_local \in Copies(Nat) /\ n.active_remote \in Copies(Nat)
  BY DEF Negotiators
<1> HIDE DEF A, x, m
<1>5. fits => m.active_local.sdp = n.local.sdp /\ m.active_remote.sdp = n.remote.sdp
  BY <1>1, <1>2, <1>3, <1>4
<1>6. ~fits => /\ m.active_local.sdp = n.active_local.sdp
              /\ m.active_remote.sdp = n.active_remote.sdp
  BY <1>1, <1>2, <1>3, <1>4
<1>7. QED
  BY <1>1, <1>2, <1>5, <1>6 DEF m, x

\* What concerns the media of one end only.
LEMMA MediaDeals ==
  ASSUME NEW w, NEW v, NEW u \in Ends, Media(w, v), v.tsx = w.tsx,
         \A x \in Ends : /\ v.inv[x].last_ack_cseq = w.inv[x].last_ack_cseq
                         /\ v.inv[x].last_ack = w.inv[x].last_ack,
         \A x \in Ends \ {u} : v.neg[x] = w.neg[x]
  PROVE  Deals(w, v, u)
BY DEF Deals, Media, Frame, SameSession, SameDeal, Twin, Indices

\* The negotiator of u changes ...
LEMMA NegDeals ==
  ASSUME NEW w, Sound(w), NEW u \in Ends, NEW n \in Negotiators(Nat), Fits(n, w.inv[u].prov)
  PROVE  LET v == [w EXCEPT !.neg[u] = n]
         IN  Deals(w, v, u) /\ v.neg[u] = n /\ v.inv = w.inv /\ v.sdps = w.sdps
<1> DEFINE v == [w EXCEPT !.neg[u] = n]
<1>1. w \in Worlds
  BY SoundParts
<1>2. /\ v \in Worlds
      /\ v.neg[u] = n /\ \A y \in Ends \ {u} : v.neg[y] = w.neg[y]
      /\ v.inv = w.inv /\ v.tsx = w.tsx /\ v.acks = w.acks /\ v.sdps = w.sdps
  BY <1>1, PutNeg
<1>3. Media(w, v)
  BY PutNegMedia
<1> HIDE DEF v
<1>4. Deals(w, v, u)
  BY <1>2, <1>3, MediaDeals
<1>5. QED
  BY <1>2, <1>4 DEF v

\* ... and the number of descriptions.
LEMMA SdpsDeals ==
  ASSUME NEW w, NEW v, NEW u \in Ends, Deals(w, v, u), NEW k \in Nat
  PROVE  LET x == [v EXCEPT !.sdps = k]
         IN  Deals(w, x, u) /\ x.neg = v.neg /\ x.inv = v.inv /\ x.sdps = k
<1> DEFINE x == [v EXCEPT !.sdps = k]
<1>1. Sound(v)
  BY DEF Deals, Frame
<1>2. Media(v, x) /\ x.neg = v.neg
  BY <1>1, PutSdpsMedia
<1>3. x.inv = v.inv /\ x.tsx = v.tsx /\ x.acks = v.acks /\ x.sdps = k
  BY <1>1, SoundParts DEF Worlds
<1>4. Sound(x)
  BY <1>2 DEF Media
<1> HIDE DEF x
<1>5. Deals(w, x, u)
  BY <1>2, <1>3, <1>4 DEF Deals, Frame, SameSession, SameDeal, Twin, Indices
<1>6. QED
  BY <1>2, <1>3, <1>5 DEF x

\* inv_negotiate_sdp.
LEMMA NegotiateDeals ==
  ASSUME NEW w, Sound(w), NEW u \in Ends, NEW fits \in BOOLEAN
  PROVE  LET v == Negotiate(w, u, fits)
             n == w.neg[u]
         IN  /\ Deals(w, v, u) /\ v.sdps = w.sdps
             /\ Done(w, v, u, IF fits THEN n.local.sdp ELSE n.active_local.sdp,
                              IF fits THEN n.remote.sdp ELSE n.active_remote.sdp)
<1> DEFINE prov == w.inv[u].prov
           pool == IF fits THEN Other(prov) ELSE prov
           m == PoolReset(NegotiateSdp(w.neg[u], fits, prov), pool)
           v == Negotiate(w, u, fits)
<1>1. w \in Worlds /\ w.neg[u] \in Negotiators(Nat) /\ w.inv[u] \in Sessions(Nat, Nat)
  BY SoundParts
<1>2. Media(w, v)
  BY NegotiateMedia
<1>3. /\ v.neg = [w.neg EXCEPT ![u] = m]
      /\ v.tsx = w.tsx /\ v.sdps = w.sdps
      /\ v.inv = IF fits THEN [w.inv EXCEPT ![u].prov = Other(prov)] ELSE w.inv
  BY <1>1 DEF Negotiate, Other, Worlds
<1> HIDE DEF v, pool
<1>4. /\ m.state = "DONE" /\ ~m.has_remote_answer
      /\ fits => /\ m.active_local.sdp = w.neg[u].local.sdp
                 /\ m.active_remote.sdp = w.neg[u].remote.sdp
      /\ ~fits => /\ m.active_local.sdp = w.neg[u].active_local.sdp
                  /\ m.active_remote.sdp = w.neg[u].active_remote.sdp
  BY <1>1, NegotiateDeal
<1> HIDE DEF m
<1>5. /\ v.neg[u] = m
      /\ \A y \in Ends \ {u} : v.neg[y] = w.neg[y]
      /\ \A y \in Ends : /\ v.inv[y].last_ack_cseq = w.inv[y].last_ack_cseq
                         /\ v.inv[y].last_ack = w.inv[y].last_ack
  BY <1>1, <1>3 DEF Worlds, Sessions
<1>6. Deals(w, v, u)
  BY <1>2, <1>3, <1>5, MediaDeals
<1>7. QED
  BY <1>3, <1>4, <1>5, <1>6 DEF Done, v

\* on_rx_offer: the application has given an answer.
LEMMA AnswerDeals ==
  ASSUME NEW w, Sound(w), NEW u \in Ends
  PROVE  LET v == AnswerOffer(w, u)
         IN  /\ Deals(w, v, u) /\ v.sdps = w.sdps + 1
             /\ v.neg[u].state = "WAIT_NEGO" /\ v.neg[u].local.sdp = w.sdps + 1
             /\ v.neg[u].remote = w.neg[u].remote
             /\ v.neg[u].active_local = w.neg[u].active_local
             /\ v.neg[u].active_remote = w.neg[u].active_remote
             /\ v.neg[u].has_remote_answer = w.neg[u].has_remote_answer
<1> DEFINE k == w.sdps + 1
           n == LocalAnswer(w.neg[u], k, w.inv[u].prov)
           a == [w EXCEPT !.neg[u] = n]
<1>1. /\ k \in Nat /\ w.inv[u].prov \in {"A", "B"}
      /\ w.neg[u] \in Negotiators(Nat) /\ Fits(w.neg[u], w.inv[u].prov)
  BY SoundParts
<1>2. n \in Negotiators(Nat) /\ Fits(n, w.inv[u].prov)
  BY <1>1, NegotiatorFits
<1>3. AnswerOffer(w, u) = [a EXCEPT !.sdps = k]
  <2>1. a.sdps = w.sdps
    BY SoundParts DEF Worlds
  <2>2. QED
    BY <2>1 DEF AnswerOffer
<1>4. /\ n.state = "WAIT_NEGO" /\ n.local.sdp = k /\ n.remote = w.neg[u].remote
      /\ n.active_local = w.neg[u].active_local /\ n.active_remote = w.neg[u].active_remote
      /\ n.has_remote_answer = w.neg[u].has_remote_answer
  BY <1>1 DEF LocalAnswer, Copy, Negotiators
<1> HIDE DEF n
<1>5. Deals(w, a, u) /\ a.neg[u] = n
  BY <1>1, <1>2, NegDeals
<1> HIDE DEF a
<1>6. LET x == [a EXCEPT !.sdps = k]
      IN  Deals(w, x, u) /\ x.neg = a.neg /\ x.sdps = k
  BY <1>1, <1>5, SdpsDeals
<1>7. QED
  BY <1>3, <1>4, <1>5, <1>6

\* What concerns the media of one end, one after another.
LEMMA DealsTrans ==
  ASSUME NEW w, NEW v, NEW x, NEW u, Deals(w, v, u), Deals(v, x, u)
  PROVE  Deals(w, x, u)
BY SMTT(60) DEF Deals, Frame, SameSession, SameDeal, Twin, Indices

\* inv_check_sdp_in_incoming_msg of an offer.
LEMMA RxOfferDeals ==
  ASSUME NEW w, Sound(w), NEW u \in Ends, NEW sdp \in Nat, NEW choice
  PROVE  LET v == RxOffer(w, u, sdp, choice)
             n == v.neg[u]
         IN  /\ Deals(w, v, u)
             /\ n.state = (IF choice = "decline" THEN "REMOTE_OFFER" ELSE "WAIT_NEGO")
             /\ n.remote.sdp = sdp /\ (choice # "decline" => n.local.sdp = w.sdps + 1)
             /\ n.active_local = w.neg[u].active_local
             /\ n.active_remote = w.neg[u].active_remote
             /\ n.has_remote_answer = w.neg[u].has_remote_answer
<1>1. /\ w.inv[u].prov \in {"A", "B"} /\ w.sdps \in Nat
      /\ w.neg[u] \in Negotiators(Nat) /\ Fits(w.neg[u], w.inv[u].prov)
  BY SoundParts
<1> DEFINE pool == IF w.neg[u].state = "NULL" THEN "long" ELSE w.inv[u].prov
           n == RemoteOffer(w.neg[u], sdp, pool)
           a == [w EXCEPT !.neg[u] = n]
<1>2. n \in Negotiators(Nat) /\ Fits(n, w.inv[u].prov)
  BY <1>1, NegotiatorFits
<1>3. RxOffer(w, u, sdp, choice) = IF choice = "decline" THEN a ELSE AnswerOffer(a, u)
  BY DEF RxOffer
<1>4. /\ n.state = "REMOTE_OFFER" /\ n.remote.sdp = sdp
      /\ n.active_local = w.neg[u].active_local /\ n.active_remote = w.neg[u].active_remote
      /\ n.has_remote_answer = w.neg[u].has_remote_answer
  BY <1>1 DEF RemoteOffer, Copy, Negotiators
<1> HIDE DEF n
<1>5. Deals(w, a, u) /\ a.neg[u] = n /\ a.sdps = w.sdps
  BY <1>1, <1>2, NegDeals
<1> HIDE DEF a
<1>6. Sound(a)
  BY <1>5 DEF Deals, Frame
<1>7. CASE choice = "decline"
  BY <1>3, <1>4, <1>5, <1>7
<1>8. CASE choice # "decline"
  <2> DEFINE v == AnswerOffer(a, u)
  <2>1. /\ Deals(a, v, u)
        /\ v.neg[u].state = "WAIT_NEGO" /\ v.neg[u].local.sdp = a.sdps + 1
        /\ v.neg[u].remote = a.neg[u].remote
        /\ v.neg[u].active_local = a.neg[u].active_local
        /\ v.neg[u].active_remote = a.neg[u].active_remote
        /\ v.neg[u].has_remote_answer = a.neg[u].has_remote_answer
    BY <1>6, AnswerDeals
  <2>2. RxOffer(w, u, sdp, choice) = v
    BY <1>3, <1>8
  <2> HIDE DEF v
  <2>3. Deals(w, v, u)
    BY <1>5, <2>1, DealsTrans
  <2>4. QED
    BY <1>4, <1>5, <1>8, <2>1, <2>2, <2>3
<1>9. QED
  BY <1>7, <1>8

\* ... and of an answer.
LEMMA RxAnswerDeals ==
  ASSUME NEW w, Sound(w), NEW u \in Ends, NEW sdp \in Nat
  PROVE  LET v == RxAnswer(w, u, sdp)
         IN  Deals(w, v, u) /\ Done(w, v, u, w.neg[u].local.sdp, sdp)
<1>1. /\ w.inv[u].prov \in {"A", "B"} /\ w.sdps \in Nat
      /\ w.neg[u] \in Negotiators(Nat) /\ Fits(w.neg[u], w.inv[u].prov)
  BY SoundParts
<1> DEFINE n == RemoteAnswer(w.neg[u], sdp, w.inv[u].prov)
           a == [w EXCEPT !.neg[u] = n]
           v == Negotiate(a, u, TRUE)
<1>2. n \in Negotiators(Nat) /\ Fits(n, w.inv[u].prov)
  BY <1>1, NegotiatorFits
<1>3. RxAnswer(w, u, sdp) = v
  BY DEF RxAnswer
<1>4. n.local.sdp = w.neg[u].local.sdp /\ n.remote.sdp = sdp
  BY <1>1 DEF RemoteAnswer, Copy, Negotiators
<1> HIDE DEF n
<1>5. Deals(w, a, u) /\ a.neg[u] = n
  BY <1>1, <1>2, NegDeals
<1> HIDE DEF a
<1>6. Sound(a)
  BY <1>5 DEF Deals, Frame
<1>7. Deals(a, v, u) /\ Done(a, v, u, a.neg[u].local.sdp, a.neg[u].remote.sdp)
  BY <1>6, NegotiateDeals
<1> HIDE DEF v
<1>8. Deals(w, v, u)
  BY <1>5, <1>7, DealsTrans
<1>9. QED
  BY <1>3, <1>4, <1>5, <1>7, <1>8 DEF Done

\* pjmedia_sdp_neg_cancel_offer, and its callers.
LEMMA CancelDeals ==
  ASSUME NEW w, Sound(w), NEW u \in Ends
  PROVE  LET v == [w EXCEPT !.neg[u] = CancelOffer(@)]
             n == w.neg[u]
         IN  /\ Deals(w, v, u)
             /\ n.state \in {"LOCAL_OFFER", "REMOTE_OFFER"} =>
                   Done(w, v, u, n.active_local.sdp, n.active_remote.sdp)
             /\ Withdraw(w, u) = IF n.state = "LOCAL_OFFER" THEN v ELSE w
<1> DEFINE n == CancelOffer(w.neg[u])
<1>1. /\ w.inv[u].prov \in {"A", "B"} /\ w.sdps \in Nat
      /\ w.neg[u] \in Negotiators(Nat) /\ Fits(w.neg[u], w.inv[u].prov)
  BY SoundParts
<1>2. n \in Negotiators(Nat) /\ Fits(n, w.inv[u].prov)
  BY <1>1, NegotiatorFits
<1>3. w.neg[u].state \in {"LOCAL_OFFER", "REMOTE_OFFER"} =>
        /\ n.state = "DONE" /\ ~n.has_remote_answer
        /\ n.active_local = w.neg[u].active_local /\ n.active_remote = w.neg[u].active_remote
  BY <1>1 DEF CancelOffer, Settled, Negotiators
<1>4. [w EXCEPT !.neg[u] = CancelOffer(@)] = [w EXCEPT !.neg[u] = n]
  OBVIOUS
<1> HIDE DEF n
<1>5. Deals(w, [w EXCEPT !.neg[u] = n], u) /\ [w EXCEPT !.neg[u] = n].neg[u] = n
  BY <1>1, <1>2, NegDeals
<1>6. QED
  BY <1>3, <1>4, <1>5 DEF Done, Withdraw

-----------------------------------------------------------------------------
(* What follows from the invariant *)

\* The first transaction, and the two ends of the others.
LEMMA Basics ==
  ASSUME NEW w, Runs(w)
  PROVE  /\ Len(w.tsx) \in Nat \ {0} /\ 1 \in Indices(w) /\ "caller" \in Ends /\ "callee" \in Ends
         /\ w.tsx[1].method = "INVITE" /\ w.tsx[1].from = "caller"
         /\ Peer("caller") = "callee" /\ Peer("callee") = "caller"
         /\ \A u \in Ends : Peer(u) \in Ends /\ Peer(u) # u /\ Peer(Peer(u)) = u
         /\ \A t \in Indices(w) : t \in Nat /\ w.tsx[t].from \in Ends
         /\ \A t \in Indices(w) : w.tsx[t].status \in Nat
<1>1. Ending(w)
  BY DEF Runs
<1>2. \A u \in Ends : Peer(u) \in Ends /\ Peer(u) # u /\ Peer(Peer(u)) = u
  BY DEF Ends, Peer
<1>3. \A t \in Indices(w) : w.tsx[t].status \in Nat
  BY <1>1 DEF Ending, Codes
<1>4. \A t \in Indices(w) : t \in Nat
  BY DEF Indices
<1>5. QED
  BY <1>1, <1>2, <1>3, <1>4, EndingParts

\* Which states the two ends may be in together.
LEMMA Bearings ==
  ASSUME NEW w, Runs(w), Dealing(w)
  PROVE  /\ w.inv["caller"].state \notin {"NULL", "INCOMING", "CONNECTING"}
         /\ w.inv["callee"].state # "CALLING"
         /\ w.inv["caller"].state = "CONFIRMED" =>
               w.inv["callee"].state \in {"CONNECTING", "CONFIRMED", "DISCONNECTED"}
         /\ w.inv["callee"].state = "CONFIRMED" =>
               w.inv["caller"].state \in {"CONFIRMED", "DISCONNECTED"}
         /\ w.tsx[1].client = "calling" =>
               w.inv["caller"].state \in {"CALLING", "EARLY", "DISCONNECTED"}
         /\ w.inv["caller"].state \in {"CALLING", "EARLY"} => w.tsx[1].client = "calling"
         /\ w.inv["callee"].state \in {"INCOMING", "EARLY"} =>
               w.tsx[1].server = "proceeding" /\ w.inv["callee"].invite_tsx = 1
<1>1. Ending(w) /\ Course(w) /\ Sound(w)
  BY DEF Runs, Begun
<1>2. \A u \in Ends : w.inv[u].state \in States
  BY <1>1, SoundParts DEF Sessions
<1>3. Len(w.tsx) > 0 /\ "caller" \in Ends /\ "callee" \in Ends
  BY Basics
<1>4. /\ w.inv["caller"].state \notin {"NULL", "INCOMING", "CONNECTING"}
      /\ w.inv["callee"].state # "CALLING"
  BY <1>1, <1>3 DEF Course, Dealing, Connecting
<1>5. w.inv["caller"].state = "CONFIRMED" =>
         w.inv["callee"].state \in {"CONNECTING", "CONFIRMED", "DISCONNECTED"}
  BY <1>1, <1>2, <1>3, <1>4 DEF Course, Ending, First, States
<1>6. w.inv["callee"].state = "CONFIRMED" =>
         w.inv["caller"].state \in {"CONFIRMED", "DISCONNECTED"}
  BY <1>1, <1>2, <1>3, <1>4 DEF Dealing, CallerRings, States
<1>7. QED
  BY <1>1, <1>3, <1>4, <1>5, <1>6 DEF Course

\* Who has a request open.
LEMMA OpenWhen ==
  ASSUME NEW w, Runs(w), Dealing(w), NEW t, NEW u \in Ends, Open(w, t, u)
  PROVE  \/ t = 1 /\ u = "caller" /\ w.inv[u].state \in {"CALLING", "EARLY", "DISCONNECTED"}
         \/ /\ t # 1 /\ w.inv[u].state = "CONFIRMED" /\ AsksFor(w, t, u)
            /\ \A s \in Indices(w) : ~Serving(w, s, u)
            /\ ~Stuck(w, u)
            /\ w.inv[Peer(u)].state \in {"CONNECTING", "CONFIRMED", "DISCONNECTED"}
<1>1. t \in Indices(w) /\ w.tsx[t].from = u /\ w.tsx[t].method \in {"INVITE", "UPDATE"}
      /\ w.tsx[t].client = "calling"
  BY DEF Open
<1>2. CASE t = 1
  BY <1>1, <1>2, Basics, Bearings
<1>3. CASE t # 1
  <2>1. w.inv[u].state = "CONFIRMED"
    BY <1>1, <1>3 DEF Dealing, Requests
  <2>2. Steady(w, u)
    BY <2>1 DEF Dealing
  <2>3. AsksFor(w, t, u)
    BY <1>1, <2>2 DEF Steady
  <2>4. \A s \in Indices(w) : ~Serving(w, s, u)
    BY <1>1, <2>2 DEF Steady, Answers
  <2>5. ~Stuck(w, u)
    BY <1>1 DEF Stuck
  <2>6. w.inv[Peer(u)].state \in {"CONNECTING", "CONFIRMED", "DISCONNECTED"}
    BY <2>1, Bearings, Basics DEF Ends
  <2>7. QED
    BY <1>3, <2>1, <2>3, <2>4, <2>5, <2>6
<1>4. QED
  BY <1>2, <1>3

\* Who serves an INVITE.
LEMMA ServingWhen ==
  ASSUME NEW w, Runs(w), Dealing(w), NEW t, NEW u \in Ends, Serving(w, t, u)
  PROVE  \/ t = 1 /\ u = "callee"
         \/ /\ t # 1 /\ w.inv[u].state \in {"CONFIRMED", "DISCONNECTED"}
            /\ w.inv[Peer(u)].state = "CONFIRMED"
<1>1. /\ t \in Indices(w) /\ w.inv[u].invite_tsx = t
      /\ w.tsx[t].method = "INVITE" /\ w.tsx[t].from = Peer(u)
  BY DEF Serving
<1>2. CASE t = 1
  BY <1>1, <1>2, Basics
<1>3. CASE t # 1
  <2>1. w.inv[Peer(u)].state = "CONFIRMED"
    BY <1>1, <1>3 DEF Dealing, Requests
  <2>2. w.inv[u].state \in {"CONNECTING", "CONFIRMED", "DISCONNECTED"}
    BY <2>1, Bearings, Basics DEF Ends
  <2>3. w.inv[u].state # "CONNECTING"
    BY <1>1, <1>3 DEF Dealing, Connecting
  <2>4. QED
    BY <1>3, <2>1, <2>2, <2>3
<1>4. QED
  BY <1>2, <1>3

-----------------------------------------------------------------------------
(* Steps that concern no offer *)

Unoffered(n, m) ==
    /\ m.state = n.state /\ m.has_remote_answer = n.has_remote_answer
    /\ m.active_local.sdp = n.active_local.sdp /\ m.active_remote.sdp = n.active_remote.sdp
    /\ n.state # "DONE" => m.local.sdp = n.local.sdp /\ m.remote.sdp = n.remote.sdp

\* The INVITE that an end remembers.
Remembers(w, v, u) ==
    LET i == w.inv[u].invite_tsx
        j == v.inv[u].invite_tsx
    IN  \/ j = i
        \/ /\ j = 0 /\ i \in Indices(w)
           /\ \/ w.tsx[i].from = Peer(u) /\ v.tsx[i].server = "terminated"
              \/ w.tsx[i].from = u /\ v.tsx[i].client # "calling"
        \/ /\ i = 0 /\ j \in Indices(w) \ {1}
           /\ w.tsx[j].from = Peer(u) /\ v.tsx[j].status >= 300

Idle(w, v, u) ==
    /\ \/ v.inv[u].state = w.inv[u].state
       \/ u = "caller" /\ w.inv[u].state = "CALLING" /\ v.inv[u].state = "EARLY"
    /\ v.inv[u].last_ack_cseq = w.inv[u].last_ack_cseq /\ v.inv[u].last_ack = w.inv[u].last_ack
    /\ Unoffered(w.neg[u], v.neg[u])
    /\ Remembers(w, v, u)

\* What carries the offers stays in a transaction, it is refused, or nobody looks at it
\* again.
Minor(w, v, t) ==
    LET x == w.tsx[t]
        y == v.tsx[t]
    IN  /\ y.method = x.method /\ y.from = x.from
        /\ \/ y.client = x.client
           \/ x.client # "calling" /\ y.client = "terminated"
           \/ /\ x.client = "calling" /\ y.client # "calling"
              /\ x.method = "CANCEL" \/ (t = 1 /\ w.inv["caller"].state = "DISCONNECTED")
        /\ \/ /\ y.sdp = x.sdp /\ y.body = x.body /\ y.done = x.done
              /\ y.answered = x.answered /\ y.status = x.status
              /\ \/ y.server = x.server
                 \/ x.server = "none" /\ y.server = "trying"
                 \/ /\ x.server = "completed" /\ y.server = "terminated"
                    /\ t = 1 => w.inv["callee"].state # "CONNECTING"
           \/ /\ x.server = "none" /\ y.server \in {"completed", "terminated"} /\ t # 1
              /\ y.sdp = x.sdp /\ y.done = x.done /\ y.body = 0 /\ y.answered = x.answered
              /\ y.status >= 300 \/ x.method = "CANCEL"
           \/ /\ x.client = "terminated" /\ y.client = "terminated"
              /\ x.server = "terminated" /\ y.server = "terminated"
              /\ y.status = 0

Little(w, v) ==
    /\ Sound(v) /\ Len(v.tsx) >= Len(w.tsx) /\ v.acks \subseteq w.acks
    /\ \A u \in Ends : Idle(w, v, u)
    /\ \A t \in Indices(w) : Minor(w, v, t)
    /\ \A t \in Indices(v) : t > Len(w.tsx) =>
          v.tsx[t].method = "CANCEL" /\ v.tsx[t].body = 0 /\ ~v.tsx[t].answered

\* What is open or waits for an ACK was so before.
LEMMA LittleOpen ==
  ASSUME NEW w, Runs(w), NEW v, Little(w, v), NEW u \in Ends, NEW t
  PROVE  /\ Open(w, t, u) /\ w.inv[u].state # "DISCONNECTED" => Open(v, t, u)
         /\ Open(v, t, u) =>
               /\ Open(w, t, u) /\ w.tsx[t].method = v.tsx[t].method
               /\ v.tsx[t].sdp = w.tsx[t].sdp /\ v.tsx[t].done = w.tsx[t].done
               /\ \/ /\ v.tsx[t].status = w.tsx[t].status /\ v.tsx[t].body = w.tsx[t].body
                     /\ v.tsx[t].answered = w.tsx[t].answered
                  \/ /\ v.tsx[t].body = 0 /\ v.tsx[t].status >= 300 /\ t # 1
                     /\ w.tsx[t].server = "none"
<1>1. /\ Len(w.tsx) \in Nat /\ Len(v.tsx) \in Nat /\ Len(v.tsx) >= Len(w.tsx)
      /\ \A i \in Indices(w) : Minor(w, v, i)
      /\ \A i \in Indices(v) : i > Len(w.tsx) => v.tsx[i].method = "CANCEL"
      /\ w.tsx[1].from = "caller"
  BY Basics, SoundParts DEF Little
<1>2. ASSUME Open(w, t, u), w.inv[u].state # "DISCONNECTED"
      PROVE  Open(v, t, u)
  BY <1>1, <1>2 DEF Open, Indices, Minor
<1>3. ASSUME Open(v, t, u)
      PROVE  Open(w, t, u) /\ w.tsx[t].method = v.tsx[t].method
  BY <1>1, <1>3 DEF Open, Indices, Minor
<1>4. ASSUME Open(v, t, u)
      PROVE  /\ v.tsx[t].sdp = w.tsx[t].sdp /\ v.tsx[t].done = w.tsx[t].done
             /\ \/ /\ v.tsx[t].status = w.tsx[t].status /\ v.tsx[t].body = w.tsx[t].body
                   /\ v.tsx[t].answered = w.tsx[t].answered
                \/ /\ v.tsx[t].body = 0 /\ v.tsx[t].status >= 300 /\ t # 1
                   /\ w.tsx[t].server = "none"
  BY <1>1, <1>3, <1>4 DEF Open, Minor
<1>5. QED
  BY <1>2, <1>3, <1>4

\* Likewise.
LEMMA LittleServing ==
  ASSUME NEW w, Runs(w), NEW v, Little(w, v), NEW u \in Ends, NEW t
  PROVE  /\ Serving(v, t, u) =>
               /\ Serving(w, t, u) /\ v.tsx[t].server = w.tsx[t].server
               /\ v.tsx[t].sdp = w.tsx[t].sdp
               /\ v.tsx[t].status = w.tsx[t].status /\ v.tsx[t].body = w.tsx[t].body
               /\ v.tsx[t].answered = w.tsx[t].answered
         /\ Serving(w, t, u) =>
               \/ Serving(v, t, u)
               \/ /\ w.tsx[t].server = "completed" /\ v.tsx[t].server = "terminated"
                  /\ t = 1 => w.inv["callee"].state # "CONNECTING"
<1>1. /\ Len(w.tsx) \in Nat /\ Len(v.tsx) \in Nat /\ Len(v.tsx) >= Len(w.tsx)
      /\ \A i \in Indices(w) : Minor(w, v, i)
      /\ \A i \in Indices(v) : i > Len(w.tsx) => v.tsx[i].method = "CANCEL"
      /\ Remembers(w, v, u) /\ Peer(u) # u
      /\ \A i \in Indices(v) : v.tsx[i].status \in Nat
  BY Basics, SoundParts DEF Little, Idle, Indices
<1>2. ASSUME Serving(v, t, u)
      PROVE  t \in Indices(w) /\ w.tsx[t].method = "INVITE" /\ w.tsx[t].from = Peer(u)
  BY <1>1, <1>2 DEF Serving, Indices, Minor
<1>3. ASSUME Serving(v, t, u)
      PROVE  w.inv[u].invite_tsx = t
  <2>1. v.inv[u].invite_tsx = t /\ v.tsx[t].status < 300 /\ t \in Indices(w) /\ t # 0
    BY <1>2, <1>3, Basics DEF Serving, Indices
  <2>2. v.tsx[t].status \in Nat /\ ~(v.tsx[t].status >= 300)
    BY <1>1, <2>1 DEF Indices
  <2>3. QED
    BY <1>1, <1>2, <1>3, <2>1, <2>2 DEF Remembers, Serving
<1>4. ASSUME Serving(v, t, u)
      PROVE  /\ v.tsx[t].server = w.tsx[t].server
             /\ v.tsx[t].sdp = w.tsx[t].sdp
             /\ v.tsx[t].status = w.tsx[t].status /\ v.tsx[t].body = w.tsx[t].body
             /\ v.tsx[t].answered = w.tsx[t].answered
  <2>1. v.tsx[t].status \in Nat /\ ~(v.tsx[t].status >= 300)
    BY <1>1, <1>4 DEF Serving
  <2>2. Minor(w, v, t) /\ v.tsx[t].server \in {"proceeding", "completed"}
    BY <1>1, <1>2, <1>4 DEF Serving
  <2>3. QED
    BY <1>2, <1>4, <2>1, <2>2 DEF Minor
<1>5. ASSUME Serving(w, t, u)
      PROVE  \/ Serving(v, t, u)
             \/ /\ w.tsx[t].server = "completed" /\ v.tsx[t].server = "terminated"
                /\ t = 1 => w.inv["callee"].state # "CONNECTING"
  BY <1>1, <1>5 DEF Serving, Minor, Remembers, Indices
<1>6. QED
  BY <1>2, <1>3, <1>4, <1>5 DEF Serving

\* An offer that stays open for good, an answer on its way.
LEMMA LittleDue ==
  ASSUME NEW w, Runs(w), Dealing(w), NEW v, Little(w, v), NEW u \in Ends, Joined(w)
  PROVE  /\ Stuck(w, u) => Stuck(v, u)
         /\ \A t : Carried(w, t, u) <=> Carried(v, t, u)
         /\ \A t : Asked(v, t, u) => Asked(w, t, u)
         /\ \A t : Acked(v, t, u) => Acked(w, t, u)
         /\ \A t : Serving(w, t, u) /\ ~w.tsx[t].answered /\ w.neg[u].state = "LOCAL_OFFER" =>
               Serving(v, t, u) \/ Stuck(v, u)
         /\ \A t : Acked(w, t, u) => Acked(v, t, u) \/ Stuck(v, u)
         /\ v.neg[u].active_local.sdp = w.neg[u].active_local.sdp
         /\ v.neg[u].active_remote.sdp = w.neg[u].active_remote.sdp
         /\ w.neg[u].state # "DONE" => v.neg[u].local.sdp = w.neg[u].local.sdp
<1>1. /\ Unoffered(w.neg[u], v.neg[u]) /\ Idle(w, v, Peer(u)) /\ Idle(w, v, u)
      /\ \A t \in Indices(w) : Minor(w, v, t)
      /\ w.inv[u].state # "DISCONNECTED"
  BY Basics DEF Little, Idle, Joined
<1>2. ASSUME Stuck(w, u)
      PROVE  Stuck(v, u)
  <2>1. \A t : ~Open(w, t, u) /\ ~Serving(w, t, u)
    BY <1>2 DEF Stuck, Open, Serving
  <2>2. \A t : ~Open(v, t, u) /\ ~Serving(v, t, u)
    BY <2>1, LittleOpen, LittleServing
  <2>3. w.inv[u].state = "CONFIRMED" /\ w.neg[u].state = "LOCAL_OFFER"
    BY <1>2 DEF Stuck
  <2>4. QED
    BY <1>1, <2>2, <2>3 DEF Stuck, Idle, Unoffered
<1>3. ASSUME NEW t, Carried(w, t, u)
      PROVE  Carried(v, t, u)
  <2>1. Open(w, t, u) /\ Open(v, t, u)
    BY <1>1, <1>3, LittleOpen DEF Carried
  <2>2. w.tsx[t].server # "none"
    BY <1>3 DEF Carried, Open, Dealing, Requests
  <2>3. v.tsx[t].body = w.tsx[t].body /\ v.tsx[t].done = w.tsx[t].done
        /\ v.tsx[t].sdp = w.tsx[t].sdp
    BY <2>1, <2>2, LittleOpen
  <2>4. QED
    BY <1>3, <2>1, <2>3 DEF Carried
<1>4. ASSUME NEW t, Carried(v, t, u)
      PROVE  Carried(w, t, u)
  <2>1. Open(v, t, u) /\ v.tsx[t].body # 0
    BY <1>4 DEF Carried
  <2>2. Open(w, t, u) /\ v.tsx[t].body = w.tsx[t].body /\ v.tsx[t].done = w.tsx[t].done
        /\ v.tsx[t].sdp = w.tsx[t].sdp
    BY <2>1, LittleOpen
  <2>3. QED
    BY <1>4, <2>2 DEF Carried
<1>5. ASSUME NEW t, Asked(v, t, u)
      PROVE  Asked(w, t, u)
  <2>1. Serving(w, t, u) /\ v.tsx[t].answered = w.tsx[t].answered
    BY <1>5, LittleServing DEF Asked
  <2>2. w.neg[u].state = "LOCAL_OFFER"
    BY <1>1, <1>5 DEF Asked, Unoffered
  <2>3. w.tsx[t].client # "calling"
    <3>1. SUFFICES ASSUME w.tsx[t].client = "calling" PROVE FALSE
      OBVIOUS
    <3>2. t \in Indices(w) /\ w.tsx[t].from = Peer(u) /\ w.tsx[t].method = "INVITE"
      BY <2>1 DEF Serving
    <3>3. Open(w, t, Peer(u)) /\ w.inv[Peer(u)].state # "DISCONNECTED" /\ Peer(u) \in Ends
      BY <3>1, <3>2, Basics DEF Open, Joined
    <3>4. Open(v, t, Peer(u))
      BY <3>3, LittleOpen
    <3>5. QED
      BY <1>5, <3>4 DEF Asked, Open
  <2>4. QED
    BY <1>5, <2>1, <2>2, <2>3 DEF Asked
<1>6. ASSUME NEW t, Acked(v, t, u)
      PROVE  Acked(w, t, u)
  BY <1>1, <1>5, <1>6 DEF Acked, Idle
<1>7. ASSUME NEW t, Serving(w, t, u), ~w.tsx[t].answered, w.neg[u].state = "LOCAL_OFFER",
             ~Serving(v, t, u)
      PROVE  Stuck(v, u)
  <2>1. /\ w.tsx[t].server = "completed" /\ v.tsx[t].server = "terminated"
        /\ t = 1 => w.inv["callee"].state # "CONNECTING"
    BY <1>7, LittleServing
  <2>2. w.inv[u].state = "CONFIRMED"
    <3>1. CASE t # 1
      BY <1>1, <1>7, <3>1, ServingWhen
    <3>2. CASE t = 1
      <4>1. u = "callee" /\ w.inv[u].state # "CONNECTING"
        BY <1>7, <2>1, <3>2, ServingWhen
      <4>2. w.inv[u].state \notin {"INCOMING", "EARLY"}
        BY <2>1, <3>2, <4>1, Bearings
      <4>3. w.inv[u].state # "CALLING" /\ w.inv[u].state \in States
        BY <4>1, Bearings, SoundParts DEF Runs, Begun, Sessions
      <4>4. w.inv[u].state # "NULL"
        BY <1>7 DEF Dealing, Notes
      <4>5. QED
        BY <1>1, <4>1, <4>2, <4>3, <4>4 DEF States
    <3>3. QED
      BY <3>1, <3>2
  <2>3. \A s : ~Open(w, s, u)
    BY <1>7, <2>2 DEF Dealing, Steady, Answers, Open, Serving
  <2>4. \A s : ~Open(v, s, u)
    BY <2>3, LittleOpen
  <2>5. ASSUME NEW s, Serving(v, s, u)
        PROVE  FALSE
    <3>1. Serving(w, s, u)
      BY <2>5, LittleServing
    <3>2. s = t
      BY <1>7, <3>1 DEF Serving
    <3>3. QED
      BY <1>7, <2>5, <3>2
  <2>6. v.inv[u].state = "CONFIRMED" /\ v.neg[u].state = "LOCAL_OFFER"
    BY <1>1, <1>7, <2>2 DEF Idle, Unoffered
  <2>7. QED
    BY <2>4, <2>5, <2>6 DEF Stuck
<1>8. ASSUME NEW t, Acked(w, t, u)
      PROVE  Acked(v, t, u) \/ Stuck(v, u)
  <2>1. /\ Serving(w, t, u) /\ ~w.tsx[t].answered /\ w.neg[u].state = "LOCAL_OFFER"
        /\ w.tsx[t].client # "calling" /\ w.inv[Peer(u)].last_ack # 0
    BY <1>8 DEF Acked, Asked
  <2>2. CASE Serving(v, t, u)
    <3>1. v.tsx[t].answered = w.tsx[t].answered /\ v.neg[u].state = "LOCAL_OFFER"
          /\ v.inv[Peer(u)].last_ack # 0
      BY <1>1, <2>1, <2>2, LittleServing DEF Unoffered, Idle
    <3>2. v.tsx[t].client # "calling"
      <4>1. Minor(w, v, t)
        BY <1>1, <2>1 DEF Serving
      <4>2. QED
        BY <2>1, <4>1 DEF Minor
    <3>3. QED
      BY <2>1, <2>2, <3>1, <3>2 DEF Acked, Asked
  <2>3. CASE ~Serving(v, t, u)
    BY <1>7, <2>1, <2>3
  <2>4. QED
    BY <2>2, <2>3
<1>9. QED
  BY <1>1, <1>2, <1>3, <1>4, <1>5, <1>6, <1>7, <1>8 DEF Unoffered

\* What the ends note, and what was asked.
LEMMA LittleNotes ==
  ASSUME NEW w, Runs(w), Dealing(w), NEW v, Little(w, v)
  PROVE  Notes(v) /\ Accepted(v) /\ Requests(v) /\ Connecting(v)
<1>1. /\ Len(w.tsx) \in Nat \ {0} /\ Len(v.tsx) \in Nat /\ Len(v.tsx) >= Len(w.tsx)
      /\ \A t \in Indices(w) : Minor(w, v, t) /\ t \in Indices(v)
      /\ \A t \in Indices(v) : t > Len(w.tsx) =>
            v.tsx[t].method = "CANCEL" /\ v.tsx[t].body = 0 /\ ~v.tsx[t].answered
      /\ \A u \in Ends : Idle(w, v, u) /\ Peer(u) \in Ends /\ Peer(u) # u
      /\ \A t \in Indices(v) : v.tsx[t].status \in Nat
      /\ \A t \in Indices(v) : t \notin Indices(w) => t > Len(w.tsx)
      /\ v.acks \subseteq w.acks
      /\ 1 \in Indices(w)
      /\ w.tsx[1].from = "caller" /\ w.tsx[1].method = "INVITE"
  BY Basics, SoundParts DEF Little, Indices
<1>2. Notes(w) /\ Accepted(w) /\ Requests(w) /\ Connecting(w)
  BY DEF Dealing
<1>3. Notes(v)
  <2>1. SUFFICES ASSUME NEW u \in Ends
                 PROVE  /\ ~v.neg[u].has_remote_answer
                        /\ v.inv[u].state \in {"NULL", "DISCONNECTED"} => v.neg[u].state = "NULL"
                        /\ v.inv[u].last_ack_cseq # 0 =>
                              /\ v.inv[u].last_ack_cseq \in Indices(v)
                              /\ v.tsx[v.inv[u].last_ack_cseq].client # "calling"
    BY DEF Notes
  <2>2. Idle(w, v, u)
    BY <1>1
  <2>3. /\ ~v.neg[u].has_remote_answer
        /\ v.inv[u].state \in {"NULL", "DISCONNECTED"} => v.neg[u].state = "NULL"
    BY <1>2, <2>2 DEF Notes, Idle, Unoffered
  <2>4. ASSUME v.inv[u].last_ack_cseq # 0
        PROVE  /\ v.inv[u].last_ack_cseq \in Indices(v)
               /\ v.tsx[v.inv[u].last_ack_cseq].client # "calling"
    <3>1. PICK t \in Indices(w) : t = v.inv[u].last_ack_cseq /\ w.tsx[t].client # "calling"
      BY <1>2, <2>2, <2>4 DEF Notes, Idle
    <3>2. v.tsx[t].client # "calling"
      BY <1>1, <3>1 DEF Minor
    <3>3. QED
      BY <1>1, <3>1, <3>2
  <2>5. QED
    BY <2>3, <2>4
<1>4. Accepted(v)
  <2>1. SUFFICES ASSUME NEW ack \in v.acks
                 PROVE  /\ ack.t \in Indices(v) /\ v.tsx[ack.t].method = "INVITE"
                        /\ v.tsx[ack.t].client = "terminated"
                        /\ v.tsx[ack.t].server \in {"completed", "terminated"}
                        /\ v.tsx[ack.t].status < 300
    BY DEF Accepted
  <2>2. PICK t \in Indices(w) : /\ t = ack.t /\ w.tsx[t].method = "INVITE"
                                /\ w.tsx[t].client = "terminated"
                                /\ w.tsx[t].server \in {"completed", "terminated"}
                                /\ w.tsx[t].status < 300
    BY <1>1, <1>2 DEF Accepted
  <2>3. /\ v.tsx[t].method = "INVITE" /\ v.tsx[t].client = "terminated"
        /\ v.tsx[t].server \in {"completed", "terminated"} /\ v.tsx[t].status < 300
    BY <1>1, <2>2, SMTT(60) DEF Minor
  <2>4. QED
    BY <1>1, <2>2, <2>3
<1>5. Requests(v)
  <2>1. SUFFICES ASSUME NEW t \in Indices(v)
                 PROVE  /\ t # 1 /\ v.tsx[t].method \in {"INVITE", "UPDATE"} =>
                              v.inv[v.tsx[t].from].state = "CONFIRMED"
                        /\ v.tsx[t].server = "none" => v.tsx[t].body = 0 /\ ~v.tsx[t].answered
                        /\ /\ v.tsx[t].method = "INVITE"
                           /\ v.tsx[t].server \in {"proceeding", "completed"}
                           /\ v.tsx[t].status < 300
                           => v.inv[Peer(v.tsx[t].from)].invite_tsx = t
    BY DEF Requests
  <2>2. CASE t \notin Indices(w)
    BY <1>1, <2>2
  <2>3. CASE t \in Indices(w)
    <3>1. /\ Minor(w, v, t) /\ v.tsx[t].status \in Nat /\ t \in Nat /\ t # 0
          /\ v.tsx[t].method = w.tsx[t].method /\ v.tsx[t].from = w.tsx[t].from
          /\ w.tsx[t].from \in Ends
      BY <1>1, <2>3, Basics, SMTT(60) DEF Minor, Indices
    <3>2. /\ t # 1 /\ w.tsx[t].method \in {"INVITE", "UPDATE"} =>
                w.inv[w.tsx[t].from].state = "CONFIRMED"
          /\ w.tsx[t].server = "none" => w.tsx[t].body = 0 /\ ~w.tsx[t].answered
          /\ /\ w.tsx[t].method = "INVITE" /\ w.tsx[t].server \in {"proceeding", "completed"}
             /\ w.tsx[t].status < 300
             => w.inv[Peer(w.tsx[t].from)].invite_tsx = t
      BY <1>2, <2>3 DEF Requests
    <3>3. t # 1 /\ v.tsx[t].method \in {"INVITE", "UPDATE"} =>
             v.inv[v.tsx[t].from].state = "CONFIRMED"
      BY <1>1, <3>1, <3>2 DEF Idle
    <3>4. v.tsx[t].server = "none" => v.tsx[t].body = 0 /\ ~v.tsx[t].answered
      BY <3>1, <3>2 DEF Minor
    <3>5. ASSUME v.tsx[t].method = "INVITE", v.tsx[t].server \in {"proceeding", "completed"},
                 v.tsx[t].status < 300
          PROVE  v.inv[Peer(v.tsx[t].from)].invite_tsx = t
      <4>1. w.tsx[t].server = v.tsx[t].server /\ w.tsx[t].status = v.tsx[t].status
        <5>1. ~(v.tsx[t].status >= 300)
          BY <3>1, <3>5
        <5>2. QED
          BY <3>1, <3>5, <5>1 DEF Minor
      <4>2. w.inv[Peer(w.tsx[t].from)].invite_tsx = t
        BY <3>1, <3>2, <3>5, <4>1
      <4>3. Remembers(w, v, Peer(w.tsx[t].from)) /\ w.tsx[t].from # Peer(w.tsx[t].from)
        BY <1>1, <3>1 DEF Idle
      <4>4. QED
        BY <3>1, <3>5, <4>1, <4>2, <4>3 DEF Remembers
    <3>6. QED
      BY <3>3, <3>4, <3>5
  <2>4. QED
    BY <2>2, <2>3
<1>6. Connecting(v)
  <2>1. SUFFICES ASSUME NEW u \in Ends, v.inv[u].state = "CONNECTING"
                 PROVE  /\ u = "callee" /\ v.inv[u].invite_tsx = 1
                        /\ v.tsx[1].server = "completed" /\ v.tsx[1].status < 300
                        /\ \A t \in Indices(v) :
                              t # 1 /\ v.tsx[t].method = "INVITE" => v.tsx[t].status \notin 200..299
    BY DEF Connecting
  <2>2. w.inv[u].state = "CONNECTING" /\ Remembers(w, v, u)
    BY <1>1, <2>1 DEF Idle
  <2>3. /\ u = "callee" /\ w.inv[u].invite_tsx = 1
        /\ w.tsx[1].server = "completed" /\ w.tsx[1].status < 300
        /\ \A t \in Indices(w) :
              t # 1 /\ w.tsx[t].method = "INVITE" => w.tsx[t].status \notin 200..299
    BY <1>2, <2>2 DEF Connecting
  <2>4. v.tsx[1].server = "completed" /\ v.tsx[1].status = w.tsx[1].status
    BY <1>1, <2>2, <2>3 DEF Minor
  <2>5. v.inv[u].invite_tsx = 1
    BY <1>1, <2>2, <2>3, <2>4 DEF Remembers
  <2>6. ASSUME NEW t \in Indices(v), t # 1, v.tsx[t].method = "INVITE"
        PROVE  v.tsx[t].status \notin 200..299
    <3>1. t \in Indices(w) /\ Minor(w, v, t)
      BY <1>1, <2>6
    <3>2. w.tsx[t].status \notin 200..299 /\ w.tsx[t].method = "INVITE"
      BY <2>3, <2>6, <3>1 DEF Minor
    <3>3. v.tsx[t].status \in {w.tsx[t].status, 0} \/ v.tsx[t].status >= 300
      BY <3>1, <3>2 DEF Minor
    <3>4. QED
      BY <3>2, <3>3
  <2>7. QED
    BY <2>3, <2>4, <2>5, <2>6
<1>7. QED
  BY <1>3, <1>4, <1>5, <1>6

\* An end that is confirmed.
LEMMA LittleSteady ==
  ASSUME NEW w, Runs(w), Dealing(w), NEW v, Little(w, v), NEW u \in Ends,
         v.inv[u].state = "CONFIRMED"
  PROVE  Steady(v, u)
<1>1. /\ w.inv[u].state = "CONFIRMED" /\ Unoffered(w.neg[u], v.neg[u]) /\ Remembers(w, v, u)
      /\ Peer(u) \in Ends /\ Peer(u) # u /\ Peer(Peer(u)) = u
  BY Basics DEF Little, Idle
<1>2. Steady(w, u)
  BY <1>1 DEF Dealing
<1>3. ASSUME NEW t, Open(v, t, u)
      PROVE  AsksFor(v, t, u)
  <2>1. Open(w, t, u) /\ w.tsx[t].method = v.tsx[t].method /\ w.tsx[t].from = u
        /\ v.tsx[t].sdp = w.tsx[t].sdp /\ v.tsx[t].done = w.tsx[t].done
        /\ v.tsx[t].client = "calling" /\ t \in Indices(w) /\ t # 0
    BY <1>3, LittleOpen DEF Open, Indices
  <2>2. AsksFor(w, t, u)
    BY <1>2, <2>1 DEF Steady
  <2>3. w.tsx[t].method = "INVITE" => v.inv[u].invite_tsx = t
    BY <1>1, <2>1, <2>2 DEF AsksFor, Remembers
  <2>4. \A s \in Indices(v) : Open(v, s, u) => s = t
    <3>1. SUFFICES ASSUME NEW s, Open(v, s, u) PROVE s = t
      OBVIOUS
    <3>2. Open(w, s, u)
      BY <3>1, LittleOpen
    <3>3. QED
      BY <2>2, <3>2 DEF AsksFor, Open
  <2>5. QED
    BY <1>1, <2>1, <2>2, <2>3, <2>4 DEF AsksFor, Unoffered
<1>4. ASSUME NEW t, Serving(v, t, u)
      PROVE  Answers(v, t, u)
  <2>1. /\ Serving(w, t, u) /\ v.tsx[t].server = w.tsx[t].server /\ v.tsx[t].sdp = w.tsx[t].sdp
        /\ v.tsx[t].status = w.tsx[t].status /\ v.tsx[t].body = w.tsx[t].body
        /\ v.tsx[t].answered = w.tsx[t].answered /\ t \in Indices(w)
    BY <1>4, LittleServing DEF Serving
  <2>2. Answers(w, t, u)
    BY <1>2, <2>1 DEF Steady
  <2>3. \A s \in Indices(v) : ~Open(v, s, u)
    <3>1. SUFFICES ASSUME NEW s, Open(v, s, u) PROVE FALSE
      OBVIOUS
    <3>2. Open(w, s, u)
      BY <3>1, LittleOpen
    <3>3. QED
      BY <2>2, <3>2 DEF Answers, Open
  <2>4. \A s \in Indices(v) :
          Open(v, s, Peer(u)) /\ v.tsx[s].method = "INVITE" /\ v.tsx[s].status \in 200..299
          => s = t
    <3>1. SUFFICES ASSUME NEW s, Open(v, s, Peer(u)), v.tsx[s].method = "INVITE",
                          v.tsx[s].status \in 200..299
                   PROVE  s = t
      OBVIOUS
    <3>2. /\ Open(w, s, Peer(u)) /\ w.tsx[s].method = "INVITE"
          /\ v.tsx[s].status = w.tsx[s].status \/ v.tsx[s].status >= 300
      BY <1>1, <3>1, LittleOpen
    <3>3. w.tsx[s].status \in 200..299
      BY <3>1, <3>2
    <3>4. QED
      BY <2>2, <3>2, <3>3 DEF Answers, Open
  <2>5. QED
    BY <1>1, <2>1, <2>2, <2>3, <2>4 DEF Answers, Unoffered
<1>5. v.inv[u].invite_tsx # 1
  BY <1>1, <1>2 DEF Steady, Remembers, Indices
<1>6. v.neg[u].state \in {"DONE", "LOCAL_OFFER"}
  BY <1>1, <1>2 DEF Steady, Unoffered
<1>7. QED
  BY <1>3, <1>4, <1>5, <1>6 DEF Steady

\* The ends before the call is confirmed.
LEMMA LittleRings ==
  ASSUME NEW w, Runs(w), Dealing(w), NEW v, Little(w, v)
  PROVE  /\ v.inv["callee"].state \in {"INCOMING", "EARLY", "CONNECTING"} => CalleeRings(v)
         /\ v.inv["caller"].state \in {"CALLING", "EARLY"} => CallerRings(v)
<1>1. /\ Idle(w, v, "caller") /\ Idle(w, v, "callee") /\ 1 \in Indices(w)
      /\ Minor(w, v, 1) /\ w.tsx[1].method = "INVITE" /\ "callee" \in Ends
  BY Basics DEF Little
<1>2. ASSUME v.inv["callee"].state \in {"INCOMING", "EARLY", "CONNECTING"}
      PROVE  CalleeRings(v)
  <2>1. v.inv["callee"].state = w.inv["callee"].state
    BY <1>1, <1>2 DEF Idle
  <2>2. CalleeRings(w)
    BY <1>2, <2>1 DEF Dealing
  <2>3. w.tsx[1].server \in {"proceeding", "completed"}
    <3>1. CASE w.inv["callee"].state = "CONNECTING"
      BY <1>1, <3>1 DEF Dealing, Connecting
    <3>2. CASE w.inv["callee"].state # "CONNECTING"
      BY <1>2, <2>1, <3>2, Bearings
    <3>3. QED
      BY <3>1, <3>2
  <2>4. /\ v.tsx[1].sdp = w.tsx[1].sdp /\ v.tsx[1].body = w.tsx[1].body
        /\ v.tsx[1].answered = w.tsx[1].answered
    BY <1>1, <2>3 DEF Minor
  <2>5. QED
    BY <1>1, <2>1, <2>2, <2>4 DEF CalleeRings, Idle, Unoffered
<1>3. ASSUME v.inv["caller"].state \in {"CALLING", "EARLY"}
      PROVE  CallerRings(v)
  <2>1. w.inv["caller"].state \in {"CALLING", "EARLY"} /\ w.tsx[1].client = "calling"
    BY <1>1, <1>3, Bearings DEF Idle
  <2>2. CallerRings(w)
    BY <2>1 DEF Dealing
  <2>3. /\ v.tsx[1].sdp = w.tsx[1].sdp /\ v.tsx[1].body = w.tsx[1].body
        /\ v.tsx[1].done = w.tsx[1].done /\ v.tsx[1].answered = w.tsx[1].answered
    BY <1>1, <2>1 DEF Minor
  <2>4. v.inv["callee"].state = w.inv["callee"].state
    BY <1>1 DEF Idle
  <2>5. QED
    BY <1>1, <2>2, <2>3, <2>4 DEF CallerRings, Idle, Unoffered
<1>4. QED
  BY <1>2, <1>3

\* What the ends agreed on.
LEMMA LittleAgreed ==
  ASSUME NEW w, Runs(w), Dealing(w), NEW v, Little(w, v), Joined(v)
  PROVE  Agreed(v)
<1>1. /\ Joined(w) /\ \A u \in Ends : Idle(w, v, u)
      /\ \A u \in Ends : Peer(u) \in Ends /\ Peer(Peer(u)) = u /\ v.acks \subseteq w.acks
      /\ "caller" \in Ends /\ "callee" \in Ends
  BY Basics DEF Little, Idle, Joined
<1>2. Agreed(w)
  BY <1>1 DEF Dealing
<1>3. Matched(v) \/ \E u \in Ends : Stuck(v, u) \/ Due(v, u)
  <2>1. CASE Matched(w)
    BY <1>1, <2>1 DEF Matched, Idle, Unoffered
  <2>2. ASSUME NEW u \in Ends, Stuck(w, u)
        PROVE  Stuck(v, u)
    BY <1>1, <2>2, LittleDue
  <2>3. ASSUME NEW u \in Ends, NEW t, t \in Indices(w), Carried(w, t, u)
        PROVE  Due(v, u)
    <3>1. Carried(v, t, u)
      BY <1>1, <2>3, LittleDue
    <3>2. QED
      BY <3>1 DEF Due, Carried, Open
  <2>4. ASSUME NEW u \in Ends, NEW t, t \in Indices(w), Acked(w, t, u)
        PROVE  Stuck(v, u) \/ Due(v, u)
    <3>1. Acked(v, t, u) \/ Stuck(v, u)
      BY <1>1, <2>4, LittleDue
    <3>2. QED
      BY <3>1 DEF Due, Acked, Asked, Serving
  <2>5. QED
    BY <1>2, <2>1, <2>2, <2>3, <2>4 DEF Agreed, Due
<1>4. \E u \in Ends : ~Due(v, u)
  <2>1. PICK u \in Ends : ~Due(w, u)
    BY <1>2 DEF Agreed
  <2>2. ASSUME NEW t, Carried(v, t, u)
        PROVE  FALSE
    <3>1. Carried(w, t, u)
      BY <1>1, <2>2, LittleDue
    <3>2. QED
      BY <2>1, <3>1 DEF Due, Carried, Open
  <2>3. ASSUME NEW t, Acked(v, t, u)
        PROVE  FALSE
    <3>1. Acked(w, t, u)
      BY <1>1, <2>3, LittleDue
    <3>2. QED
      BY <2>1, <3>1 DEF Due, Acked, Asked, Serving
  <2>4. QED
    BY <2>2, <2>3 DEF Due
<1>5. ASSUME NEW u \in Ends, NEW t \in Indices(v)
      PROVE  Rests(v, t, u)
  <2>1. /\ Idle(w, v, u) /\ Idle(w, v, Peer(u)) /\ Peer(u) \in Ends /\ Peer(Peer(u)) = u
        /\ t \in Indices(w) => Rests(w, t, u)
    BY <1>1, <1>2 DEF Agreed
  <2>2. ASSUME Carried(v, t, u)
        PROVE  /\ v.tsx[t].status < 300
               /\ v.neg[Peer(u)].active_remote.sdp = v.tsx[t].sdp
               /\ v.neg[Peer(u)].active_local.sdp = v.tsx[t].body
    <3>1. Carried(w, t, u)
      BY <1>1, <2>2, LittleDue
    <3>2. Open(v, t, u) /\ v.tsx[t].body # 0
      BY <2>2 DEF Carried
    <3>3. /\ v.tsx[t].sdp = w.tsx[t].sdp /\ v.tsx[t].body = w.tsx[t].body
          /\ v.tsx[t].status = w.tsx[t].status
      BY <3>2, LittleOpen
    <3>4. t \in Indices(w)
      BY <3>1 DEF Carried, Open
    <3>5. QED
      BY <2>1, <3>1, <3>3, <3>4 DEF Rests, Idle, Unoffered
  <2>3. ASSUME Acked(v, t, u)
        PROVE  /\ v.neg[Peer(u)].active_remote.sdp = v.neg[u].local.sdp
               /\ v.neg[Peer(u)].active_local.sdp = v.inv[Peer(u)].last_ack
    <3>1. Acked(w, t, u)
      BY <1>1, <2>3, LittleDue
    <3>2. t \in Indices(w) /\ w.neg[u].state = "LOCAL_OFFER"
      BY <3>1 DEF Acked, Asked, Serving
    <3>3. QED
      BY <2>1, <3>1, <3>2 DEF Rests, Idle, Unoffered
  <2>4. ASSUME Asked(v, t, u)
        PROVE  /\ v.inv[Peer(u)].last_ack_cseq = t
               /\ \A ack \in v.acks : ack.t = t => ack.sdp = v.inv[Peer(u)].last_ack
    <3>1. Asked(w, t, u)
      BY <1>1, <2>4, LittleDue
    <3>2. t \in Indices(w)
      BY <3>1 DEF Asked, Serving
    <3>3. QED
      BY <1>1, <2>1, <3>1, <3>2 DEF Rests, Idle
  <2>5. ASSUME Open(v, t, Peer(u)), v.tsx[t].sdp = 0, v.tsx[t].body # 0
        PROVE  \/ Stuck(v, u)
               \/ Serving(v, t, u) /\ ~v.tsx[t].answered /\ v.neg[u].state = "LOCAL_OFFER"
                  /\ v.neg[u].local.sdp = v.tsx[t].body
    <3>1. /\ Open(w, t, Peer(u)) /\ v.tsx[t].sdp = w.tsx[t].sdp
          /\ v.tsx[t].body = w.tsx[t].body /\ v.tsx[t].answered = w.tsx[t].answered
      BY <2>1, <2>5, LittleOpen
    <3>2. t \in Indices(w)
      BY <3>1 DEF Open
    <3>3. CASE Stuck(w, u)
      BY <1>1, <3>3, LittleDue
    <3>4. CASE Serving(w, t, u) /\ ~w.tsx[t].answered /\ w.neg[u].state = "LOCAL_OFFER"
               /\ w.neg[u].local.sdp = w.tsx[t].body
      <4>1. Serving(v, t, u) \/ Stuck(v, u)
        BY <1>1, <3>4, LittleDue
      <4>2. v.neg[u].state = "LOCAL_OFFER" /\ v.neg[u].local.sdp = w.neg[u].local.sdp
        BY <2>1, <3>4 DEF Idle, Unoffered
      <4>3. QED
        BY <3>1, <3>4, <4>1, <4>2
    <3>5. QED
      BY <2>1, <2>5, <3>1, <3>2, <3>3, <3>4 DEF Rests
  <2>6. QED
    BY <2>2, <2>3, <2>4, <2>5 DEF Rests
<1>6. QED
  BY <1>3, <1>4, <1>5 DEF Agreed

\* A step that concerns no offer keeps the invariant.
LEMMA LittleDealing ==
  ASSUME NEW w, Runs(w), Dealing(w), NEW v, Little(w, v)
  PROVE  Dealing(v)
<1>1. Unheard(v)
  <2>1. 1 \in Indices(w) /\ "callee" \in Ends
    BY Basics
  <2>2. Idle(w, v, "callee") /\ Minor(w, v, 1)
    BY <2>1 DEF Little
  <2>3. Unheard(w)
    BY DEF Dealing
  <2>4. v.inv["callee"].state = w.inv["callee"].state
    BY <2>2 DEF Idle
  <2>5. \/ v.tsx[1].server = w.tsx[1].server
        \/ w.tsx[1].server \notin {"none", "trying"}
        \/ v.tsx[1].server = "trying"
    BY <2>2 DEF Minor
  <2>6. QED
    BY <2>3, <2>4, <2>5 DEF Unheard
<1>2. QED
  BY <1>1, LittleNotes, LittleSteady, LittleRings, LittleAgreed DEF Dealing

-----------------------------------------------------------------------------
(* Steps of one end *)

\* The side of a transaction that its client has, and the one that its server has.
SameClient(x, y) == y.client = x.client /\ y.done = x.done

SameServer(x, y) ==
    y.server = x.server /\ y.status = x.status /\ y.body = x.body /\ y.answered = x.answered

Fresh(x, u) ==
    /\ x.from = u /\ x.client = "calling" /\ ~x.done
    /\ x.server = "none" /\ x.status = 0 /\ x.body = 0 /\ ~x.answered

\* The end u acts on its side of transaction t, a CANCEL goes on, and u sends a request.
Moves(w, v, u, t) ==
    /\ Sound(v) /\ Len(v.tsx) >= Len(w.tsx)
    /\ SameSession(w.inv[Peer(u)], v.inv[Peer(u)]) /\ SameDeal(w.neg[Peer(u)], v.neg[Peer(u)])
    /\ \A s \in Indices(w) :
          /\ v.tsx[s].method = w.tsx[s].method /\ v.tsx[s].from = w.tsx[s].from
          /\ v.tsx[s].sdp = w.tsx[s].sdp
          /\ v.tsx[s].client = "calling" => w.tsx[s].client = "calling"
          /\ v.tsx[s].server = "none" => v.tsx[s].body = 0 /\ ~v.tsx[s].answered
          /\ s # t /\ w.tsx[s].method # "CANCEL" => Twin(w.tsx[s], v.tsx[s])
          /\ s = t /\ w.tsx[s].method # "CANCEL" =>
                IF w.tsx[s].from = u THEN SameServer(w.tsx[s], v.tsx[s])
                                     ELSE SameClient(w.tsx[s], v.tsx[s])
    /\ \A s \in Indices(v) : s \notin Indices(w) => Fresh(v.tsx[s], u)

\* Which requests are open, and which INVITE the other end serves.
LEMMA MovesOpen ==
  ASSUME NEW w, Runs(w), NEW u \in Ends, NEW t, NEW v, Moves(w, v, u, t), NEW s
  PROVE  /\ Open(v, s, Peer(u)) <=> Open(w, s, Peer(u))
         /\ Open(v, s, u) /\ s \in Indices(w) => Open(w, s, u)
         /\ Open(w, s, u) /\ s # t => Open(v, s, u)
         /\ Serving(v, s, Peer(u)) <=> Serving(w, s, Peer(u))
         /\ Serving(w, s, Peer(u)) => SameServer(w.tsx[s], v.tsx[s])
         /\ Open(w, s, u) => SameServer(w.tsx[s], v.tsx[s])
         /\ Open(w, s, Peer(u)) => v.tsx[s].done = w.tsx[s].done
         /\ s \in Indices(w) => s \in Indices(v)
<1>1. /\ Len(w.tsx) \in Nat /\ Len(v.tsx) \in Nat /\ Len(v.tsx) >= Len(w.tsx)
      /\ Peer(u) # u /\ Peer(Peer(u)) = u
      /\ SameSession(w.inv[Peer(u)], v.inv[Peer(u)])
  BY Basics, SoundParts DEF Moves
<1>2. s \in Indices(w) => s \in Indices(v)
  BY <1>1 DEF Indices
<1>3. s \in Indices(w) =>
          /\ v.tsx[s].method = w.tsx[s].method /\ v.tsx[s].from = w.tsx[s].from
          /\ v.tsx[s].sdp = w.tsx[s].sdp
          /\ v.tsx[s].client = "calling" => w.tsx[s].client = "calling"
          /\ s # t /\ w.tsx[s].method # "CANCEL" => Twin(w.tsx[s], v.tsx[s])
          /\ s = t /\ w.tsx[s].method # "CANCEL" =>
                IF w.tsx[s].from = u THEN SameServer(w.tsx[s], v.tsx[s])
                                     ELSE SameClient(w.tsx[s], v.tsx[s])
  BY DEF Moves
<1>4. s \in Indices(v) /\ s \notin Indices(w) => Fresh(v.tsx[s], u)
  BY DEF Moves
<1>5. s \in Indices(w) /\ w.tsx[s].method # "CANCEL" /\ w.tsx[s].from = u =>
         SameServer(w.tsx[s], v.tsx[s])
  BY <1>3 DEF Twin, SameServer
<1>6. s \in Indices(w) /\ w.tsx[s].method # "CANCEL" /\ w.tsx[s].from = Peer(u) =>
         SameClient(w.tsx[s], v.tsx[s])
  BY <1>1, <1>3 DEF Twin, SameClient
<1>7. Open(v, s, Peer(u)) <=> Open(w, s, Peer(u))
  BY <1>1, <1>2, <1>3, <1>4, <1>6 DEF Open, Fresh, SameClient
<1>8. /\ Open(v, s, u) /\ s \in Indices(w) => Open(w, s, u)
      /\ Open(w, s, u) /\ s # t => Open(v, s, u)
  BY <1>2, <1>3 DEF Open, Twin
<1>9. Serving(v, s, Peer(u)) <=> Serving(w, s, Peer(u))
  BY <1>1, <1>2, <1>3, <1>4, <1>5 DEF Serving, Fresh, SameServer, SameSession
<1>10. Serving(w, s, Peer(u)) => SameServer(w.tsx[s], v.tsx[s])
  BY <1>1, <1>5 DEF Serving
<1>11. Open(w, s, u) => SameServer(w.tsx[s], v.tsx[s])
  BY <1>5 DEF Open
<1>12. Open(w, s, Peer(u)) => v.tsx[s].done = w.tsx[s].done
  BY <1>6 DEF Open, SameClient
<1>13. QED
  BY <1>2, <1>7, <1>8, <1>9, <1>10, <1>11, <1>12

\* The other end goes on with what it had.
LEMMA MovesPeer ==
  ASSUME NEW w, Runs(w), NEW u \in Ends, NEW t, NEW v, Moves(w, v, u, t)
  PROVE  LET P == Peer(u)
         IN  /\ Stuck(v, P) <=> Stuck(w, P)
             /\ Steady(w, P) => Steady(v, P)
             /\ \A s : s # t \/ w.tsx[t].from = u => Carried(v, s, P) = Carried(w, s, P)
             /\ \A s : s # t => Asked(v, s, P) = Asked(w, s, P)
             /\ \A s : Asked(v, s, P) =>
                          Serving(w, s, P) /\ ~w.tsx[s].answered /\ w.neg[P].state = "LOCAL_OFFER"
<1> DEFINE P == Peer(u)
<1>1. /\ P \in Ends /\ P # u /\ Peer(P) = u
      /\ v.inv[P].state = w.inv[P].state /\ v.inv[P].invite_tsx = w.inv[P].invite_tsx
      /\ v.neg[P].state = w.neg[P].state /\ v.neg[P].local.sdp = w.neg[P].local.sdp
  BY Basics DEF Moves, SameSession, SameDeal
<1>2. \A s : /\ Open(v, s, P) <=> Open(w, s, P)
             /\ Serving(v, s, P) <=> Serving(w, s, P)
             /\ Serving(w, s, P) => SameServer(w.tsx[s], v.tsx[s])
             /\ Open(w, s, P) => v.tsx[s].done = w.tsx[s].done
  BY MovesOpen
<1>3. \A s \in Indices(w) : /\ s \in Indices(v) /\ v.tsx[s].method = w.tsx[s].method
                            /\ v.tsx[s].sdp = w.tsx[s].sdp
                            /\ s # t /\ w.tsx[s].method # "CANCEL" => Twin(w.tsx[s], v.tsx[s])
                            /\ s = t /\ w.tsx[s].method # "CANCEL" /\ w.tsx[s].from = u
                                  => SameServer(w.tsx[s], v.tsx[s])
  <2>1. \A s \in Indices(w) : s \in Indices(v)
    BY MovesOpen
  <2>2. QED
    BY <2>1 DEF Moves
<1>4. Stuck(v, P) <=> Stuck(w, P)
  BY <1>1, <1>2 DEF Stuck, Open, Serving
<1>5. ASSUME Steady(w, P), NEW s, Open(v, s, P)
      PROVE  AsksFor(v, s, P)
  <2>1. Open(w, s, P) /\ s \in Indices(w)
    BY <1>2, <1>5 DEF Open
  <2>2. AsksFor(w, s, P)
    BY <1>5, <2>1 DEF Steady
  <2>3. QED
    BY <1>1, <1>2, <1>3, <2>1, <2>2 DEF AsksFor, Open
<1>6. ASSUME Steady(w, P), NEW s, Serving(v, s, P)
      PROVE  Answers(v, s, P)
  <2>1. Serving(w, s, P) /\ s \in Indices(w) /\ SameServer(w.tsx[s], v.tsx[s])
    BY <1>2, <1>6 DEF Serving
  <2>2. Answers(w, s, P)
    BY <1>6, <2>1 DEF Steady
  <2>3. \A i \in Indices(v) : ~Open(v, i, P)
    BY <1>2, <2>2 DEF Answers, Open
  <2>4. ASSUME NEW i \in Indices(v), Open(v, i, u), v.tsx[i].method = "INVITE",
               v.tsx[i].status \in 200..299
        PROVE  i = s
    <3>1. i \in Indices(w)
      <4>1. i \notin Indices(w) => v.tsx[i].status = 0
        BY DEF Moves, Fresh
      <4>2. v.tsx[i].status # 0
        BY <2>4
      <4>3. QED
        BY <4>1, <4>2
    <3>2. Open(w, i, u) /\ SameServer(w.tsx[i], v.tsx[i])
      <4>1. Open(w, i, u)
        BY <2>4, <3>1, MovesOpen
      <4>2. QED
        BY <4>1, MovesOpen
    <3>3. QED
      BY <1>1, <1>3, <2>2, <2>4, <3>1, <3>2 DEF Answers, SameServer
  <2>5. QED
    BY <1>1, <1>3, <2>1, <2>2, <2>3, <2>4 DEF Answers, SameServer
<1>7. Steady(w, P) => Steady(v, P)
  BY <1>1, <1>5, <1>6 DEF Steady
<1>8. ASSUME NEW s, s # t \/ w.tsx[t].from = u
      PROVE  Carried(v, s, P) = Carried(w, s, P)
  <2>1. s # t => (Open(w, s, P) => v.tsx[s].body = w.tsx[s].body)
    BY <1>3 DEF Open, Twin
  <2>2. w.tsx[t].from = u => (Open(w, s, P) => s # t)
    BY <1>1 DEF Open
  <2>3. Open(w, s, P) => v.tsx[s].body = w.tsx[s].body
    BY <1>8, <2>1, <2>2
  <2>4. Open(w, s, P) => v.tsx[s].sdp = w.tsx[s].sdp
    BY <1>3 DEF Open
  <2>5. Carried(v, s, P) <=> Carried(w, s, P)
    BY <1>2, <2>3, <2>4 DEF Carried
  <2>6. Carried(v, s, P) \in BOOLEAN /\ Carried(w, s, P) \in BOOLEAN
    BY DEF Carried, Open
  <2>7. QED
    BY <2>5, <2>6
<1>9. ASSUME NEW s, s # t
      PROVE  Asked(v, s, P) = Asked(w, s, P)
  <2>1. Serving(w, s, P) => /\ v.tsx[s].client = w.tsx[s].client
                            /\ v.tsx[s].answered = w.tsx[s].answered
    BY <1>3, <1>9 DEF Serving, Twin
  <2>2. Asked(v, s, P) <=> Asked(w, s, P)
    BY <1>1, <1>2, <2>1 DEF Asked
  <2>3. Asked(v, s, P) \in BOOLEAN /\ Asked(w, s, P) \in BOOLEAN
    BY DEF Asked, Serving
  <2>4. QED
    BY <2>2, <2>3
<1>10. ASSUME NEW s, Asked(v, s, P)
       PROVE  Serving(w, s, P) /\ ~w.tsx[s].answered /\ w.neg[P].state = "LOCAL_OFFER"
  BY <1>1, <1>2, <1>10 DEF Asked, SameServer
<1>11. QED
  BY <1>4, <1>7, <1>8, <1>9, <1>10

\* What a step of u has to see to.
LEMMA MovesDealing ==
  ASSUME NEW w, Runs(w), Dealing(w), NEW u \in Ends, NEW t, NEW v, Moves(w, v, u, t),
         ~v.neg[u].has_remote_answer,
         v.inv[u].state \in {"NULL", "DISCONNECTED"} => v.neg[u].state = "NULL",
         v.inv[u].last_ack_cseq # 0 =>
            /\ v.inv[u].last_ack_cseq \in Indices(v)
            /\ v.tsx[v.inv[u].last_ack_cseq].client # "calling",
         \A ack \in v.acks : ack.t = t \/ ack \in w.acks,
         \A ack \in v.acks : ack.t = t =>
            /\ t \in Indices(w) /\ w.tsx[t].method = "INVITE" /\ v.tsx[t].client = "terminated"
            /\ v.tsx[t].server \in {"completed", "terminated"} /\ v.tsx[t].status < 300,
         \A s \in Indices(v) :
            s # 1 /\ v.tsx[s].from = u /\ v.tsx[s].method \in {"INVITE", "UPDATE"}
            => v.inv[u].state = "CONFIRMED",
         \A s \in Indices(w) :
            /\ w.tsx[s].from = Peer(u) /\ w.tsx[s].method = "INVITE"
            /\ v.tsx[s].server \in {"proceeding", "completed"} /\ v.tsx[s].status < 300
            => v.inv[u].invite_tsx = s,
         v.inv[u].state = "CONNECTING" =>
            /\ u = "callee" /\ v.inv[u].invite_tsx = 1
            /\ v.tsx[1].server = "completed" /\ v.tsx[1].status < 300
            /\ \A s \in Indices(w) :
                  s # 1 /\ w.tsx[s].method = "INVITE" => v.tsx[s].status \notin 200..299,
         v.inv[u].state = "CONFIRMED" => Steady(v, u),
         u = "callee" /\ v.inv[u].state \in {"INCOMING", "EARLY", "CONNECTING"} => CalleeRings(v),
         v.inv["caller"].state \in {"CALLING", "EARLY"} => CallerRings(v),
         v.inv[u].state = "NULL" => Unheard(v),
         Joined(v) => Agreed(v)
  PROVE  Dealing(v)
<1> DEFINE P == Peer(u)
<1>1. /\ P \in Ends /\ P # u /\ Peer(P) = u /\ \A x \in Ends : x = u \/ x = P
      /\ SameSession(w.inv[P], v.inv[P]) /\ SameDeal(w.neg[P], v.neg[P])
      /\ \A s \in Indices(v) : s \notin Indices(w) => Fresh(v.tsx[s], u)
      /\ 1 \in Indices(w) /\ w.tsx[1].from = "caller" /\ w.tsx[1].method = "INVITE"
  BY Basics DEF Moves, Ends
<1>2. \A s \in Indices(w) : s \in Indices(v)
  BY MovesOpen
<1>3. \A s \in Indices(w) :
          /\ v.tsx[s].method = w.tsx[s].method /\ v.tsx[s].from = w.tsx[s].from
          /\ v.tsx[s].sdp = w.tsx[s].sdp
          /\ v.tsx[s].client = "calling" => w.tsx[s].client = "calling"
          /\ v.tsx[s].server = "none" => v.tsx[s].body = 0 /\ ~v.tsx[s].answered
          /\ s # t /\ w.tsx[s].method # "CANCEL" => Twin(w.tsx[s], v.tsx[s])
          /\ w.tsx[s].method # "CANCEL" /\ w.tsx[s].from = u => SameServer(w.tsx[s], v.tsx[s])
  BY DEF Moves, Twin, SameServer
<1>4. Notes(w) /\ Accepted(w) /\ Requests(w) /\ Connecting(w)
  BY DEF Dealing
<1>5. Notes(v)
  <2>1. ASSUME v.inv[P].last_ack_cseq # 0
        PROVE  /\ v.inv[P].last_ack_cseq \in Indices(v)
               /\ v.tsx[v.inv[P].last_ack_cseq].client # "calling"
    <3>1. PICK s \in Indices(w) : s = v.inv[P].last_ack_cseq /\ w.tsx[s].client # "calling"
      BY <1>1, <1>4, <2>1 DEF Notes, SameSession
    <3>2. QED
      BY <1>2, <1>3, <3>1
  <2>2. /\ ~v.neg[P].has_remote_answer
        /\ v.inv[P].state \in {"NULL", "DISCONNECTED"} => v.neg[P].state = "NULL"
    BY <1>1, <1>4, ZenonT(60) DEF Notes, SameSession, SameDeal
  <2>3. QED
    BY <1>1, <2>1, <2>2 DEF Notes
<1>6. Accepted(v)
  <2>1. SUFFICES ASSUME NEW ack \in v.acks, ack.t # t
                 PROVE  /\ ack.t \in Indices(v) /\ v.tsx[ack.t].method = "INVITE"
                        /\ v.tsx[ack.t].client = "terminated"
                        /\ v.tsx[ack.t].server \in {"completed", "terminated"}
                        /\ v.tsx[ack.t].status < 300
    BY <1>2, <1>3 DEF Accepted
  <2>2. PICK s \in Indices(w) : /\ s = ack.t /\ w.tsx[s].method = "INVITE"
                                /\ w.tsx[s].client = "terminated"
                                /\ w.tsx[s].server \in {"completed", "terminated"}
                                /\ w.tsx[s].status < 300
    BY <1>4, <2>1 DEF Accepted
  <2>3. Twin(w.tsx[s], v.tsx[s]) /\ s \in Indices(v)
    BY <1>2, <1>3, <2>1, <2>2
  <2>4. QED
    BY <2>2, <2>3 DEF Twin
<1>7. Requests(v)
  <2>1. SUFFICES ASSUME NEW s \in Indices(v)
                 PROVE  /\ s # 1 /\ v.tsx[s].method \in {"INVITE", "UPDATE"} =>
                              v.inv[v.tsx[s].from].state = "CONFIRMED"
                        /\ v.tsx[s].server = "none" => v.tsx[s].body = 0 /\ ~v.tsx[s].answered
                        /\ /\ v.tsx[s].method = "INVITE"
                           /\ v.tsx[s].server \in {"proceeding", "completed"}
                           /\ v.tsx[s].status < 300
                           => v.inv[Peer(v.tsx[s].from)].invite_tsx = s
    BY DEF Requests
  <2>2. CASE s \notin Indices(w)
    BY <1>1, <2>2 DEF Fresh
  <2>3. CASE s \in Indices(w)
    <3>1. w.tsx[s].from \in Ends
      BY <2>3, Basics
    <3>2. /\ s # 1 /\ w.tsx[s].method \in {"INVITE", "UPDATE"} =>
                w.inv[w.tsx[s].from].state = "CONFIRMED"
          /\ /\ w.tsx[s].method = "INVITE" /\ w.tsx[s].server \in {"proceeding", "completed"}
             /\ w.tsx[s].status < 300
             => w.inv[Peer(w.tsx[s].from)].invite_tsx = s
      BY <1>4, <2>3 DEF Requests
    <3>3. CASE w.tsx[s].from = u
      <4>1. v.tsx[s].method = "INVITE" => SameServer(w.tsx[s], v.tsx[s])
        BY <1>3, <2>3, <3>3
      <4>2. QED
        BY <1>1, <1>3, <2>3, <3>3, <3>2, <4>1 DEF SameServer, SameSession
    <3>4. CASE w.tsx[s].from = P
      BY <1>1, <1>3, <2>3, <3>4, <3>2 DEF SameSession
    <3>5. QED
      BY <1>1, <3>1, <3>3, <3>4
  <2>4. QED
    BY <2>2, <2>3
<1>8. Connecting(v)
  <2>1. ASSUME v.inv[P].state = "CONNECTING"
        PROVE  /\ P = "callee" /\ v.inv[P].invite_tsx = 1
               /\ v.tsx[1].server = "completed" /\ v.tsx[1].status < 300
               /\ \A s \in Indices(w) :
                     s # 1 /\ w.tsx[s].method = "INVITE" => v.tsx[s].status \notin 200..299
    <3>1. /\ P = "callee" /\ w.inv[P].invite_tsx = 1
          /\ w.tsx[1].server = "completed" /\ w.tsx[1].status < 300
          /\ w.inv[P].state = "CONNECTING"
          /\ \A s \in Indices(w) :
                s # 1 /\ w.tsx[s].method = "INVITE" => w.tsx[s].status \notin 200..299
      BY <1>1, <1>4, <2>1, ZenonT(60) DEF Connecting, SameSession
    <3>2. u = "caller"
      BY <1>1, <3>1, Basics
    <3>3. ASSUME NEW s \in Indices(w), s # 1, w.tsx[s].method = "INVITE"
          PROVE  v.tsx[s].status \notin 200..299
      <4>1. w.inv[w.tsx[s].from].state = "CONFIRMED" /\ w.tsx[s].from \in Ends
        BY <1>4, <3>3, Basics DEF Requests
      <4>2. w.tsx[s].from = u
        BY <1>1, <3>1, <4>1
      <4>3. QED
        BY <1>3, <3>1, <3>3, <4>2 DEF SameServer
    <3>4. QED
      BY <1>1, <1>3, <3>1, <3>2, <3>3 DEF SameServer, SameSession
  <2>2. \A s \in Indices(v) : s \notin Indices(w) => v.tsx[s].status \notin 200..299
    <3>1. 0 \notin 200..299
      OBVIOUS
    <3>2. QED
      BY <1>1, <3>1 DEF Fresh
  <2>3. \A x \in Ends : v.inv[x].state = "CONNECTING" =>
           /\ x = "callee" /\ v.inv[x].invite_tsx = 1
           /\ v.tsx[1].server = "completed" /\ v.tsx[1].status < 300
           /\ \A s \in Indices(w) :
                 s # 1 /\ w.tsx[s].method = "INVITE" => v.tsx[s].status \notin 200..299
    BY <1>1, <2>1
  <2>4. QED
    BY <1>3, <2>2, <2>3 DEF Connecting
<1>9. \A x \in Ends : v.inv[x].state = "CONFIRMED" => Steady(v, x)
  <2>1. v.inv[P].state = "CONFIRMED" => Steady(v, P)
    <3>1. v.inv[P].state = "CONFIRMED" => Steady(w, P)
      BY <1>1, ZenonT(60) DEF Dealing, SameSession
    <3>2. QED
      BY <3>1, MovesPeer
  <2>2. QED
    BY <1>1, <2>1
<1>10. v.inv["callee"].state \in {"INCOMING", "EARLY", "CONNECTING"} => CalleeRings(v)
  <2>1. CASE u = "callee"
    BY <2>1
  <2>2. CASE u # "callee"
    <3>1. P = "callee" /\ u = "caller"
      BY <2>2, Basics DEF Ends
    <3>2. SameServer(w.tsx[1], v.tsx[1]) /\ v.tsx[1].sdp = w.tsx[1].sdp
      BY <1>1, <1>3, <3>1
    <3>3. QED
      BY <1>1, <3>1, <3>2 DEF Dealing, CalleeRings, SameServer, SameSession, SameDeal
  <2>3. QED
    BY <2>1, <2>2
<1>11. Unheard(v)
  <2>1. CASE u = "callee"
    BY <2>1 DEF Unheard
  <2>2. CASE u = "caller"
    <3>1. P = "callee"
      BY <2>2, Basics
    <3>2. SameServer(w.tsx[1], v.tsx[1])
      BY <1>1, <1>3, <2>2
    <3>3. Unheard(w)
      BY DEF Dealing
    <3>4. QED
      BY <1>1, <3>1, <3>2, <3>3 DEF Unheard, SameServer, SameSession
  <2>3. QED
    BY <2>1, <2>2 DEF Ends
<1>12. QED
  BY <1>5, <1>6, <1>7, <1>8, <1>9, <1>10, <1>11 DEF Dealing

\* While the caller rings, only the answer to its INVITE is on its way.
LEMMA RingingWas ==
  ASSUME NEW w, Runs(w), Dealing(w), Joined(w), w.inv["caller"].state \in {"CALLING", "EARLY"}
  PROVE  /\ Matched(w) \/ Carried(w, 1, "caller")
         /\ Rests(w, 1, "caller")
<1>1. /\ "caller" \in Ends /\ "callee" \in Ends /\ 1 \in Indices(w) /\ w.tsx[1].from = "caller"
      /\ \A t \in Indices(w) : w.tsx[t].from \in Ends
      /\ Peer("caller") = "callee" /\ Peer("callee") = "caller"
  BY Basics
<1>2. /\ Agreed(w) /\ Requests(w) /\ CallerRings(w) /\ w.tsx[1].client = "calling"
  BY Bearings DEF Dealing
<1>3. \A u \in Ends : w.inv[u].state # "CONFIRMED"
  BY <1>2 DEF CallerRings, Ends
<1>4. ASSUME NEW u \in Ends, NEW t, Carried(w, t, u)
      PROVE  t = 1 /\ u = "caller"
  BY <1>1, <1>2, <1>3, <1>4 DEF Requests, Carried, Open
<1>5. ASSUME NEW u \in Ends, NEW t, Acked(w, t, u)
      PROVE  FALSE
  <2>1. Serving(w, t, u) /\ w.tsx[t].client # "calling"
    BY <1>5 DEF Acked, Asked
  <2>2. t # 1
    BY <1>2, <2>1
  <2>3. QED
    BY <1>1, <1>2, <1>3, <2>1, <2>2 DEF Requests, Serving
<1>6. QED
  BY <1>1, <1>2, <1>3, <1>4, <1>5 DEF Agreed, Due, Stuck

\* Likewise.
LEMMA RingingIs ==
  ASSUME NEW v, 1 \in Indices(v), v.tsx[1].method = "INVITE", v.tsx[1].from = "caller",
         \A t \in Indices(v) : v.tsx[t].from \in Ends,
         Requests(v), \A u \in Ends : v.inv[u].state # "CONFIRMED",
         v.tsx[1].client = "calling",
         Matched(v) \/ Carried(v, 1, "caller"),
         Carried(v, 1, "caller") =>
            /\ v.tsx[1].status < 300
            /\ v.neg["callee"].active_remote.sdp = v.tsx[1].sdp
            /\ v.neg["callee"].active_local.sdp = v.tsx[1].body,
         v.tsx[1].sdp = 0 /\ v.tsx[1].body # 0 =>
            /\ Serving(v, 1, "callee") /\ ~v.tsx[1].answered
            /\ v.neg["callee"].state = "LOCAL_OFFER"
            /\ v.neg["callee"].local.sdp = v.tsx[1].body
  PROVE  Agreed(v)
<1>1. /\ "caller" \in Ends /\ "callee" \in Ends
      /\ Peer("caller") = "callee" /\ Peer("callee") = "caller"
      /\ \A u \in Ends : u = "caller" \/ u = "callee"
  BY DEF Ends, Peer
<1>2. ASSUME NEW u \in Ends, NEW t, Open(v, t, u)
      PROVE  t = 1 /\ u = "caller"
  BY <1>1, <1>2 DEF Requests, Open
<1>3. ASSUME NEW u \in Ends, NEW t, Asked(v, t, u)
      PROVE  FALSE
  <2>1. Serving(v, t, u) /\ v.tsx[t].client # "calling"
    BY <1>3 DEF Asked
  <2>2. QED
    BY <1>1, <2>1 DEF Requests, Serving
<1>4. ~Due(v, "callee")
  BY <1>1, <1>2, <1>3 DEF Due, Carried, Acked
<1>5. ASSUME NEW u \in Ends, NEW t \in Indices(v)
      PROVE  Rests(v, t, u)
  <2>1. ~Asked(v, t, u) /\ ~Acked(v, t, u)
    BY <1>3 DEF Acked
  <2>2. /\ Open(v, t, u) => t = 1 /\ u = "caller"
        /\ Open(v, t, Peer(u)) => t = 1 /\ u = "callee"
    BY <1>1, <1>2
  <2>3. QED
    BY <1>1, <2>1, <2>2 DEF Rests, Carried
<1>6. Matched(v) \/ Due(v, "caller")
  BY DEF Due
<1>7. QED
  BY <1>1, <1>4, <1>5, <1>6 DEF Agreed

\* The request t of u is answered, and acknowledged if it is an INVITE that was accepted.
Concludes(w, v, u, t) ==
    LET x == w.tsx[t]
        n == w.neg[u]
        m == v.neg[u]
        a == v.inv[u].last_ack
        acked == x.method = "INVITE" /\ x.status \in 200..299
    IN  /\ \A s \in Indices(v) : s \in Indices(w)
        /\ v.tsx[t].client # "calling"
        /\ v.inv[u].state = "CONFIRMED" /\ m.state = "DONE" /\ ~m.has_remote_answer
        /\ v.inv[u].invite_tsx = IF x.method = "INVITE" THEN 0 ELSE w.inv[u].invite_tsx
        /\ acked => /\ v.inv[u].last_ack_cseq = t /\ v.tsx[t].client = "terminated"
                    /\ v.acks = w.acks \cup {[t |-> t, sdp |-> a]}
        /\ ~acked => /\ v.inv[u].last_ack_cseq = w.inv[u].last_ack_cseq
                     /\ a = w.inv[u].last_ack /\ v.acks = w.acks
                     /\ x.method = "INVITE" => x.status >= 300
        /\ \/ /\ x.sdp # 0 /\ x.body # 0 /\ (acked => a = 0)
              /\ m.active_local.sdp = x.sdp /\ m.active_remote.sdp = x.body
           \/ /\ x.sdp = 0 \/ x.body = 0 \/ x.status >= 300
              /\ acked => a = 0
              /\ m.active_local.sdp = n.active_local.sdp
              /\ m.active_remote.sdp = n.active_remote.sdp
           \/ /\ acked /\ x.sdp = 0 /\ x.body # 0 /\ a # 0
              /\ m.active_local.sdp = a /\ m.active_remote.sdp = x.body

\* What u has acknowledged then: the 2xx it has just read, or nothing new.
LEMMA ConcludesAcks ==
  ASSUME NEW w, NEW v, NEW u, NEW t, Concludes(w, v, u, t)
  PROVE  /\ w.tsx[t].method = "INVITE" /\ w.tsx[t].status \in 200..299 =>
              /\ v.inv[u].last_ack_cseq = t
              /\ v.acks = w.acks \cup {[t |-> t, sdp |-> v.inv[u].last_ack]}
         /\ ~(w.tsx[t].method = "INVITE" /\ w.tsx[t].status \in 200..299) =>
              /\ v.inv[u].last_ack_cseq = w.inv[u].last_ack_cseq
              /\ v.inv[u].last_ack = w.inv[u].last_ack /\ v.acks = w.acks
              /\ w.tsx[t].method = "INVITE" => w.tsx[t].status >= 300
BY DEF Concludes

\* Its session is confirmed, without an INVITE that waits, and its negotiator is done.
LEMMA ConcludesRests ==
  ASSUME NEW w, NEW v, NEW u, NEW t, Concludes(w, v, u, t)
  PROVE  /\ \A s \in Indices(v) : s \in Indices(w)
         /\ v.tsx[t].client # "calling"
         /\ v.inv[u].state = "CONFIRMED" /\ v.neg[u].state = "DONE"
         /\ ~v.neg[u].has_remote_answer
         /\ v.inv[u].invite_tsx = IF w.tsx[t].method = "INVITE"
                                   THEN 0 ELSE w.inv[u].invite_tsx
         /\ w.tsx[t].method = "INVITE" /\ w.tsx[t].status \in 200..299 =>
              v.tsx[t].client = "terminated"
BY DEF Concludes

\* What has to be seen of a 2xx to an INVITE that u acknowledges.
LEMMA ConcludesIf ==
  ASSUME NEW w, NEW v, NEW u, NEW t,
         w.tsx[t].method = "INVITE", w.tsx[t].status \in 200..299,
         \A s \in Indices(v) : s \in Indices(w),
         v.tsx[t].client = "terminated",
         v.inv[u].state = "CONFIRMED", v.inv[u].invite_tsx = 0, v.inv[u].last_ack_cseq = t,
         v.neg[u].state = "DONE", ~v.neg[u].has_remote_answer,
         v.acks = w.acks \cup {[t |-> t, sdp |-> v.inv[u].last_ack]},
         \/ /\ w.tsx[t].sdp # 0 /\ w.tsx[t].body # 0 /\ v.inv[u].last_ack = 0
            /\ v.neg[u].active_local.sdp = w.tsx[t].sdp
            /\ v.neg[u].active_remote.sdp = w.tsx[t].body
         \/ /\ w.tsx[t].sdp = 0 \/ w.tsx[t].body = 0 \/ w.tsx[t].status >= 300
            /\ v.inv[u].last_ack = 0
            /\ v.neg[u].active_local.sdp = w.neg[u].active_local.sdp
            /\ v.neg[u].active_remote.sdp = w.neg[u].active_remote.sdp
         \/ /\ w.tsx[t].sdp = 0 /\ w.tsx[t].body # 0 /\ v.inv[u].last_ack # 0
            /\ v.neg[u].active_local.sdp = v.inv[u].last_ack
            /\ v.neg[u].active_remote.sdp = w.tsx[t].body
  PROVE  Concludes(w, v, u, t)
BY DEF Concludes

\* Then u has nothing open.
LEMMA ConcludesSteady ==
  ASSUME NEW w, Runs(w), Dealing(w), NEW u \in Ends, NEW t, t # 1, Open(w, t, u),
         NEW v, Moves(w, v, u, t), Concludes(w, v, u, t)
  PROVE  /\ Steady(v, u)
         /\ \A s : ~Open(v, s, u) /\ ~Serving(v, s, u)
         /\ \A s \in Indices(w) :
               /\ w.tsx[s].from = Peer(u) /\ w.tsx[s].method = "INVITE"
               /\ v.tsx[s].server \in {"proceeding", "completed"} /\ v.tsx[s].status < 300
               => v.inv[u].invite_tsx = s
<1>1. /\ t \in Indices(w) /\ w.tsx[t].from = u /\ w.tsx[t].client = "calling"
      /\ w.tsx[t].method \in {"INVITE", "UPDATE"}
      /\ Peer(u) # u
  BY Basics DEF Open
<1>2. AsksFor(w, t, u) /\ (\A s \in Indices(w) : ~Serving(w, s, u)) /\ w.inv[u].state = "CONFIRMED"
  BY OpenWhen
<1>3. w.inv[u].invite_tsx # 1
  BY <1>2 DEF Dealing, Steady
<1>4. ASSUME NEW s, Open(v, s, u)
      PROVE  FALSE
  <2>1. s \in Indices(w)
    BY <1>4, ConcludesRests DEF Open
  <2>2. Open(w, s, u)
    BY <1>4, <2>1, MovesOpen
  <2>3. s = t
    BY <1>2, <2>1, <2>2 DEF AsksFor
  <2>4. QED
    BY <1>4, <2>3, ConcludesRests DEF Open
<1>5. ASSUME NEW s \in Indices(w), w.tsx[s].from = Peer(u), w.tsx[s].method = "INVITE",
             v.tsx[s].server \in {"proceeding", "completed"}, v.tsx[s].status < 300
      PROVE  FALSE
  <2>1. Twin(w.tsx[s], v.tsx[s])
    BY <1>1, <1>5 DEF Moves
  <2>2. w.inv[u].invite_tsx = s
    BY <1>5, <2>1, Basics DEF Dealing, Requests, Twin
  <2>3. Serving(w, s, u)
    BY <1>5, <2>1, <2>2 DEF Serving, Twin
  <2>4. QED
    BY <1>2, <2>3
<1>6. ASSUME NEW s, Serving(v, s, u)
      PROVE  FALSE
  <2>1. s \in Indices(w)
    BY <1>6, ConcludesRests DEF Serving
  <2>2. w.tsx[s].from = Peer(u) /\ w.tsx[s].method = "INVITE"
    BY <1>6, <2>1 DEF Serving, Moves
  <2>3. QED
    BY <1>5, <1>6, <2>1, <2>2 DEF Serving
<1>7. v.inv[u].invite_tsx # 1 /\ v.neg[u].state = "DONE"
  BY <1>3, ConcludesRests
<1>8. QED
  BY <1>4, <1>5, <1>6, <1>7 DEF Steady

\* The other end waits for this answer only.
LEMMA ConcludesPeer ==
  ASSUME NEW w, Runs(w), Dealing(w), NEW u \in Ends, NEW t, t # 1, Open(w, t, u),
         w.inv[Peer(u)].state # "DISCONNECTED", w.tsx[t].method = "INVITE",
         w.tsx[t].status \in 200..299,
         NEW s, Serving(w, s, Peer(u)), ~w.tsx[s].answered
  PROVE  s = t /\ w.inv[Peer(u)].state = "CONFIRMED"
<1>1. w.inv[Peer(u)].state \in {"CONNECTING", "CONFIRMED"} /\ Peer(u) \in Ends
      /\ Peer(Peer(u)) = u /\ t \in Indices(w)
  BY OpenWhen, Basics DEF Open
<1>2. w.inv[Peer(u)].state # "CONNECTING"
  BY <1>1 DEF Dealing, Connecting
<1>3. Answers(w, s, Peer(u))
  BY <1>1, <1>2 DEF Dealing, Steady, Serving
<1>4. QED
  BY <1>1, <1>2, <1>3 DEF Answers

\* What the ends agreed on then.
LEMMA ConcludesAgreed ==
  ASSUME NEW w, Runs(w), Dealing(w), NEW u \in Ends, NEW t, t # 1, Open(w, t, u),
         NEW v, Moves(w, v, u, t), Concludes(w, v, u, t), Joined(v)
  PROVE  Agreed(v)
<1> DEFINE P == Peer(u)
           x == w.tsx[t]
           a == v.inv[u].last_ack
           acked == x.method = "INVITE" /\ x.status \in 200..299
           A == /\ x.sdp # 0 /\ x.body # 0 /\ (acked => a = 0)
                /\ v.neg[u].active_local.sdp = x.sdp /\ v.neg[u].active_remote.sdp = x.body
           B == /\ x.sdp = 0 \/ x.body = 0 \/ x.status >= 300
                /\ acked => a = 0
                /\ v.neg[u].active_local.sdp = w.neg[u].active_local.sdp
                /\ v.neg[u].active_remote.sdp = w.neg[u].active_remote.sdp
           C == /\ acked /\ x.sdp = 0 /\ x.body # 0 /\ a # 0
                /\ v.neg[u].active_local.sdp = a /\ v.neg[u].active_remote.sdp = x.body
<1>1. /\ P \in Ends /\ P # u /\ Peer(P) = u /\ \A e \in Ends : e = u \/ e = P
      /\ SameSession(w.inv[P], v.inv[P]) /\ SameDeal(w.neg[P], v.neg[P])
      /\ v.inv[u].state = "CONFIRMED" /\ v.neg[u].state = "DONE"
      /\ A \/ B \/ C
  <2>1. /\ P \in Ends /\ P # u /\ Peer(P) = u /\ \A e \in Ends : e = u \/ e = P
    BY Basics DEF Ends
  <2>2. SameSession(w.inv[P], v.inv[P]) /\ SameDeal(w.neg[P], v.neg[P])
    BY DEF Moves
  <2>3. /\ v.inv[u].state = "CONFIRMED" /\ v.neg[u].state = "DONE"
        /\ A \/ B \/ C
    BY DEF Concludes
  <2>4. QED
    BY <2>1, <2>2, <2>3
<1>2. /\ t \in Indices(w) /\ x.from = u /\ x.client = "calling" /\ x.status \in Nat
      /\ x.method \in {"INVITE", "UPDATE"} /\ v.tsx[t].method = x.method
  BY Basics DEF Open, Moves
<1>3. /\ AsksFor(w, t, u) /\ (\A s \in Indices(w) : ~Serving(w, s, u))
      /\ w.inv[u].state = "CONFIRMED" /\ ~Stuck(w, u)
      /\ w.inv[P].state \in {"CONNECTING", "CONFIRMED", "DISCONNECTED"}
  BY OpenWhen
<1>4. Joined(w) /\ w.inv[P].state # "DISCONNECTED"
  BY <1>1, <1>3 DEF Joined, SameSession
<1>5. Agreed(w)
  BY <1>4 DEF Dealing
<1>6. \A s : ~Open(v, s, u) /\ ~Serving(v, s, u)
  BY ConcludesSteady
<1>7. ~Due(v, u)
  BY <1>6 DEF Due, Carried, Acked, Asked
<1>8. /\ Stuck(v, P) <=> Stuck(w, P)
      /\ \A s : Carried(v, s, P) = Carried(w, s, P)
      /\ \A s : s # t => Asked(v, s, P) = Asked(w, s, P)
      /\ \A s : Asked(v, s, P) =>
                   Serving(w, s, P) /\ ~w.tsx[s].answered /\ w.neg[P].state = "LOCAL_OFFER"
  BY <1>2, MovesPeer
<1>9. acked => \A s : Serving(w, s, P) /\ ~w.tsx[s].answered
                       => s = t /\ w.inv[P].state = "CONFIRMED"
  <2>1. SUFFICES ASSUME acked, NEW s, Serving(w, s, P), ~w.tsx[s].answered
                 PROVE  s = t /\ w.inv[P].state = "CONFIRMED"
    OBVIOUS
  <2>2. w.tsx[t].method = "INVITE" /\ w.tsx[t].status \in 200..299
    BY <2>1
  <2> HIDE DEF acked, x
  <2>3. QED
    BY <1>4, <2>1, <2>2, ConcludesPeer
<1>10. \A s : ~Open(w, s, u) \/ s = t
  BY <1>3 DEF AsksFor, Open
<1>11. \A s \in Indices(w) : Rests(w, s, u) /\ Rests(w, s, P)
  BY <1>1, <1>5 DEF Agreed
\* An answer in the response is what the other end took.
<1>12. ASSUME A
       PROVE  ~Due(w, P) /\ Matched(v)
  <2>1. Carried(w, t, u)
    BY <1>3, <1>12 DEF Carried, AsksFor
  <2>2. Due(w, u)
    BY <1>2, <2>1 DEF Due
  <2>3. ~Due(w, P)
    BY <1>1, <1>5, <2>2 DEF Agreed
  <2>4. w.neg[P].active_remote.sdp = x.sdp /\ w.neg[P].active_local.sdp = x.body
    BY <1>2, <1>11, <2>1 DEF Rests
  <2>5. QED
    BY <1>1, <1>12, <2>3, <2>4 DEF Matched, SameDeal, Ends
\* An offer in the response is the other end's, which waits for the ACK or stays open.
<1>13. ASSUME C
       PROVE  \/ Stuck(w, P)
              \/ /\ Serving(w, t, P) /\ ~x.answered /\ w.neg[P].state = "LOCAL_OFFER"
                 /\ w.neg[P].local.sdp = x.body
  BY <1>1, <1>2, <1>11, <1>13 DEF Rests
<1>14. ASSUME C, NEW s
       PROVE  ~Carried(w, s, P)
  <2>1. SUFFICES ASSUME Open(w, s, P) PROVE FALSE
    BY DEF Carried
  <2>2. ~Stuck(w, P)
    BY <2>1 DEF Stuck, Open
  <2>3. Serving(w, t, P) /\ w.inv[P].state = "CONFIRMED"
    BY <1>9, <1>13, <1>14, <2>2
  <2>4. Answers(w, t, P)
    BY <1>1, <1>2, <2>3 DEF Dealing, Steady
  <2>5. QED
    BY <2>1, <2>4 DEF Answers, Open
<1>15. ASSUME NEW s, Asked(v, s, P)
       PROVE  IF acked THEN s = t ELSE Asked(w, s, P) /\ s # t
  <2>1. Serving(w, s, P) /\ ~w.tsx[s].answered
    BY <1>8, <1>15
  <2>2. CASE acked
    BY <1>9, <2>1, <2>2
  <2>3. CASE ~acked
    <3>1. w.tsx[t].method = "INVITE" => w.tsx[t].status >= 300
      BY <2>3, ConcludesAcks
    <3>2. s # t
      BY <1>2, <2>1, <3>1 DEF Serving
    <3>3. Asked(v, s, P) = Asked(w, s, P)
      BY <1>8, <3>2
    <3>4. QED
      BY <1>15, <2>3, <3>2, <3>3
  <2>4. QED
    BY <2>2, <2>3
<1>16. \A ack \in w.acks : ack.t # t
  BY <1>2 DEF Dealing, Accepted
<1>17. Matched(v) \/ Stuck(v, P) \/ Due(v, P)
  <2>1. CASE A
    BY <1>12, <2>1
  <2>2. CASE C
    <3>1. CASE Stuck(w, P)
      BY <1>8, <3>1
    <3>2. CASE /\ Serving(w, t, P) /\ ~x.answered /\ w.neg[P].state = "LOCAL_OFFER"
               /\ w.neg[P].local.sdp = x.body
      <4>1. Serving(v, t, P) /\ SameServer(w.tsx[t], v.tsx[t])
        BY <3>2, MovesOpen
      <4>2. v.tsx[t].client # "calling"
        BY ConcludesRests
      <4>3. Asked(v, t, P)
        BY <1>1, <3>2, <4>1, <4>2 DEF Asked, SameServer, SameDeal
      <4>4. Acked(v, t, P) /\ t \in Indices(v)
        BY <1>1, <2>2, <4>1, <4>3 DEF Acked, Serving
      <4>5. QED
        BY <4>4 DEF Due
    <3>3. QED
      BY <1>13, <2>2, <3>1, <3>2
  <2>3. CASE B
    <3>1. CASE Matched(w)
      BY <1>1, <2>3, <3>1 DEF Matched, SameDeal, Ends
    <3>2. CASE Stuck(w, P)
      BY <1>8, <3>2
    <3>3. ~Due(w, u)
      <4>1. ASSUME NEW s, Carried(w, s, u)
            PROVE  FALSE
        <5>1. s = t
          BY <1>10, <4>1 DEF Carried
        <5>2. x.status < 300 /\ x.sdp # 0 /\ x.body # 0
          BY <1>2, <1>11, <4>1, <5>1 DEF Rests, Carried
        <5>3. QED
          BY <1>2, <2>3, <5>2
      <4>2. QED
        BY <1>3, <4>1 DEF Due, Acked, Asked
    <3>4. ASSUME NEW s, s \in Indices(w), Carried(w, s, P)
          PROVE  Due(v, P)
      BY <1>8, <3>4 DEF Due, Carried, Open
    <3>5. ASSUME NEW s, s \in Indices(w), Acked(w, s, P)
          PROVE  Due(v, P)
      <4>1. Asked(w, s, P) /\ s # t
        BY <1>2, <3>5 DEF Acked, Asked
      <4>2. Asked(v, s, P)
        BY <1>8, <4>1
      <4>3. ~acked
        BY <1>15, <4>1, <4>2
      <4>4. v.inv[u].last_ack = w.inv[u].last_ack
        BY <4>3, ConcludesAcks
      <4>5. Acked(v, s, P)
        BY <1>1, <3>5, <4>2, <4>4 DEF Acked
      <4>6. QED
        BY <4>5 DEF Due, Acked, Asked, Serving
    <3>6. QED
      BY <1>1, <1>3, <1>5, <3>1, <3>2, <3>3, <3>4, <3>5 DEF Agreed, Due
  <2>4. QED
    BY <1>1, <2>1, <2>2, <2>3
<1>18. ASSUME NEW s \in Indices(v)
       PROVE  Rests(v, s, u)
  <2>1. ~Carried(v, s, u) /\ ~Asked(v, s, u) /\ ~Acked(v, s, u)
    BY <1>6 DEF Carried, Asked, Acked
  <2>2. ASSUME Open(v, s, P), v.tsx[s].sdp = 0, v.tsx[s].body # 0
        PROVE  FALSE
    <3>1. Open(w, s, P)
      BY <2>2, MovesOpen
    <3>2. s \in Indices(w) /\ s # t /\ w.tsx[s].method # "CANCEL"
      BY <1>1, <1>2, <3>1 DEF Open
    <3>3. Twin(w.tsx[s], v.tsx[s])
      BY <3>2 DEF Moves
    <3>4. QED
      BY <1>3, <1>11, <2>2, <3>1, <3>2, <3>3 DEF Rests, Twin
  <2>3. QED
    BY <2>1, <2>2 DEF Rests
<1>19. ASSUME NEW s \in Indices(v)
       PROVE  Rests(v, s, P)
  <2>1. s \in Indices(w)
    BY ConcludesRests
  <2>2. ~Open(v, s, Peer(P)) /\ Rests(w, s, P) /\ Peer(P) = u
    BY <1>1, <1>6, <1>11, <2>1
  <2>3. ASSUME Carried(v, s, P)
        PROVE  /\ v.tsx[s].status < 300
               /\ v.neg[u].active_remote.sdp = v.tsx[s].sdp
               /\ v.neg[u].active_local.sdp = v.tsx[s].body
    <3>1. Carried(w, s, P)
      BY <1>8, <2>3
    <3>2. B
      BY <1>1, <1>12, <1>14, <2>1, <3>1 DEF Due
    <3>3. Twin(w.tsx[s], v.tsx[s])
      BY <1>1, <1>2, <2>1, <3>1 DEF Moves, Carried, Open
    <3>4. /\ w.tsx[s].status < 300
          /\ w.neg[u].active_remote.sdp = w.tsx[s].sdp
          /\ w.neg[u].active_local.sdp = w.tsx[s].body
      BY <2>2, <3>1 DEF Rests
    <3>5. QED
      BY <3>2, <3>3, <3>4 DEF Twin
  <2>4. ASSUME Asked(v, s, P)
        PROVE  /\ v.inv[u].last_ack_cseq = s
               /\ \A ack \in v.acks : ack.t = s => ack.sdp = v.inv[u].last_ack
    <3>1. CASE acked
      <4>1. /\ v.inv[u].last_ack_cseq = t
            /\ v.acks = w.acks \cup {[t |-> t, sdp |-> v.inv[u].last_ack]}
        BY <3>1, ConcludesAcks
      <4>2. QED
        BY <1>15, <1>16, <2>4, <3>1, <4>1
    <3>2. CASE ~acked
      <4>1. Asked(w, s, P)
        BY <1>15, <2>4, <3>2
      <4>2. /\ w.inv[u].last_ack_cseq = s
            /\ \A ack \in w.acks : ack.t = s => ack.sdp = w.inv[u].last_ack
        BY <2>2, <4>1 DEF Rests
      <4>3. /\ v.inv[u].last_ack_cseq = w.inv[u].last_ack_cseq
            /\ v.inv[u].last_ack = w.inv[u].last_ack /\ v.acks = w.acks
        BY <3>2, ConcludesAcks
      <4>4. QED
        BY <4>2, <4>3
    <3>3. QED
      BY <3>1, <3>2
  <2>5. ASSUME Acked(v, s, P)
        PROVE  /\ v.neg[u].active_remote.sdp = v.neg[P].local.sdp
               /\ v.neg[u].active_local.sdp = v.inv[u].last_ack
    <3>1. Asked(v, s, P) /\ a # 0
      BY <1>1, <2>5 DEF Acked
    <3>2. CASE acked
      <4>1. s = t /\ C
        BY <1>1, <1>15, <3>1, <3>2
      <4>2. Serving(w, t, P)
        BY <1>8, <3>1, <4>1
      <4>3. ~Stuck(w, P)
        BY <1>2, <4>2 DEF Stuck
      <4>4. QED
        BY <1>1, <1>13, <4>1, <4>3 DEF SameDeal
    <3>3. CASE ~acked
      <4>1. Asked(w, s, P) /\ w.inv[u].last_ack = a
        BY <1>15, <3>1, <3>3, ConcludesAcks
      <4>2. Acked(w, s, P)
        BY <1>1, <3>1, <4>1 DEF Acked
      <4>3. Due(w, P)
        BY <2>1, <4>2 DEF Due
      <4>4. B
        BY <1>1, <1>12, <3>3, <4>3
      <4>5. /\ w.neg[u].active_remote.sdp = w.neg[P].local.sdp
            /\ w.neg[u].active_local.sdp = w.inv[u].last_ack
        BY <2>2, <4>2 DEF Rests
      <4>6. QED
        BY <1>1, <4>1, <4>4, <4>5 DEF SameDeal
    <3>4. QED
      BY <3>2, <3>3
  <2>6. QED
    BY <1>1, <2>2, <2>3, <2>4, <2>5 DEF Rests
<1>20. \A e \in Ends, s \in Indices(v) : Rests(v, s, e)
  BY <1>1, <1>18, <1>19
<1>21. QED
  BY <1>1, <1>7, <1>17, <1>20 DEF Agreed

\* A request that is settled keeps the invariant.
LEMMA ConcludesDealing ==
  ASSUME NEW w, Runs(w), Dealing(w), NEW u \in Ends, NEW t, t # 1, Open(w, t, u),
         NEW v, Moves(w, v, u, t), Concludes(w, v, u, t)
  PROVE  Dealing(v)
<1>1. /\ t \in Indices(w) /\ w.tsx[t].from = u /\ w.tsx[t].client = "calling"
      /\ w.inv[u].state = "CONFIRMED" /\ Ending(w) /\ w.tsx[t].status \in Nat
  BY OpenWhen, Basics DEF Open, Runs
<1>2. /\ v.inv[u].state = "CONFIRMED" /\ v.neg[u].state = "DONE" /\ ~v.neg[u].has_remote_answer
      /\ \A s \in Indices(v) : s \in Indices(w)
      /\ v.tsx[t].client # "calling"
  BY ConcludesRests
<1>3. SameServer(w.tsx[t], v.tsx[t]) /\ t \in Indices(v)
  BY <1>1, MovesOpen
<1>4. /\ Steady(v, u)
      /\ \A s \in Indices(w) :
               /\ w.tsx[s].from = Peer(u) /\ w.tsx[s].method = "INVITE"
               /\ v.tsx[s].server \in {"proceeding", "completed"} /\ v.tsx[s].status < 300
               => v.inv[u].invite_tsx = s
  BY ConcludesSteady
<1>5. \A ack \in w.acks : ack.t # t
  BY <1>1 DEF Dealing, Accepted
<1>6. \A ack \in v.acks : /\ ack.t = t \/ ack \in w.acks
                          /\ ack.t = t => /\ w.tsx[t].method = "INVITE"
                                          /\ w.tsx[t].status \in 200..299
                                          /\ v.tsx[t].client = "terminated"
  BY <1>5, ConcludesAcks, ConcludesRests
<1>7. w.tsx[t].status \in 200..299 =>
         w.tsx[t].server \in {"completed", "terminated"} /\ w.tsx[t].status < 300
  BY <1>1 DEF Ending, Codes
<1>8. \A ack \in v.acks : ack.t = t =>
            /\ t \in Indices(w) /\ w.tsx[t].method = "INVITE" /\ v.tsx[t].client = "terminated"
            /\ v.tsx[t].server \in {"completed", "terminated"} /\ v.tsx[t].status < 300
  BY <1>1, <1>3, <1>6, <1>7 DEF SameServer
<1>9. v.inv[u].last_ack_cseq # 0 =>
            /\ v.inv[u].last_ack_cseq \in Indices(v)
            /\ v.tsx[v.inv[u].last_ack_cseq].client # "calling"
  <2>1. CASE v.inv[u].last_ack_cseq = t
    BY <1>2, <1>3, <2>1
  <2>2. CASE v.inv[u].last_ack_cseq # t
    <3>1. v.inv[u].last_ack_cseq = w.inv[u].last_ack_cseq
      BY <2>2 DEF Concludes
    <3>2. SUFFICES ASSUME NEW s, s = w.inv[u].last_ack_cseq, s # 0
                   PROVE  s \in Indices(v) /\ v.tsx[s].client # "calling"
      BY <3>1
    <3>3. s \in Indices(w) /\ w.tsx[s].client # "calling"
      BY <3>2 DEF Dealing, Notes
    <3>4. v.tsx[s].client # "calling"
      BY <3>3 DEF Moves
    <3>5. QED
      BY <3>3, <3>4, MovesOpen
  <2>3. QED
    BY <2>1, <2>2
<1>10. v.inv["caller"].state \notin {"CALLING", "EARLY"}
  <2>1. CASE u = "caller"
    BY <1>2, <2>1
  <2>2. CASE u # "caller"
    <3>1. u = "callee" /\ Peer(u) = "caller"
      BY <2>2, Basics DEF Ends
    <3>2. w.inv["caller"].state \notin {"CALLING", "EARLY"}
      BY <1>1, <3>1, Bearings
    <3>3. QED
      BY <3>1, <3>2 DEF Moves, SameSession
  <2>3. QED
    BY <2>1, <2>2
<1>11. Joined(v) => Agreed(v)
  BY ConcludesAgreed
<1>12. QED
  BY <1>2, <1>4, <1>6, <1>8, <1>9, <1>10, <1>11, MovesDealing

\* The ACK for INVITE t arrives at u, and confirms the call if it is the first one.
Closes(w, v, u, t) ==
    LET n == w.neg[u]
        m == v.neg[u]
        a == w.inv[Peer(u)].last_ack
    IN  /\ Serving(w, t, u) /\ w.tsx[t].server = "completed" /\ w.tsx[t].client = "terminated"
        /\ w.inv[u].state \in {"CONNECTING", "CONFIRMED"}
        /\ \A s \in Indices(v) : s \in Indices(w)
        /\ v.tsx[t].server = "terminated" /\ v.tsx[t].status = w.tsx[t].status
        /\ v.inv[u].state = "CONFIRMED" /\ m.state = "DONE" /\ ~m.has_remote_answer
        /\ v.inv[u].invite_tsx = 0 /\ v.acks \subseteq w.acks
        /\ v.inv[u].last_ack_cseq = w.inv[u].last_ack_cseq
        /\ v.inv[u].last_ack = w.inv[u].last_ack
        /\ Joined(w) =>
              \/ /\ w.tsx[t].answered \/ a = 0
                 /\ m.active_local.sdp = n.active_local.sdp
                 /\ m.active_remote.sdp = n.active_remote.sdp
              \/ /\ ~w.tsx[t].answered /\ n.state = "LOCAL_OFFER" /\ a # 0
                 /\ m.active_local.sdp = n.local.sdp /\ m.active_remote.sdp = a

\* Then u has nothing open.
LEMMA ClosesSteady ==
  ASSUME NEW w, Runs(w), Dealing(w), NEW u \in Ends, NEW t,
         NEW v, Moves(w, v, u, t), Closes(w, v, u, t)
  PROVE  /\ Steady(v, u)
         /\ \A s : ~Open(v, s, u) /\ ~Serving(v, s, u) /\ ~Open(w, s, u)
         /\ \A s \in Indices(w) :
               /\ w.tsx[s].from = Peer(u) /\ w.tsx[s].method = "INVITE"
               /\ v.tsx[s].server \in {"proceeding", "completed"} /\ v.tsx[s].status < 300
               => v.inv[u].invite_tsx = s
<1>1. /\ Serving(w, t, u) /\ t \in Indices(w) /\ w.tsx[t].from = Peer(u)
      /\ w.inv[u].state \in {"CONNECTING", "CONFIRMED"} /\ w.inv[u].invite_tsx = t
      /\ v.inv[u].invite_tsx = 0 /\ v.neg[u].state = "DONE" /\ Peer(u) # u /\ Peer(Peer(u)) = u
      /\ v.tsx[t].server = "terminated"
      /\ \A s \in Indices(v) : s \in Indices(w)
  BY Basics DEF Closes, Serving
<1>2. ASSUME NEW s, Open(w, s, u)
      PROVE  FALSE
  <2>1. CASE w.inv[u].state = "CONFIRMED"
    BY <1>1, <1>2, <2>1 DEF Dealing, Steady, Answers, Open
  <2>2. CASE w.inv[u].state = "CONNECTING"
    <3>1. u = "callee"
      BY <2>2 DEF Dealing, Connecting
    <3>2. s # 1 /\ s \in Indices(w) /\ w.tsx[s].from = u /\ w.tsx[s].method \in {"INVITE", "UPDATE"}
      BY <1>2, <3>1, Basics DEF Open
    <3>3. QED
      BY <2>2, <3>2 DEF Dealing, Requests
  <2>3. QED
    BY <1>1, <2>1, <2>2
<1>3. ASSUME NEW s, Open(v, s, u)
      PROVE  FALSE
  <2>1. s \in Indices(w)
    BY <1>1, <1>3 DEF Open
  <2>2. Open(w, s, u)
    BY <1>3, <2>1, MovesOpen
  <2>3. QED
    BY <1>2, <2>2
<1>4. ASSUME NEW s \in Indices(w), w.tsx[s].from = Peer(u), w.tsx[s].method = "INVITE",
             v.tsx[s].server \in {"proceeding", "completed"}, v.tsx[s].status < 300
      PROVE  FALSE
  <2>1. s # t
    BY <1>1, <1>4
  <2>2. Twin(w.tsx[s], v.tsx[s])
    BY <1>4, <2>1 DEF Moves
  <2>3. w.inv[u].invite_tsx = s
    BY <1>1, <1>4, <2>2 DEF Dealing, Requests, Twin
  <2>4. QED
    BY <1>1, <2>1, <2>3
<1>5. ASSUME NEW s, Serving(v, s, u)
      PROVE  FALSE
  <2>1. s \in Indices(w)
    BY <1>1, <1>5 DEF Serving
  <2>2. w.tsx[s].from = Peer(u) /\ w.tsx[s].method = "INVITE"
    BY <1>5, <2>1 DEF Serving, Moves
  <2>3. QED
    BY <1>4, <1>5, <2>1, <2>2 DEF Serving
<1>6. Steady(v, u)
  BY <1>1, <1>3, <1>5 DEF Steady
<1>7. QED
  BY <1>2, <1>3, <1>4, <1>5, <1>6

\* What the ends agreed on then.
LEMMA ClosesAgreed ==
  ASSUME NEW w, Runs(w), Dealing(w), NEW u \in Ends, NEW t,
         NEW v, Moves(w, v, u, t), Closes(w, v, u, t), Joined(v)
  PROVE  Agreed(v)
<1> DEFINE P == Peer(u)
           a == w.inv[P].last_ack
           A == /\ w.tsx[t].answered \/ a = 0
                /\ v.neg[u].active_local.sdp = w.neg[u].active_local.sdp
                /\ v.neg[u].active_remote.sdp = w.neg[u].active_remote.sdp
           B == /\ ~w.tsx[t].answered /\ w.neg[u].state = "LOCAL_OFFER" /\ a # 0
                /\ v.neg[u].active_local.sdp = w.neg[u].local.sdp
                /\ v.neg[u].active_remote.sdp = a
<1>1. /\ P \in Ends /\ P # u /\ Peer(P) = u /\ \A e \in Ends : e = u \/ e = P
  BY Basics DEF Ends
<1>2. SameSession(w.inv[P], v.inv[P]) /\ SameDeal(w.neg[P], v.neg[P])
  BY DEF Moves
<1>3. /\ Serving(w, t, u) /\ t \in Indices(w) /\ w.tsx[t].client = "terminated"
      /\ w.tsx[t].from = P /\ w.inv[u].state \in {"CONNECTING", "CONFIRMED"}
      /\ v.inv[u].state = "CONFIRMED" /\ v.neg[u].state = "DONE"
      /\ v.inv[u].last_ack_cseq = w.inv[u].last_ack_cseq
      /\ v.inv[u].last_ack = w.inv[u].last_ack /\ v.acks \subseteq w.acks
      /\ \A s \in Indices(v) : s \in Indices(w)
  BY DEF Closes, Serving
<1>4. Joined(w)
  BY <1>1, <1>2, <1>3 DEF Joined, SameSession
<1>5. A \/ B
  BY <1>4 DEF Closes
<1>6. Agreed(w)
  BY <1>4 DEF Dealing
<1>7. \A s : ~Open(v, s, u) /\ ~Serving(v, s, u) /\ ~Open(w, s, u)
  BY ClosesSteady
<1>8. /\ Stuck(v, P) <=> Stuck(w, P)
      /\ \A s : s # t => Carried(v, s, P) = Carried(w, s, P)
      /\ \A s : s # t => Asked(v, s, P) = Asked(w, s, P)
      /\ \A s : Asked(v, s, P) => Serving(w, s, P)
  BY MovesPeer
<1>9. ~Serving(w, t, P) /\ ~Open(v, t, P) /\ ~Open(w, t, P)
  <2>1. ~Serving(w, t, P) /\ ~Open(w, t, P)
    BY <1>1, <1>3 DEF Serving, Open
  <2>2. QED
    BY <2>1, MovesOpen
<1>10. \A s : Carried(v, s, P) <=> Carried(w, s, P)
  BY <1>8, <1>9 DEF Carried
<1>11. \A s : Asked(v, s, P) <=> Asked(w, s, P)
  BY <1>8, <1>9 DEF Asked
<1>12. \A s : Acked(v, s, P) <=> Acked(w, s, P)
  BY <1>1, <1>3, <1>11 DEF Acked
<1>13. Due(v, P) <=> Due(w, P)
  <2>1. \A s : Carried(w, s, P) \/ Acked(w, s, P) => s \in Indices(w)
    BY DEF Carried, Acked, Asked, Open, Serving
  <2>2. \A s : Carried(v, s, P) \/ Acked(v, s, P) => s \in Indices(v)
    BY DEF Carried, Acked, Asked, Open, Serving
  <2>3. QED
    BY <1>10, <1>12, <2>1, <2>2 DEF Due
<1>14. \A s \in Indices(w) : Rests(w, s, u) /\ Rests(w, s, P)
  BY <1>1, <1>6 DEF Agreed
<1>15. ASSUME B
       PROVE  ~Due(w, P) /\ Matched(v)
  <2>1. Acked(w, t, u)
    BY <1>3, <1>15 DEF Acked, Asked
  <2>2. Due(w, u)
    BY <1>3, <2>1 DEF Due
  <2>3. ~Due(w, P)
    BY <1>1, <1>6, <2>2 DEF Agreed
  <2>4. w.neg[P].active_remote.sdp = w.neg[u].local.sdp /\ w.neg[P].active_local.sdp = a
    BY <1>3, <1>14, <2>1 DEF Rests
  <2>5. QED
    BY <1>1, <1>2, <1>15, <2>3, <2>4 DEF Matched, SameDeal, Ends
<1>16. ~Due(v, u) /\ ~Stuck(w, u)
  BY <1>3, <1>7 DEF Due, Carried, Acked, Asked, Stuck
<1>17. Matched(v) \/ Stuck(v, P) \/ Due(v, P)
  <2>1. CASE B
    BY <1>15, <2>1
  <2>2. CASE A
    <3>1. CASE Matched(w)
      BY <1>1, <1>2, <2>2, <3>1 DEF Matched, SameDeal, Ends
    <3>2. ASSUME NEW s, Acked(w, s, u)
          PROVE  FALSE
      <4>1. s = t
        BY <1>3, <3>2 DEF Acked, Asked, Serving
      <4>2. QED
        BY <2>2, <3>2, <4>1 DEF Acked, Asked
    <3>3. ~Due(w, u)
      BY <1>7, <3>2 DEF Due, Carried
    <3>4. QED
      BY <1>1, <1>6, <1>8, <1>13, <1>16, <3>1, <3>3 DEF Agreed
  <2>3. QED
    BY <1>5, <2>1, <2>2
<1>18. ASSUME NEW s \in Indices(v)
       PROVE  Rests(v, s, u)
  <2>1. ~Carried(v, s, u) /\ ~Asked(v, s, u) /\ ~Acked(v, s, u)
    BY <1>7 DEF Carried, Asked, Acked
  <2>2. ASSUME Open(v, s, P), v.tsx[s].sdp = 0, v.tsx[s].body # 0
        PROVE  FALSE
    <3>1. Open(w, s, P) /\ s # t
      BY <1>9, <2>2, MovesOpen
    <3>2. s \in Indices(w) /\ w.tsx[s].method # "CANCEL"
      BY <3>1 DEF Open
    <3>3. Twin(w.tsx[s], v.tsx[s])
      BY <3>1, <3>2 DEF Moves
    <3>4. Serving(w, s, u)
      BY <1>14, <1>16, <2>2, <3>1, <3>2, <3>3 DEF Rests, Twin
    <3>5. QED
      BY <1>3, <3>1, <3>4 DEF Serving
  <2>3. QED
    BY <2>1, <2>2 DEF Rests
<1>19. ASSUME NEW s \in Indices(v)
       PROVE  Rests(v, s, P)
  <2>1. ~Open(v, s, Peer(P)) /\ Rests(w, s, P) /\ Peer(P) = u
    BY <1>1, <1>3, <1>7, <1>14
  <2>2. ASSUME Carried(v, s, P)
        PROVE  /\ v.tsx[s].status < 300
               /\ v.neg[u].active_remote.sdp = v.tsx[s].sdp
               /\ v.neg[u].active_local.sdp = v.tsx[s].body
    <3>1. Carried(w, s, P)
      BY <1>10, <2>2
    <3>2. s # t /\ s \in Indices(w) /\ w.tsx[s].method # "CANCEL"
      BY <1>9, <3>1 DEF Carried, Open
    <3>3. A
      BY <1>5, <1>15, <3>1, <3>2 DEF Due
    <3>4. Twin(w.tsx[s], v.tsx[s])
      BY <3>2 DEF Moves
    <3>5. /\ w.tsx[s].status < 300
          /\ w.neg[u].active_remote.sdp = w.tsx[s].sdp
          /\ w.neg[u].active_local.sdp = w.tsx[s].body
      BY <2>1, <3>1 DEF Rests
    <3>6. QED
      BY <3>3, <3>4, <3>5 DEF Twin
  <2>3. ASSUME Asked(v, s, P)
        PROVE  /\ v.inv[u].last_ack_cseq = s
               /\ \A ack \in v.acks : ack.t = s => ack.sdp = v.inv[u].last_ack
    <3>1. Asked(w, s, P)
      BY <1>11, <2>3
    <3>2. /\ w.inv[u].last_ack_cseq = s
          /\ \A ack \in w.acks : ack.t = s => ack.sdp = w.inv[u].last_ack
      BY <2>1, <3>1 DEF Rests
    <3>3. QED
      BY <1>3, <3>2
  <2>4. ASSUME Acked(v, s, P)
        PROVE  /\ v.neg[u].active_remote.sdp = v.neg[P].local.sdp
               /\ v.neg[u].active_local.sdp = v.inv[u].last_ack
    <3>1. Acked(w, s, P) /\ s \in Indices(w)
      BY <1>3, <1>12, <2>4
    <3>2. A
      BY <1>5, <1>15, <3>1 DEF Due
    <3>3. /\ w.neg[u].active_remote.sdp = w.neg[P].local.sdp
          /\ w.neg[u].active_local.sdp = w.inv[u].last_ack
      BY <2>1, <3>1 DEF Rests
    <3>4. QED
      BY <1>2, <1>3, <3>2, <3>3 DEF SameDeal
  <2>5. QED
    BY <2>1, <2>2, <2>3, <2>4 DEF Rests
<1>20. \A e \in Ends, s \in Indices(v) : Rests(v, s, e)
  BY <1>1, <1>18, <1>19
<1>21. QED
  BY <1>1, <1>16, <1>17, <1>20 DEF Agreed

\* An ACK that ends what u waits for keeps the invariant.
LEMMA ClosesDealing ==
  ASSUME NEW w, Runs(w), Dealing(w), NEW u \in Ends, NEW t,
         NEW v, Moves(w, v, u, t), Closes(w, v, u, t)
  PROVE  Dealing(v)
<1>1. /\ Serving(w, t, u) /\ t \in Indices(w) /\ w.tsx[t].client = "terminated"
      /\ w.tsx[t].method = "INVITE" /\ w.tsx[t].status < 300
      /\ w.tsx[t].from = Peer(u) /\ Peer(u) # u
  BY Basics DEF Closes, Serving
<1>2. /\ v.inv[u].state = "CONFIRMED" /\ v.neg[u].state = "DONE" /\ ~v.neg[u].has_remote_answer
      /\ v.inv[u].last_ack_cseq = w.inv[u].last_ack_cseq
      /\ v.tsx[t].server = "terminated" /\ v.tsx[t].status = w.tsx[t].status
      /\ \A ack \in v.acks : ack \in w.acks
      /\ \A s \in Indices(v) : s \in Indices(w)
  BY DEF Closes
<1>3. /\ Steady(v, u)
      /\ \A s \in Indices(w) :
               /\ w.tsx[s].from = Peer(u) /\ w.tsx[s].method = "INVITE"
               /\ v.tsx[s].server \in {"proceeding", "completed"} /\ v.tsx[s].status < 300
               => v.inv[u].invite_tsx = s
  BY ClosesSteady
<1>4. v.tsx[t].client = "terminated"
  BY <1>1 DEF Moves, SameClient
<1>5. v.inv[u].last_ack_cseq # 0 =>
            /\ v.inv[u].last_ack_cseq \in Indices(v)
            /\ v.tsx[v.inv[u].last_ack_cseq].client # "calling"
  <2>1. SUFFICES ASSUME NEW s, s = w.inv[u].last_ack_cseq, s # 0
                 PROVE  s \in Indices(v) /\ v.tsx[s].client # "calling"
    BY <1>2
  <2>2. s \in Indices(w) /\ w.tsx[s].client # "calling"
    BY <2>1 DEF Dealing, Notes
  <2>3. v.tsx[s].client # "calling"
    BY <2>2 DEF Moves
  <2>4. QED
    BY <2>2, <2>3, MovesOpen
<1>6. v.inv["caller"].state \notin {"CALLING", "EARLY"}
  <2>1. CASE u = "caller"
    BY <1>2, <2>1
  <2>2. CASE u # "caller"
    <3>1. u = "callee" /\ Peer(u) = "caller" /\ v.inv["caller"].state = w.inv["caller"].state
      BY <2>2, Basics DEF Ends, Moves, SameSession
    <3>2. CASE t = 1
      BY <1>1, <3>1, <3>2, Bearings
    <3>3. CASE t # 1
      <4>1. w.inv["caller"].state = "CONFIRMED"
        BY <1>1, <3>1, <3>3 DEF Dealing, Requests
      <4>2. QED
        BY <3>1, <4>1
    <3>4. QED
      BY <3>2, <3>3
  <2>3. QED
    BY <2>1, <2>2
<1>7. Joined(v) => Agreed(v)
  BY ClosesAgreed
<1>8. QED
  BY <1>1, <1>2, <1>3, <1>4, <1>5, <1>6, <1>7, MovesDealing

\* The end u accepts request t of the other end: it takes the offer, or makes one.
Yields(w, v, u, t) ==
    LET x == w.tsx[t]
        y == v.tsx[t]
        n == w.neg[u]
        m == v.neg[u]
    IN  /\ t # 1 /\ Open(w, t, Peer(u))
        /\ w.inv[u].state \in {"CONNECTING", "CONFIRMED"} /\ v.inv[u].state = w.inv[u].state
        /\ n.state = "DONE" /\ ~m.has_remote_answer
        /\ \A s \in Indices(v) : s \in Indices(w)
        /\ v.inv[u].last_ack_cseq = w.inv[u].last_ack_cseq
        /\ v.inv[u].last_ack = w.inv[u].last_ack /\ v.acks = w.acks
        /\ y.status = 200
        /\ IF x.method = "INVITE"
           THEN /\ w.inv[u].state = "CONFIRMED" /\ w.inv[u].invite_tsx = 0
                /\ v.inv[u].invite_tsx = t /\ y.server = "completed"
           ELSE v.inv[u].invite_tsx = w.inv[u].invite_tsx /\ y.server = "terminated"
        /\ \/ /\ x.sdp # 0 /\ y.body # 0
              /\ m.state = "DONE" /\ (x.method = "INVITE" => y.answered)
              /\ m.active_local.sdp = y.body /\ m.active_remote.sdp = x.sdp
           \/ /\ x.sdp = 0 /\ x.method = "INVITE" /\ ~y.answered
              /\ m.state = "LOCAL_OFFER" /\ m.local.sdp = y.body
              /\ m.active_local.sdp = n.active_local.sdp
              /\ m.active_remote.sdp = n.active_remote.sdp

\* What is open then.
LEMMA YieldsSteady ==
  ASSUME NEW w, Runs(w), Dealing(w), NEW u \in Ends, NEW t,
         NEW v, Moves(w, v, u, t), Yields(w, v, u, t)
  PROVE  /\ v.inv[u].state = "CONFIRMED" => Steady(v, u)
         /\ \A s : Open(v, s, u) =>
               /\ Open(w, s, u) /\ w.tsx[t].method = "UPDATE" /\ s # t
               /\ w.tsx[s].sdp = 0 /\ v.tsx[s].sdp = 0
         /\ \A s \in Indices(w) :
               /\ w.tsx[s].from = Peer(u) /\ w.tsx[s].method = "INVITE"
               /\ v.tsx[s].server \in {"proceeding", "completed"} /\ v.tsx[s].status < 300
               => v.inv[u].invite_tsx = s
<1> DEFINE P == Peer(u)
<1>1. /\ t \in Indices(w) /\ w.tsx[t].from = P /\ P # u /\ Peer(P) = u /\ P \in Ends
      /\ w.tsx[t].method \in {"INVITE", "UPDATE"} /\ t # 0
      /\ w.inv[u].state \in {"CONNECTING", "CONFIRMED"} /\ v.inv[u].state = w.inv[u].state
      /\ w.neg[u].state = "DONE" /\ v.tsx[t].method = w.tsx[t].method
      /\ v.tsx[t].sdp = w.tsx[t].sdp
      /\ \A s \in Indices(v) : s \in Indices(w)
      /\ \A s \in Indices(w) : s # 0
  BY Basics DEF Yields, Open, Moves, Indices
<1>2. AsksFor(w, t, P)
  BY <1>1, OpenWhen DEF Yields
<1>3. ASSUME NEW s, Open(w, s, u)
      PROVE  /\ w.tsx[t].method = "UPDATE" /\ w.tsx[s].sdp = 0 /\ s # t
             /\ s \in Indices(w) /\ w.inv[u].state = "CONFIRMED" /\ AsksFor(w, s, u)
  <2>1. s \in Indices(w) /\ w.tsx[s].from = u /\ w.tsx[s].method \in {"INVITE", "UPDATE"}
    BY <1>3 DEF Open
  <2>2. s # 1 /\ w.inv[u].state = "CONFIRMED" /\ AsksFor(w, s, u)
    BY <1>1, <1>3, OpenWhen
  <2>3. w.tsx[s].sdp = 0
    BY <1>1, <2>2 DEF AsksFor
  <2>4. w.inv[u].invite_tsx = s
    BY <2>1, <2>2, <2>3 DEF AsksFor
  <2>5. w.tsx[t].method = "UPDATE"
    BY <1>1, <2>1, <2>4 DEF Yields
  <2>6. QED
    BY <1>1, <2>1, <2>2, <2>3, <2>5
<1>4. ASSUME NEW s, Open(v, s, u)
      PROVE  Open(w, s, u)
  <2>1. s \in Indices(w)
    BY <1>1, <1>4 DEF Open
  <2>2. QED
    BY <1>4, <2>1, MovesOpen
<1>5. ASSUME NEW s \in Indices(w), s # t, w.tsx[s].method # "CANCEL"
      PROVE  Twin(w.tsx[s], v.tsx[s])
  BY <1>5 DEF Moves
<1>6. ASSUME NEW s \in Indices(w), w.tsx[s].from = P, w.tsx[s].method = "INVITE",
             v.tsx[s].server \in {"proceeding", "completed"}, v.tsx[s].status < 300
      PROVE  v.inv[u].invite_tsx = s
  <2>1. CASE s = t
    BY <1>6, <2>1 DEF Yields
  <2>2. CASE s # t
    <3>1. w.inv[u].invite_tsx = s
      BY <1>1, <1>5, <1>6, <2>2 DEF Dealing, Requests, Twin
    <3>2. QED
      BY <1>1, <3>1 DEF Yields
  <2>3. QED
    BY <2>1, <2>2
<1>7. ASSUME v.inv[u].state = "CONFIRMED"
      PROVE  Steady(v, u)
  <2>1. Steady(w, u)
    BY <1>1, <1>7 DEF Dealing
  <2>2. v.inv[u].invite_tsx # 1
    BY <2>1 DEF Steady, Yields
  <2>3. ASSUME NEW s, Open(v, s, u)
        PROVE  AsksFor(v, s, u)
    <3>1. /\ w.tsx[t].method = "UPDATE" /\ w.tsx[s].sdp = 0 /\ s # t
          /\ s \in Indices(w) /\ AsksFor(w, s, u)
      BY <1>3, <1>4, <2>3
    <3>2. Twin(w.tsx[s], v.tsx[s])
      BY <1>4, <1>5, <2>3, <3>1 DEF Open
    <3>3. v.neg[u].state = "DONE" /\ v.inv[u].invite_tsx = w.inv[u].invite_tsx
      BY <3>1 DEF Yields
    <3>4. QED
      BY <1>1, <1>4, <3>1, <3>2, <3>3 DEF AsksFor, Twin
  <2>4. ASSUME NEW s, Serving(v, s, u)
        PROVE  Answers(v, s, u)
    <3>1. s \in Indices(w) /\ v.inv[u].invite_tsx = s
      BY <1>1, <2>4 DEF Serving
    <3>2. CASE w.tsx[t].method = "INVITE"
      <4>1. s = t
        BY <3>1, <3>2 DEF Yields
      <4>2. \A i \in Indices(v) : ~Open(v, i, u)
        BY <1>3, <1>4, <3>2
      <4>3. \A i : Open(v, i, P) => i = t
        BY <1>2, MovesOpen DEF AsksFor, Open
      <4>4. QED
        BY <1>1, <3>2, <4>1, <4>2, <4>3 DEF Yields, Answers
    <3>3. CASE w.tsx[t].method = "UPDATE"
      <4>1. s # t /\ v.neg[u].state = "DONE" /\ w.inv[u].invite_tsx = s
        BY <1>1, <2>4, <3>1, <3>3 DEF Yields, Serving
      <4>2. w.tsx[s].method = "INVITE"
        BY <2>4, <3>1 DEF Serving, Moves
      <4>3. Twin(w.tsx[s], v.tsx[s])
        BY <1>5, <3>1, <4>1, <4>2
      <4>4. Serving(w, s, u)
        BY <2>4, <3>1, <4>1, <4>3 DEF Serving, Twin
      <4>5. Answers(w, s, u)
        BY <2>1, <3>1, <4>4 DEF Steady
      <4>6. v.tsx[s].answered
        BY <1>1, <4>3, <4>5 DEF Answers, Twin
      <4>7. \A i \in Indices(v) : ~Open(v, i, u)
        BY <1>4, <4>5 DEF Answers, Open
      <4>8. \A i \in Indices(v) : ~(Open(v, i, P) /\ v.tsx[i].method = "INVITE")
        <5>1. \A i : Open(v, i, P) => i = t
          BY <1>2, MovesOpen DEF AsksFor, Open
        <5>2. QED
          BY <1>1, <3>3, <5>1
      <4>9. QED
        BY <4>1, <4>6, <4>7, <4>8 DEF Answers
    <3>4. QED
      BY <1>1, <3>2, <3>3
  <2>5. v.neg[u].state \in {"DONE", "LOCAL_OFFER"}
    BY DEF Yields
  <2>6. QED
    BY <2>2, <2>3, <2>4, <2>5 DEF Steady
<1>8. ASSUME NEW s, Open(v, s, u)
      PROVE  /\ Open(w, s, u) /\ w.tsx[t].method = "UPDATE" /\ s # t
             /\ w.tsx[s].sdp = 0 /\ v.tsx[s].sdp = 0
  <2>1. /\ Open(w, s, u) /\ w.tsx[t].method = "UPDATE" /\ w.tsx[s].sdp = 0 /\ s # t
        /\ s \in Indices(w)
    BY <1>3, <1>4, <1>8
  <2>2. v.tsx[s].sdp = w.tsx[s].sdp
    BY <2>1 DEF Moves
  <2>3. QED
    BY <2>1, <2>2
<1>9. QED
  BY <1>6, <1>7, <1>8

\* What the ends agreed on then.
LEMMA YieldsAgreed ==
  ASSUME NEW w, Runs(w), Dealing(w), NEW u \in Ends, NEW t,
         NEW v, Moves(w, v, u, t), Yields(w, v, u, t), Joined(v)
  PROVE  Agreed(v)
<1> DEFINE P == Peer(u)
<1>1. /\ P \in Ends /\ P # u /\ Peer(P) = u /\ \A e \in Ends : e = u \/ e = P
  BY Basics DEF Ends
<1>2. SameSession(w.inv[P], v.inv[P]) /\ SameDeal(w.neg[P], v.neg[P])
  BY DEF Moves
<1>3. /\ t # 1 /\ Open(w, t, P) /\ t \in Indices(w) /\ t \in Indices(v)
      /\ w.neg[u].state = "DONE" /\ v.inv[u].state = w.inv[u].state
      /\ \A s \in Indices(v) : s \in Indices(w)
      /\ w.tsx[t].client = "calling"
      /\ v.tsx[t].sdp = w.tsx[t].sdp /\ v.tsx[t].client = w.tsx[t].client
      /\ v.tsx[t].status < 300 /\ v.tsx[t].method = w.tsx[t].method
      /\ v.tsx[t].from = P
  <2>1. /\ t # 1 /\ Open(w, t, P) /\ w.neg[u].state = "DONE" /\ v.inv[u].state = w.inv[u].state
        /\ \A s \in Indices(v) : s \in Indices(w)
        /\ v.tsx[t].status = 200
    BY DEF Yields
  <2>2. /\ t \in Indices(w) /\ w.tsx[t].client = "calling" /\ w.tsx[t].from = P
        /\ w.tsx[t].method # "CANCEL"
    BY <2>1 DEF Open
  <2>3. /\ v.tsx[t].sdp = w.tsx[t].sdp /\ v.tsx[t].method = w.tsx[t].method
        /\ v.tsx[t].from = P /\ v.tsx[t].client = w.tsx[t].client
    BY <1>1, <2>2 DEF Moves, SameClient
  <2>4. t \in Indices(v)
    BY <2>2, MovesOpen
  <2>5. QED
    BY <2>1, <2>2, <2>3, <2>4
<1>4. /\ AsksFor(w, t, P) /\ (\A s \in Indices(w) : ~Serving(w, s, P)) /\ ~Stuck(w, P)
  BY <1>1, <1>3, OpenWhen
<1>5. \A s : ~Serving(w, s, P) /\ (Open(w, s, P) => s = t)
  BY <1>4 DEF AsksFor, Open, Serving
<1>6. Joined(w)
  BY <1>1, <1>2, <1>3 DEF Joined, SameSession
<1>7. Agreed(w)
  BY <1>6 DEF Dealing
<1>8. \A s : ~Serving(v, s, P) /\ (Open(v, s, P) => s = t)
  BY <1>5, MovesOpen
<1>9. \A s : /\ ~Asked(v, s, P) /\ ~Acked(v, s, P) /\ ~Asked(w, s, P) /\ ~Acked(w, s, P)
             /\ (Carried(v, s, P) => s = t) /\ (Carried(w, s, P) => s = t)
  BY <1>5, <1>8 DEF Asked, Acked, Carried
<1>10. \A s : /\ ~Carried(v, s, u)
              /\ Open(v, s, u) => Open(w, s, u) /\ s # t
  BY YieldsSteady DEF Carried
<1>11. \A s : ~Asked(v, s, u) /\ ~Acked(v, s, u)
  <2>1. ASSUME NEW s, Asked(v, s, u)
        PROVE  FALSE
    <3>1. v.neg[u].state = "LOCAL_OFFER" /\ v.inv[u].invite_tsx = s /\ v.tsx[s].client # "calling"
      BY <2>1 DEF Asked, Serving
    <3>2. s = t
      BY <3>1 DEF Yields
    <3>3. QED
      BY <1>3, <3>1, <3>2
  <2>2. QED
    BY <2>1 DEF Acked
<1>12. ~Due(v, u)
  BY <1>10, <1>11 DEF Due
<1>13. CASE w.tsx[t].sdp # 0
  <2>1. /\ v.neg[u].active_local.sdp = v.tsx[t].body
        /\ v.neg[u].active_remote.sdp = w.tsx[t].sdp /\ v.tsx[t].body # 0
    BY <1>13 DEF Yields
  <2>2. Open(v, t, P) /\ ~v.tsx[t].done
    BY <1>3, <1>4, MovesOpen DEF AsksFor
  <2>3. Carried(v, t, P)
    BY <1>3, <1>13, <2>1, <2>2 DEF Carried
  <2>4. Due(v, P)
    BY <1>3, <2>3 DEF Due
  <2>5. \A s \in Indices(v) : Rests(v, s, u)
    BY <1>3, <1>8, <1>10, <1>11, <1>13 DEF Rests
  <2>6. ASSUME NEW s \in Indices(v)
        PROVE  Rests(v, s, P)
    <3>1. Carried(v, s, P) =>
             /\ v.tsx[s].status < 300
             /\ v.neg[u].active_remote.sdp = v.tsx[s].sdp
             /\ v.neg[u].active_local.sdp = v.tsx[s].body
      BY <1>3, <1>9, <2>1
    <3>2. ASSUME Open(v, s, u), v.tsx[s].sdp = 0, v.tsx[s].body # 0
          PROVE  FALSE
      <4>1. Open(w, s, u) /\ s # t /\ s \in Indices(w) /\ w.tsx[s].method # "CANCEL"
        BY <1>3, <1>10, <3>2 DEF Open
      <4>2. Twin(w.tsx[s], v.tsx[s])
        BY <4>1 DEF Moves
      <4>3. Rests(w, s, P)
        BY <1>1, <1>7, <4>1 DEF Agreed
      <4>4. QED
        BY <1>1, <1>4, <1>5, <3>2, <4>1, <4>2, <4>3 DEF Rests, Twin
    <3>3. QED
      BY <1>1, <1>9, <3>1, <3>2 DEF Rests
  <2>7. QED
    BY <1>1, <1>12, <2>4, <2>5, <2>6 DEF Agreed
<1>14. CASE w.tsx[t].sdp = 0
  <2>1. /\ v.neg[u].active_local.sdp = w.neg[u].active_local.sdp
        /\ v.neg[u].active_remote.sdp = w.neg[u].active_remote.sdp
        /\ w.tsx[t].method = "INVITE" /\ ~v.tsx[t].answered
        /\ v.neg[u].state = "LOCAL_OFFER" /\ v.neg[u].local.sdp = v.tsx[t].body
        /\ v.inv[u].invite_tsx = t /\ v.tsx[t].server = "completed"
    BY <1>14 DEF Yields
  <2>2. Serving(v, t, u)
    BY <1>3, <2>1 DEF Serving
  <2>3. \A s : ~Carried(v, s, P) /\ ~Carried(w, s, P)
    BY <1>3, <1>9, <1>14 DEF Carried
  <2>4. \A s : ~Open(v, s, u)
    BY <2>1, YieldsSteady
  <2>5. ~Due(w, P)
    BY <1>9, <2>3 DEF Due
  <2>6. ~Due(w, u) /\ ~Stuck(w, u)
    <3>1. ASSUME NEW s, Carried(w, s, u)
          PROVE  FALSE
      <4>1. Open(w, s, u) /\ s # t
        BY <1>1, <1>3, <3>1 DEF Carried, Open
      <4>2. QED
        BY <2>4, <4>1, MovesOpen
    <3>2. QED
      BY <1>3, <3>1 DEF Due, Acked, Asked, Stuck
  <2>7. Matched(w)
    BY <1>1, <1>4, <1>7, <2>5, <2>6 DEF Agreed
  <2>8. Matched(v)
    BY <1>1, <1>2, <2>1, <2>7, ZenonT(60) DEF Matched, SameDeal, Ends
  <2>9. \A s \in Indices(v) : Rests(v, s, u)
    BY <1>8, <1>10, <1>11, <2>1, <2>2 DEF Rests
  <2>10. \A s \in Indices(v) : Rests(v, s, P)
    BY <1>1, <1>9, <2>3, <2>4 DEF Rests
  <2>11. QED
    BY <1>1, <1>12, <2>8, <2>9, <2>10 DEF Agreed
<1>15. QED
  BY <1>13, <1>14

\* Accepting a request keeps the invariant.
LEMMA YieldsDealing ==
  ASSUME NEW w, Runs(w), Dealing(w), NEW u \in Ends, NEW t,
         NEW v, Moves(w, v, u, t), Yields(w, v, u, t)
  PROVE  Dealing(v)
<1>1. /\ Peer(u) \in Ends /\ Peer(u) # u /\ Peer(Peer(u)) = u /\ t # 1 /\ Open(w, t, Peer(u))
      /\ t \in Indices(w) /\ w.tsx[t].client = "calling" /\ w.tsx[t].from = Peer(u)
      /\ w.inv[u].state \in {"CONNECTING", "CONFIRMED"} /\ v.inv[u].state = w.inv[u].state
      /\ ~v.neg[u].has_remote_answer /\ v.neg[u].state \in {"DONE", "LOCAL_OFFER"}
      /\ v.inv[u].last_ack_cseq = w.inv[u].last_ack_cseq /\ v.acks = w.acks
      /\ \A s \in Indices(v) : s \in Indices(w)
      /\ w.tsx[1].from = "caller" /\ 1 \in Indices(w) /\ w.tsx[1].method = "INVITE"
      /\ w.neg[u].state = "DONE"
  BY Basics DEF Yields, Open
<1>2. /\ v.inv[u].state = "CONFIRMED" => Steady(v, u)
      /\ \A s \in Indices(w) :
               /\ w.tsx[s].from = Peer(u) /\ w.tsx[s].method = "INVITE"
               /\ v.tsx[s].server \in {"proceeding", "completed"} /\ v.tsx[s].status < 300
               => v.inv[u].invite_tsx = s
  BY YieldsSteady
<1>3. \A ack \in v.acks : ack.t # t
  BY <1>1 DEF Dealing, Accepted
<1>4. v.inv[u].last_ack_cseq # 0 =>
            /\ v.inv[u].last_ack_cseq \in Indices(v)
            /\ v.tsx[v.inv[u].last_ack_cseq].client # "calling"
  <2>1. SUFFICES ASSUME NEW s, s = w.inv[u].last_ack_cseq, s # 0
                 PROVE  s \in Indices(v) /\ v.tsx[s].client # "calling"
    BY <1>1
  <2>2. s \in Indices(w) /\ w.tsx[s].client # "calling"
    BY <2>1 DEF Dealing, Notes
  <2>3. v.tsx[s].client # "calling"
    BY <2>2 DEF Moves
  <2>4. QED
    BY <2>2, <2>3, MovesOpen
<1>5. w.inv[Peer(u)].state = "CONFIRMED" /\ v.inv[Peer(u)].state = "CONFIRMED"
  <2>1. w.inv[Peer(u)].state = "CONFIRMED"
    BY <1>1, OpenWhen
  <2>2. QED
    BY <2>1 DEF Moves, SameSession
<1>6. v.inv["caller"].state \notin {"CALLING", "EARLY"}
  <2>1. u = "caller" \/ Peer(u) = "caller"
    BY Basics DEF Ends
  <2>2. CASE u = "caller"
    <3>1. Peer(u) = "callee"
      BY <2>2, Basics
    <3>2. w.inv["caller"].state \in {"CONFIRMED", "DISCONNECTED"}
      BY <1>5, <3>1, Bearings
    <3>3. QED
      BY <1>1, <2>2, <3>2
  <2>3. CASE Peer(u) = "caller"
    BY <1>5, <2>3
  <2>4. QED
    BY <2>1, <2>2, <2>3
<1>7. v.inv[u].state = "CONNECTING" =>
            /\ u = "callee" /\ v.inv[u].invite_tsx = 1
            /\ v.tsx[1].server = "completed" /\ v.tsx[1].status < 300
            /\ \A s \in Indices(w) :
                  s # 1 /\ w.tsx[s].method = "INVITE" => v.tsx[s].status \notin 200..299
  <2>1. SUFFICES ASSUME v.inv[u].state = "CONNECTING"
                 PROVE  /\ u = "callee" /\ v.inv[u].invite_tsx = 1
                        /\ v.tsx[1].server = "completed" /\ v.tsx[1].status < 300
                        /\ \A s \in Indices(w) : s # 1 /\ w.tsx[s].method = "INVITE"
                                                 => v.tsx[s].status \notin 200..299
    OBVIOUS
  <2>2. /\ u = "callee" /\ w.inv[u].invite_tsx = 1
        /\ w.tsx[1].server = "completed" /\ w.tsx[1].status < 300
        /\ \A s \in Indices(w) :
              s # 1 /\ w.tsx[s].method = "INVITE" => w.tsx[s].status \notin 200..299
    BY <1>1, <2>1 DEF Dealing, Connecting
  <2>3. w.tsx[t].method # "INVITE" /\ v.inv[u].invite_tsx = 1
    BY <1>1, <2>1, <2>2 DEF Yields
  <2>4. \A s \in Indices(w) : w.tsx[s].method = "INVITE" => Twin(w.tsx[s], v.tsx[s])
    BY <2>3 DEF Moves
  <2>5. QED
    BY <1>1, <2>2, <2>3, <2>4 DEF Twin
<1>8. u = "callee" /\ v.inv[u].state \in {"INCOMING", "EARLY", "CONNECTING"} => CalleeRings(v)
  <2>1. SUFFICES ASSUME u = "callee", v.inv[u].state = "CONNECTING"
                 PROVE  CalleeRings(v)
    BY <1>1
  <2>2. Twin(w.tsx[1], v.tsx[1])
    BY <1>1 DEF Moves
  <2>3. CalleeRings(w)
    BY <1>1, <2>1 DEF Dealing
  <2>4. w.tsx[t].method # "INVITE" /\ w.tsx[t].method \in {"INVITE", "UPDATE"}
    BY <1>1, <2>1 DEF Yields, Open
  <2>5. v.neg[u].state = "DONE"
    BY <2>4 DEF Yields
  <2>6. QED
    BY <1>1, <2>1, <2>2, <2>3, <2>5 DEF CalleeRings, Twin
<1>9. Joined(v) => Agreed(v)
  BY YieldsAgreed
<1>10. /\ v.inv[u].state \in {"NULL", "DISCONNECTED"} => v.neg[u].state = "NULL"
       /\ \A s \in Indices(v) :
            s # 1 /\ v.tsx[s].from = u /\ v.tsx[s].method \in {"INVITE", "UPDATE"}
            => v.inv[u].state = "CONFIRMED"
  <2>1. ASSUME NEW s \in Indices(v), s # 1, v.tsx[s].from = u,
               v.tsx[s].method \in {"INVITE", "UPDATE"}
        PROVE  v.inv[u].state = "CONFIRMED"
    <3>1. s \in Indices(w) /\ w.tsx[s].from = u /\ w.tsx[s].method \in {"INVITE", "UPDATE"}
      BY <1>1, <2>1 DEF Moves
    <3>2. w.inv[u].state = "CONFIRMED"
      BY <2>1, <3>1 DEF Dealing, Requests
    <3>3. QED
      BY <1>1, <3>2
  <2>2. QED
    BY <1>1, <2>1
<1>11. \A ack \in v.acks : ack.t = t \/ ack \in w.acks
  BY <1>1
<1>12. QED
  BY <1>1, <1>2, <1>3, <1>4, <1>6, <1>7, <1>8, <1>9, <1>10, <1>11, MovesDealing

-----------------------------------------------------------------------------
(* An offer, or a request for one *)

\* The end u asks for more in the new request t.
Offers(w, v, u, t) ==
    LET n == w.neg[u]
        m == v.neg[u]
        y == v.tsx[t]
    IN  /\ t = Len(w.tsx) + 1 /\ t \in Indices(v)
        /\ \A s \in Indices(v) : s \in Indices(w) \/ s = t
        /\ y.method \in {"INVITE", "UPDATE"}
        /\ w.inv[u].state = "CONFIRMED" /\ v.inv[u].state = "CONFIRMED"
        /\ w.inv[u].invite_tsx = 0 /\ n.state = "DONE" /\ ~m.has_remote_answer
        /\ \A s : ~Open(w, s, u)
        /\ v.inv[u].invite_tsx = IF y.method = "INVITE" THEN t ELSE 0
        /\ v.inv[u].last_ack_cseq = w.inv[u].last_ack_cseq
        /\ v.inv[u].last_ack = w.inv[u].last_ack /\ v.acks = w.acks
        /\ m.active_local.sdp = n.active_local.sdp /\ m.active_remote.sdp = n.active_remote.sdp
        /\ \/ y.sdp # 0 /\ m.state = "LOCAL_OFFER" /\ m.local.sdp = y.sdp
           \/ y.sdp = 0 /\ m.state = "DONE" /\ y.method = "INVITE"

\* Then that request is what u has open.
LEMMA OffersSteady ==
  ASSUME NEW w, Runs(w), Dealing(w), NEW u \in Ends, NEW t,
         NEW v, Moves(w, v, u, t), Offers(w, v, u, t)
  PROVE  /\ t \notin Indices(w) /\ Fresh(v.tsx[t], u) /\ t # 1 /\ t # 0
         /\ \A s : /\ Open(v, s, u) => s = t
                   /\ ~Serving(v, s, u) /\ ~Serving(w, s, u)
         /\ Steady(v, u)
<1>1. /\ Len(w.tsx) \in Nat \ {0} /\ t = Len(w.tsx) + 1 /\ t \in Indices(v)
      /\ Peer(u) # u
  BY Basics DEF Offers
<1>2. t \notin Indices(w) /\ t # 1 /\ t # 0 /\ 0 \notin Indices(w)
  BY <1>1 DEF Indices
<1>3. Fresh(v.tsx[t], u)
  BY <1>1, <1>2 DEF Moves
<1>4. \A s : Open(v, s, u) => s = t
  BY MovesOpen DEF Open, Offers
<1>5. \A s : ~Serving(v, s, u) /\ ~Serving(w, s, u)
  <2>1. ASSUME NEW s, Serving(w, s, u) PROVE FALSE
    BY <1>2, <2>1 DEF Serving, Offers
  <2>2. ASSUME NEW s, Serving(v, s, u) PROVE FALSE
    <3>1. s \in Indices(v) /\ v.inv[u].invite_tsx = s /\ v.tsx[s].from = Peer(u)
      BY <2>2 DEF Serving
    <3>2. s # t
      BY <1>1, <1>3, <3>1 DEF Fresh
    <3>3. s = 0
      BY <3>1, <3>2 DEF Offers
    <3>4. QED
      BY <3>1, <3>2, <3>3, <1>2 DEF Offers
  <2>3. QED
    BY <2>1, <2>2
<1>6. AsksFor(v, t, u)
  BY <1>3, <1>4 DEF Offers, AsksFor, Fresh
<1>7. v.neg[u].state \in {"DONE", "LOCAL_OFFER"} /\ v.inv[u].invite_tsx # 1
  BY <1>2 DEF Offers
<1>8. Steady(v, u)
  BY <1>4, <1>5, <1>6, <1>7 DEF Steady
<1>9. QED
  BY <1>2, <1>3, <1>4, <1>5, <1>8

\* What the ends agreed on stays.
LEMMA OffersAgreed ==
  ASSUME NEW w, Runs(w), Dealing(w), NEW u \in Ends, NEW t,
         NEW v, Moves(w, v, u, t), Offers(w, v, u, t), Joined(v)
  PROVE  Agreed(v)
<1> DEFINE P == Peer(u)
<1>1. /\ P \in Ends /\ P # u /\ Peer(P) = u /\ \A e \in Ends : e = u \/ e = P
  BY Basics DEF Ends
<1>2. SameSession(w.inv[P], v.inv[P]) /\ SameDeal(w.neg[P], v.neg[P])
  BY DEF Moves
<1>3. /\ t \notin Indices(w) /\ Fresh(v.tsx[t], u)
      /\ \A s : /\ Open(v, s, u) => s = t
                /\ ~Serving(v, s, u) /\ ~Serving(w, s, u)
  BY OffersSteady
<1>4. /\ \A s : ~Open(w, s, u)
      /\ v.neg[u].active_local.sdp = w.neg[u].active_local.sdp
      /\ v.neg[u].active_remote.sdp = w.neg[u].active_remote.sdp
      /\ v.inv[u].last_ack_cseq = w.inv[u].last_ack_cseq
      /\ v.inv[u].last_ack = w.inv[u].last_ack /\ v.acks = w.acks
      /\ w.inv[u].state = v.inv[u].state /\ w.neg[u].state = "DONE"
  BY DEF Offers
<1>5. Joined(w)
  BY <1>1, <1>2, <1>4 DEF Joined, SameSession
<1>6. Agreed(w)
  BY <1>5 DEF Dealing
<1>7. ~Stuck(w, u) /\ ~Due(w, u) /\ ~Due(v, u)
  <2>1. ~Stuck(w, u)
    BY <1>4 DEF Stuck
  <2>2. ~Due(w, u)
    BY <1>3, <1>4 DEF Due, Carried, Acked, Asked
  <2>3. ~Due(v, u)
    BY <1>3 DEF Due, Carried, Acked, Asked, Fresh
  <2>4. QED
    BY <2>1, <2>2, <2>3
<1>8. \A s : /\ Carried(v, s, P) = Carried(w, s, P) /\ Asked(v, s, P) = Asked(w, s, P)
             /\ s \in Indices(w) => s \in Indices(v)
  <2>1. \A s \in Indices(w) : s \in Indices(v)
    BY MovesOpen
  <2>2. \A s : s # t => Carried(v, s, P) = Carried(w, s, P) /\ Asked(v, s, P) = Asked(w, s, P)
    BY MovesPeer
  <2>3. /\ ~Open(v, t, P) /\ ~Open(w, t, P) /\ ~Serving(w, t, P) /\ ~Serving(v, t, P)
    <3>1. ~Open(w, t, P) /\ ~Serving(w, t, P)
      BY <1>3 DEF Open, Serving
    <3>2. QED
      BY <3>1, MovesOpen
  <2>4. Carried(v, t, P) = Carried(w, t, P) /\ Asked(v, t, P) = Asked(w, t, P)
    BY <2>3 DEF Carried, Asked
  <2>5. QED
    BY <2>1, <2>2, <2>4
<1>9. \A s : Acked(v, s, P) = Acked(w, s, P)
  BY <1>1, <1>4, <1>8 DEF Acked
<1>10. Due(w, P) => Due(v, P)
  BY <1>8, <1>9 DEF Due
<1>11. Matched(w) => Matched(v)
  BY <1>1, <1>2, <1>4 DEF Matched, SameDeal, Ends
<1>12. Stuck(w, P) => Stuck(v, P)
  BY MovesPeer
<1>13. ASSUME NEW s \in Indices(v)
       PROVE  Rests(v, s, u)
  <2>1. ASSUME Open(v, s, P), v.tsx[s].sdp = 0, v.tsx[s].body # 0
        PROVE  FALSE
    <3>1. Open(w, s, P)
      BY <2>1, MovesOpen
    <3>2. s \in Indices(w) /\ s # t /\ w.tsx[s].method # "CANCEL"
      BY <1>3, <3>1 DEF Open
    <3>3. Twin(w.tsx[s], v.tsx[s]) /\ Rests(w, s, u)
      BY <1>6, <3>2 DEF Moves, Agreed
    <3>4. QED
      BY <1>3, <1>7, <2>1, <3>1, <3>3 DEF Rests, Twin
  <2>2. ~Carried(v, s, u) /\ ~Asked(v, s, u) /\ ~Acked(v, s, u)
    BY <1>3 DEF Carried, Asked, Acked, Fresh
  <2>3. QED
    BY <2>1, <2>2 DEF Rests
<1>14. ASSUME NEW s \in Indices(v)
       PROVE  Rests(v, s, P)
  <2>1. ~(Open(v, s, u) /\ v.tsx[s].body # 0)
    BY <1>3 DEF Fresh
  <2>2. Carried(v, s, P) \/ Asked(v, s, P) \/ Acked(v, s, P) =>
           s \in Indices(w) /\ s # t /\ w.tsx[s].method # "CANCEL"
    BY <1>3, <1>8 DEF Carried, Asked, Acked, Open, Serving
  <2>3. Carried(v, s, P) \/ Asked(v, s, P) \/ Acked(v, s, P) =>
           Rests(w, s, P) /\ Twin(w.tsx[s], v.tsx[s])
    <3>1. s \in Indices(w) => Rests(w, s, P)
      BY <1>1, <1>6 DEF Agreed
    <3>2. s \in Indices(w) /\ s # t /\ w.tsx[s].method # "CANCEL" => Twin(w.tsx[s], v.tsx[s])
      BY DEF Moves
    <3>3. QED
      BY <2>2, <3>1, <3>2
  <2>4. Carried(v, s, P) =>
          /\ v.tsx[s].status < 300
          /\ v.neg[u].active_remote.sdp = v.tsx[s].sdp
          /\ v.neg[u].active_local.sdp = v.tsx[s].body
    BY <1>1, <1>4, <1>8, <2>3 DEF Rests, Twin
  <2>5. Acked(v, s, P) =>
          /\ v.neg[u].active_remote.sdp = v.neg[P].local.sdp
          /\ v.neg[u].active_local.sdp = v.inv[u].last_ack
    BY <1>1, <1>2, <1>4, <1>9, <2>3 DEF Rests, SameDeal
  <2>6. Asked(v, s, P) =>
          /\ v.inv[u].last_ack_cseq = s
          /\ \A ack \in v.acks : ack.t = s => ack.sdp = v.inv[u].last_ack
    BY <1>1, <1>4, <1>8, <2>3 DEF Rests
  <2>7. QED
    BY <1>1, <2>1, <2>4, <2>5, <2>6 DEF Rests
<1>15. QED
  BY <1>1, <1>6, <1>7, <1>10, <1>11, <1>12, <1>13, <1>14 DEF Agreed

\* An offer keeps the invariant.
LEMMA OffersDealing ==
  ASSUME NEW w, Runs(w), Dealing(w), NEW u \in Ends, NEW t,
         NEW v, Moves(w, v, u, t), Offers(w, v, u, t)
  PROVE  Dealing(v)
<1>1. /\ Peer(u) \in Ends /\ Peer(u) # u /\ 0 \notin Indices(w)
  BY Basics DEF Indices
<1>2. /\ t \notin Indices(w) /\ Steady(v, u)
  BY OffersSteady
<1>3. /\ w.inv[u].state = "CONFIRMED" /\ v.inv[u].state = "CONFIRMED"
      /\ ~v.neg[u].has_remote_answer /\ v.acks = w.acks /\ w.inv[u].invite_tsx = 0
      /\ v.inv[u].last_ack_cseq = w.inv[u].last_ack_cseq
  BY DEF Offers
<1>4. v.inv[u].last_ack_cseq # 0 =>
            /\ v.inv[u].last_ack_cseq \in Indices(v)
            /\ v.tsx[v.inv[u].last_ack_cseq].client # "calling"
  <2>1. SUFFICES ASSUME NEW s, s = w.inv[u].last_ack_cseq, s # 0
                 PROVE  s \in Indices(v) /\ v.tsx[s].client # "calling"
    BY <1>3
  <2>2. s \in Indices(w) /\ w.tsx[s].client # "calling"
    BY <2>1 DEF Dealing, Notes
  <2>3. v.tsx[s].client # "calling"
    BY <2>2 DEF Moves
  <2>4. QED
    BY <2>2, <2>3, MovesOpen
<1>5. \A ack \in v.acks : ack.t # t
  BY <1>2, <1>3 DEF Dealing, Accepted
<1>6. ASSUME NEW s \in Indices(w), w.tsx[s].from = Peer(u), w.tsx[s].method = "INVITE",
             v.tsx[s].server \in {"proceeding", "completed"}, v.tsx[s].status < 300
      PROVE  v.inv[u].invite_tsx = s
  <2>1. Twin(w.tsx[s], v.tsx[s])
    BY <1>2, <1>6 DEF Moves
  <2>2. w.inv[Peer(Peer(u))].invite_tsx = s
    BY <1>6, <2>1 DEF Dealing, Requests, Twin
  <2>3. QED
    BY <1>1, <1>3, <1>6, <2>2, Basics
<1>7. v.inv["caller"].state \notin {"CALLING", "EARLY"}
  <2>1. CASE u = "caller"
    BY <1>3, <2>1
  <2>2. CASE u = "callee"
    <3>1. w.inv["caller"].state \in {"CONFIRMED", "DISCONNECTED"}
      BY <1>3, <2>2, Bearings
    <3>2. v.inv["caller"].state = w.inv["caller"].state
      BY <2>2, Basics DEF Moves, SameSession
    <3>3. QED
      BY <3>1, <3>2
  <2>3. QED
    BY <2>1, <2>2 DEF Ends
<1>8. Joined(v) => Agreed(v)
  BY OffersAgreed
<1>9. /\ v.inv[u].state = "CONFIRMED" => Steady(v, u)
      /\ \A ack \in v.acks : ack.t = t \/ ack \in w.acks
  BY <1>2, <1>3
<1>10. \A s \in Indices(w) :
            /\ w.tsx[s].from = Peer(u) /\ w.tsx[s].method = "INVITE"
            /\ v.tsx[s].server \in {"proceeding", "completed"} /\ v.tsx[s].status < 300
            => v.inv[u].invite_tsx = s
  BY <1>6
<1>11. QED
  BY <1>3, <1>4, <1>5, <1>7, <1>8, <1>9, <1>10, MovesDealing

-----------------------------------------------------------------------------
(* The ACK again *)

\* The end u acknowledges INVITE t once more.
Repeats(w, v, u, t) ==
    LET r == w.inv[u]
        s == v.inv[u]
    IN  /\ t \in Indices(w) /\ w.tsx[t].from = u /\ w.tsx[t].method = "INVITE"
        /\ w.tsx[t].server = "completed" /\ w.tsx[t].status < 300
        /\ w.tsx[t].client = "terminated"
        /\ Len(v.tsx) = Len(w.tsx) /\ \A i \in Indices(w) : Twin(w.tsx[i], v.tsx[i])
        /\ s.state = r.state /\ s.invite_tsx = r.invite_tsx /\ SameDeal(w.neg[u], v.neg[u])
        /\ s.last_ack_cseq = t
        /\ s.last_ack = IF r.last_ack_cseq = t THEN r.last_ack ELSE 0
        /\ v.acks = w.acks \cup {[t |-> t, sdp |-> s.last_ack]}

\* Everything is as it was, but for the ACK.
LEMMA RepeatsSame ==
  ASSUME NEW w, Runs(w), Dealing(w), NEW u \in Ends, NEW t,
         NEW v, Moves(w, v, u, t), Repeats(w, v, u, t)
  PROVE  /\ Indices(v) = Indices(w)
         /\ \A e \in Ends : /\ v.inv[e].state = w.inv[e].state
                            /\ v.inv[e].invite_tsx = w.inv[e].invite_tsx
                            /\ SameDeal(w.neg[e], v.neg[e])
         /\ \A i \in Indices(w) : Twin(w.tsx[i], v.tsx[i])
         /\ \A e, s : Open(v, s, e) = Open(w, s, e)
         /\ \A e \in Ends : \A s : Serving(v, s, e) = Serving(w, s, e)
         /\ \A e, s : Carried(v, s, e) = Carried(w, s, e)
         /\ \A e \in Ends : \A s : Asked(v, s, e) = Asked(w, s, e)
         /\ \A e \in Ends : Stuck(v, e) = Stuck(w, e)
<1>1. \A e \in Ends : e = u \/ e = Peer(u)
  BY Basics DEF Ends
<1>2. Indices(v) = Indices(w) /\ \A i \in Indices(w) : Twin(w.tsx[i], v.tsx[i])
  BY DEF Repeats, Indices
<1>3. \A e \in Ends : /\ v.inv[e].state = w.inv[e].state
                      /\ v.inv[e].invite_tsx = w.inv[e].invite_tsx
                      /\ SameDeal(w.neg[e], v.neg[e])
  <2>1. /\ v.inv[u].state = w.inv[u].state /\ v.inv[u].invite_tsx = w.inv[u].invite_tsx
        /\ SameDeal(w.neg[u], v.neg[u])
    BY DEF Repeats
  <2>2. /\ SameSession(w.inv[Peer(u)], v.inv[Peer(u)])
        /\ SameDeal(w.neg[Peer(u)], v.neg[Peer(u)])
    BY DEF Moves
  <2>3. QED
    BY <1>1, <2>1, <2>2 DEF SameSession
<1>4. \A e, s : Open(v, s, e) = Open(w, s, e)
  BY <1>2 DEF Open, Twin
<1>5. \A e \in Ends : \A s : Serving(v, s, e) = Serving(w, s, e)
  BY <1>2, <1>3 DEF Serving, Twin
<1>6. \A e, s : Carried(v, s, e) = Carried(w, s, e)
  <2>1. \A e, s : Open(w, s, e) => Twin(w.tsx[s], v.tsx[s])
    BY <1>2 DEF Open
  <2>2. QED
    BY <1>4, <2>1 DEF Carried, Twin
<1>7. \A e \in Ends : \A s : Asked(v, s, e) = Asked(w, s, e)
  <2>1. \A e, s : Serving(w, s, e) => Twin(w.tsx[s], v.tsx[s])
    BY <1>2 DEF Serving
  <2>2. \A e \in Ends : v.neg[e].state = w.neg[e].state
    BY <1>3 DEF SameDeal
  <2>3. QED
    BY <1>5, <2>1, <2>2 DEF Asked, Twin
<1>8. \A e \in Ends : Stuck(v, e) = Stuck(w, e)
  BY <1>2, <1>3, <1>4, <1>5 DEF Stuck, SameDeal
<1>9. QED
  BY <1>2, <1>3, <1>4, <1>5, <1>6, <1>7, <1>8

\* What the ends agreed on stays.
LEMMA RepeatsAgreed ==
  ASSUME NEW w, Runs(w), Dealing(w), NEW u \in Ends, NEW t,
         NEW v, Moves(w, v, u, t), Repeats(w, v, u, t), Joined(v)
  PROVE  Agreed(v)
<1> DEFINE P == Peer(u)
<1>1. /\ P \in Ends /\ P # u /\ Peer(P) = u /\ \A e \in Ends : e = u \/ e = P
  BY Basics DEF Ends
<1>2. /\ Indices(v) = Indices(w)
      /\ \A e \in Ends : /\ v.inv[e].state = w.inv[e].state
                         /\ v.inv[e].invite_tsx = w.inv[e].invite_tsx
                         /\ SameDeal(w.neg[e], v.neg[e])
      /\ \A i \in Indices(w) : Twin(w.tsx[i], v.tsx[i])
      /\ \A e, s : Open(v, s, e) = Open(w, s, e)
      /\ \A e \in Ends : \A s : Serving(v, s, e) = Serving(w, s, e)
      /\ \A e, s : Carried(v, s, e) = Carried(w, s, e)
      /\ \A e \in Ends : \A s : Asked(v, s, e) = Asked(w, s, e)
      /\ \A e \in Ends : Stuck(v, e) = Stuck(w, e)
  BY RepeatsSame
<1>3. /\ t \in Indices(w) /\ w.tsx[t].from = u
      /\ v.inv[P].last_ack = w.inv[P].last_ack /\ v.inv[P].last_ack_cseq = w.inv[P].last_ack_cseq
      /\ v.inv[u].last_ack_cseq = t
      /\ w.inv[u].last_ack_cseq = t => v.inv[u].last_ack = w.inv[u].last_ack
      /\ v.acks = w.acks \cup {[t |-> t, sdp |-> v.inv[u].last_ack]}
      /\ w.inv[P].invite_tsx = t
  <2>1. w.inv[P].invite_tsx = t
    BY DEF Repeats, Dealing, Requests
  <2>2. QED
    BY <2>1 DEF Repeats, Moves, SameSession
<1>4. Joined(w)
  BY <1>2 DEF Joined
<1>5. Agreed(w)
  BY <1>4 DEF Dealing
<1>6. \A s : Asked(w, s, P) => s = t /\ w.inv[u].last_ack_cseq = t
                               /\ v.inv[u].last_ack = w.inv[u].last_ack
  <2>1. SUFFICES ASSUME NEW s, Asked(w, s, P)
                 PROVE  s = t /\ w.inv[u].last_ack_cseq = t
    BY <1>3
  <2>2. s = t /\ s \in Indices(w)
    BY <1>3, <2>1 DEF Asked, Serving
  <2>3. Rests(w, s, P)
    BY <1>1, <1>5, <2>2 DEF Agreed
  <2>4. QED
    BY <1>1, <2>1, <2>2, <2>3 DEF Rests
<1>7. \A s : Acked(v, s, u) = Acked(w, s, u) /\ Acked(v, s, P) = Acked(w, s, P)
  BY <1>1, <1>2, <1>3, <1>6 DEF Acked
<1>8. Due(v, u) = Due(w, u) /\ Due(v, P) = Due(w, P)
  BY <1>2, <1>7 DEF Due
<1>9. Matched(w) => Matched(v)
  BY <1>2 DEF Matched, SameDeal, Ends
<1>10. ASSUME NEW e \in Ends, NEW s \in Indices(w)
       PROVE  Rests(v, s, e)
  <2>1. Rests(w, s, e) /\ Twin(w.tsx[s], v.tsx[s])
    BY <1>2, <1>5 DEF Agreed
  <2>2. Peer(e) \in Ends
    BY Basics
  <2>3. /\ SameDeal(w.neg[e], v.neg[e]) /\ SameDeal(w.neg[Peer(e)], v.neg[Peer(e)])
    BY <1>2, <2>2
  <2>4. Carried(v, s, e) =>
          /\ v.tsx[s].status < 300
          /\ v.neg[Peer(e)].active_remote.sdp = v.tsx[s].sdp
          /\ v.neg[Peer(e)].active_local.sdp = v.tsx[s].body
    <3>1. /\ v.tsx[s].status = w.tsx[s].status /\ v.tsx[s].sdp = w.tsx[s].sdp
          /\ v.tsx[s].body = w.tsx[s].body
      BY <2>1 DEF Twin
    <3>2. /\ v.neg[Peer(e)].active_remote.sdp = w.neg[Peer(e)].active_remote.sdp
          /\ v.neg[Peer(e)].active_local.sdp = w.neg[Peer(e)].active_local.sdp
      BY <2>3 DEF SameDeal
    <3>3. Carried(w, s, e) =>
            /\ w.tsx[s].status < 300
            /\ w.neg[Peer(e)].active_remote.sdp = w.tsx[s].sdp
            /\ w.neg[Peer(e)].active_local.sdp = w.tsx[s].body
      BY <2>1 DEF Rests
    <3>4. QED
      BY <1>2, <3>1, <3>2, <3>3
  <2>5. Acked(v, s, e) => Acked(w, s, e) /\ v.inv[Peer(e)].last_ack = w.inv[Peer(e)].last_ack
    BY <1>1, <1>3, <1>6, <1>7 DEF Acked
  <2>6. Acked(v, s, e) =>
          /\ v.neg[Peer(e)].active_remote.sdp = v.neg[e].local.sdp
          /\ v.neg[Peer(e)].active_local.sdp = v.inv[Peer(e)].last_ack
    BY <2>1, <2>3, <2>5 DEF Rests, SameDeal
  <2>7. ASSUME Asked(v, s, e)
        PROVE  /\ v.inv[Peer(e)].last_ack_cseq = s
               /\ \A ack \in v.acks : ack.t = s => ack.sdp = v.inv[Peer(e)].last_ack
    <3>1. /\ Asked(w, s, e)
          /\ w.inv[Peer(e)].last_ack_cseq = s
          /\ \A ack \in w.acks : ack.t = s => ack.sdp = w.inv[Peer(e)].last_ack
      BY <1>2, <2>1, <2>7 DEF Rests
    <3>2. CASE e = P
      <4>1. s = t /\ v.inv[u].last_ack = w.inv[u].last_ack
        BY <1>6, <3>1, <3>2
      <4>2. QED
        BY <1>1, <1>3, <3>1, <3>2, <4>1
    <3>3. CASE e = u
      <4>1. s # t
        BY <1>1, <1>3, <3>1, <3>3 DEF Asked, Serving
      <4>2. \A ack \in v.acks : ack.t = s => ack \in w.acks
        BY <1>3, <4>1
      <4>3. QED
        BY <1>3, <3>1, <3>3, <4>2
    <3>4. QED
      BY <1>1, <3>2, <3>3
  <2>8. Open(v, s, Peer(e)) /\ v.tsx[s].sdp = 0 /\ v.tsx[s].body # 0 =>
          \/ Stuck(v, e)
          \/ Serving(v, s, e) /\ ~v.tsx[s].answered /\ v.neg[e].state = "LOCAL_OFFER"
             /\ v.neg[e].local.sdp = v.tsx[s].body
    BY <1>2, <2>1, <2>3, SMTT(60) DEF Rests, Twin, SameDeal
  <2>9. QED
    BY <2>4, <2>6, <2>7, <2>8 DEF Rests
<1>11. QED
  BY <1>1, <1>2, <1>5, <1>8, <1>9, <1>10 DEF Agreed

\* The same ACK again keeps the invariant.
LEMMA RepeatsDealing ==
  ASSUME NEW w, Runs(w), Dealing(w), NEW u \in Ends, NEW t,
         NEW v, Moves(w, v, u, t), Repeats(w, v, u, t)
  PROVE  Dealing(v)
<1>1. /\ Indices(v) = Indices(w)
      /\ \A e \in Ends : /\ v.inv[e].state = w.inv[e].state
                         /\ v.inv[e].invite_tsx = w.inv[e].invite_tsx
                         /\ SameDeal(w.neg[e], v.neg[e])
      /\ \A i \in Indices(w) : Twin(w.tsx[i], v.tsx[i])
      /\ \A e, s : Open(v, s, e) = Open(w, s, e)
      /\ \A e \in Ends : \A s : Serving(v, s, e) = Serving(w, s, e)
  BY RepeatsSame
<1>2. /\ 1 \in Indices(w) /\ "caller" \in Ends /\ "callee" \in Ends
      /\ Peer(u) \in Ends /\ Peer(Peer(u)) = u
  BY Basics
<1>3. /\ v.inv[u].last_ack_cseq = t /\ t \in Indices(w)
      /\ v.acks = w.acks \cup {[t |-> t, sdp |-> v.inv[u].last_ack]}
      /\ w.tsx[t].method = "INVITE" /\ v.tsx[t].client = "terminated"
      /\ v.tsx[t].server = "completed" /\ v.tsx[t].status < 300
  BY <1>1 DEF Repeats, Twin
<1>4. /\ Notes(w) /\ Requests(w) /\ Connecting(w)
  BY DEF Dealing
<1>5. /\ ~v.neg[u].has_remote_answer
      /\ v.inv[u].state \in {"NULL", "DISCONNECTED"} => v.neg[u].state = "NULL"
  BY <1>1, <1>4 DEF Notes, SameDeal
<1>6. \A s \in Indices(v) :
            s # 1 /\ v.tsx[s].from = u /\ v.tsx[s].method \in {"INVITE", "UPDATE"}
            => v.inv[u].state = "CONFIRMED"
  BY <1>1, <1>4 DEF Requests, Twin
<1>7. \A s \in Indices(w) :
            /\ w.tsx[s].from = Peer(u) /\ w.tsx[s].method = "INVITE"
            /\ v.tsx[s].server \in {"proceeding", "completed"} /\ v.tsx[s].status < 300
            => v.inv[u].invite_tsx = s
  BY <1>1, <1>2, <1>4 DEF Requests, Twin
<1>8. v.inv[u].state = "CONNECTING" =>
            /\ u = "callee" /\ v.inv[u].invite_tsx = 1
            /\ v.tsx[1].server = "completed" /\ v.tsx[1].status < 300
            /\ \A s \in Indices(w) :
                  s # 1 /\ w.tsx[s].method = "INVITE" => v.tsx[s].status \notin 200..299
  BY <1>1, <1>2, <1>4 DEF Connecting, Twin
<1>9. ASSUME v.inv[u].state = "CONFIRMED"
      PROVE  Steady(v, u)
  <2>1. Steady(w, u)
    BY <1>1, <1>9 DEF Dealing
  <2>2. \A s : Open(v, s, u) => AsksFor(v, s, u)
    <3>1. SUFFICES ASSUME NEW s, Open(v, s, u) PROVE AsksFor(v, s, u)
      OBVIOUS
    <3>2. s \in Indices(w) /\ Open(w, s, u)
      BY <1>1, <3>1 DEF Open
    <3>3. AsksFor(w, s, u)
      BY <2>1, <3>2 DEF Steady
    <3>4. QED
      BY <1>1, <3>2, <3>3 DEF AsksFor, Twin, SameDeal
  <2>3. \A s : Serving(v, s, u) => Answers(v, s, u)
    <3>1. SUFFICES ASSUME NEW s, Serving(v, s, u) PROVE Answers(v, s, u)
      OBVIOUS
    <3>2. s \in Indices(w) /\ Serving(w, s, u)
      BY <1>1, <3>1 DEF Serving
    <3>3. Answers(w, s, u)
      BY <2>1, <3>2 DEF Steady
    <3>4. QED
      BY <1>1, <3>2, <3>3 DEF Answers, Twin, SameDeal
  <2>4. QED
    BY <1>1, <2>1, <2>2, <2>3 DEF Steady, SameDeal
<1>10. v.inv["callee"].state \in {"INCOMING", "EARLY", "CONNECTING"} => CalleeRings(v)
  <2>1. v.inv["callee"].state \in {"INCOMING", "EARLY", "CONNECTING"} => CalleeRings(w)
    BY <1>1, <1>2 DEF Dealing
  <2>2. QED
    BY <1>1, <1>2, <2>1 DEF CalleeRings, Twin, SameDeal
<1>11. v.inv["caller"].state \in {"CALLING", "EARLY"} => CallerRings(v)
  <2>1. v.inv["caller"].state \in {"CALLING", "EARLY"} => CallerRings(w)
    BY <1>1, <1>2 DEF Dealing
  <2>2. QED
    BY <1>1, <1>2, <2>1 DEF CallerRings, Twin, SameDeal
<1>12. Joined(v) => Agreed(v)
  BY RepeatsAgreed
<1>13. v.inv[u].last_ack_cseq # 0 =>
            /\ v.inv[u].last_ack_cseq \in Indices(v)
            /\ v.tsx[v.inv[u].last_ack_cseq].client # "calling"
  BY <1>1, <1>3
<1>14. /\ \A ack \in v.acks : ack.t = t \/ ack \in w.acks
       /\ \A ack \in v.acks : ack.t = t =>
            /\ t \in Indices(w) /\ w.tsx[t].method = "INVITE" /\ v.tsx[t].client = "terminated"
            /\ v.tsx[t].server \in {"completed", "terminated"} /\ v.tsx[t].status < 300
  BY <1>3
<1>15. Unheard(v)
  <2>1. Unheard(w)
    BY DEF Dealing
  <2>2. QED
    BY <1>1, <1>2, <2>1 DEF Unheard, Twin
<1>16. QED
  BY <1>5, <1>6, <1>7, <1>8, <1>9, <1>10, <1>11, <1>12, <1>13, <1>14, <1>15, MovesDealing

-----------------------------------------------------------------------------
(* The first INVITE *)

\* While an end rings, there is no other request that can carry an offer.
LEMMA RingsAlone ==
  ASSUME NEW w, Runs(w), Dealing(w), NEW u \in Ends,
         w.inv[u].state \in {"NULL", "CALLING", "INCOMING", "EARLY"}
  PROVE  \A s \in Indices(w) : w.tsx[s].method \in {"INVITE", "UPDATE"} => s = 1
<1>1. SUFFICES ASSUME NEW s \in Indices(w), s # 1, w.tsx[s].method \in {"INVITE", "UPDATE"}
               PROVE  FALSE
  OBVIOUS
<1>2. w.tsx[s].from \in Ends /\ w.inv[w.tsx[s].from].state = "CONFIRMED"
  BY <1>1, Basics DEF Dealing, Requests
<1>3. \A e \in Ends : e = "caller" \/ e = "callee"
  BY DEF Ends
<1>4. \/ u = "caller" /\ w.inv["callee"].state = "CONFIRMED"
      \/ u = "callee" /\ w.inv["caller"].state = "CONFIRMED"
  BY <1>2, <1>3
<1>5. QED
  BY <1>4, Bearings

\* What an end that rings has to see to when it acts on the first INVITE.
LEMMA RingsDealing ==
  ASSUME NEW w, Runs(w), Dealing(w), NEW u \in Ends,
         w.inv[u].state \in {"NULL", "CALLING", "INCOMING", "EARLY"},
         NEW v, Moves(w, v, u, 1), v.acks \subseteq w.acks,
         \A s \in Indices(v) : s \notin Indices(w) => v.tsx[s].method \notin {"INVITE", "UPDATE"},
         ~v.neg[u].has_remote_answer,
         v.inv[u].state \in {"NULL", "DISCONNECTED"} => v.neg[u].state = "NULL",
         v.inv[u].last_ack_cseq \in {0, w.inv[u].last_ack_cseq},
         v.inv[u].state # "CONFIRMED",
         u = "callee" /\ v.tsx[1].server \in {"proceeding", "completed"} /\ v.tsx[1].status < 300
            => v.inv[u].invite_tsx = 1,
         v.inv[u].state = "CONNECTING" =>
            u = "callee" /\ v.tsx[1].server = "completed" /\ v.tsx[1].status < 300,
         u = "callee" => w.tsx[1].server \notin {"completed", "terminated"},
         u = "callee" /\ v.inv[u].state \in {"INCOMING", "EARLY", "CONNECTING"} => CalleeRings(v),
         v.inv["caller"].state \in {"CALLING", "EARLY"} => CallerRings(v),
         v.inv[u].state = "NULL" => Unheard(v),
         Joined(v) => Agreed(v)
  PROVE  Dealing(v)
<1>1. /\ 1 \in Indices(w) /\ Peer(u) \in Ends /\ Peer(u) # u /\ w.tsx[1].from = "caller"
      /\ \A e \in Ends : e = "caller" \/ e = "callee"
      /\ Peer("caller") = "callee" /\ Peer("callee") = "caller"
  BY Basics DEF Ends
<1>2. \A s \in Indices(w) : w.tsx[s].method \in {"INVITE", "UPDATE"} => s = 1
  BY RingsAlone
<1>3. v.inv[u].last_ack_cseq # 0 =>
            /\ v.inv[u].last_ack_cseq \in Indices(v)
            /\ v.tsx[v.inv[u].last_ack_cseq].client # "calling"
  <2>1. SUFFICES ASSUME NEW s, s = w.inv[u].last_ack_cseq, s # 0
                 PROVE  s \in Indices(v) /\ v.tsx[s].client # "calling"
    OBVIOUS
  <2>2. s \in Indices(w) /\ w.tsx[s].client # "calling"
    BY <2>1 DEF Dealing, Notes
  <2>3. v.tsx[s].client # "calling"
    BY <2>2 DEF Moves
  <2>4. QED
    BY <2>2, <2>3, MovesOpen
<1>4. \A ack \in v.acks : ack \in w.acks /\ ack.t # 1
  <2>1. SUFFICES ASSUME NEW ack \in w.acks, ack.t = 1
                 PROVE  FALSE
    OBVIOUS
  <2>2. w.tsx[1].client = "terminated" /\ w.tsx[1].server \in {"completed", "terminated"}
    BY <2>1 DEF Dealing, Accepted
  <2>3. u = "caller"
    BY <1>1, <2>2
  <2>4. w.inv["caller"].state \in {"CALLING", "EARLY"}
    BY <2>3, Bearings
  <2>5. QED
    BY <2>2, <2>4, Bearings
<1>5. \A s \in Indices(v) :
            s # 1 /\ v.tsx[s].from = u /\ v.tsx[s].method \in {"INVITE", "UPDATE"}
            => v.inv[u].state = "CONFIRMED"
  <2>1. \A s \in Indices(w) : v.tsx[s].method = w.tsx[s].method
    BY DEF Moves
  <2>2. QED
    BY <1>2, <2>1
<1>6. \A s \in Indices(w) :
            /\ w.tsx[s].from = Peer(u) /\ w.tsx[s].method = "INVITE"
            /\ v.tsx[s].server \in {"proceeding", "completed"} /\ v.tsx[s].status < 300
            => v.inv[u].invite_tsx = s
  <2>1. SUFFICES ASSUME w.tsx[1].from = Peer(u), v.tsx[1].server \in {"proceeding", "completed"},
                        v.tsx[1].status < 300
                 PROVE  v.inv[u].invite_tsx = 1
    BY <1>2
  <2>2. u = "callee"
    BY <1>1, <2>1
  <2>3. QED
    BY <2>1, <2>2
<1>7. v.inv[u].state = "CONNECTING" =>
            /\ u = "callee" /\ v.inv[u].invite_tsx = 1
            /\ v.tsx[1].server = "completed" /\ v.tsx[1].status < 300
            /\ \A s \in Indices(w) :
                  s # 1 /\ w.tsx[s].method = "INVITE" => v.tsx[s].status \notin 200..299
  <2>1. \A s \in Indices(w) : ~(s # 1 /\ w.tsx[s].method = "INVITE")
    BY <1>2
  <2>2. QED
    BY <2>1
<1>8. QED
  BY <1>3, <1>4, <1>5, <1>6, <1>7, MovesDealing

\* The end u gives up, or refuses the call, before there is one.
Leaves(w, v, u) ==
    /\ w.inv[u].state \in {"CALLING", "INCOMING", "EARLY"} /\ v.inv[u].state = "DISCONNECTED"
    /\ v.neg[u].state = "NULL" /\ ~v.neg[u].has_remote_answer /\ v.inv[u].last_ack_cseq = 0
    /\ Len(v.tsx) = Len(w.tsx) /\ v.acks = w.acks
    /\ u = "callee" => v.tsx[1].status >= 300

\* Then nothing has to be agreed on.
LEMMA LeavesDealing ==
  ASSUME NEW w, Runs(w), Dealing(w), NEW u \in Ends, NEW v, Moves(w, v, u, 1), Leaves(w, v, u)
  PROVE  Dealing(v)
<1>1. /\ 1 \in Indices(w) /\ w.tsx[1].from = "caller" /\ w.tsx[1].method = "INVITE"
      /\ \A e \in Ends : e = "caller" \/ e = "callee"
      /\ Peer("caller") = "callee" /\ Peer("callee") = "caller"
  BY Basics DEF Ends
<1>2. u = "callee" => w.tsx[1].server = "proceeding"
  BY Bearings DEF Leaves
<1>3. ~Joined(v)
  BY DEF Joined, Leaves
<1>4. v.inv["caller"].state \in {"CALLING", "EARLY"} => CallerRings(v)
  <2>1. SUFFICES ASSUME v.inv["caller"].state \in {"CALLING", "EARLY"}
                 PROVE  CallerRings(v)
    OBVIOUS
  <2>2. u = "callee"
    BY <1>1, <2>1 DEF Leaves
  <2>3. /\ SameSession(w.inv["caller"], v.inv["caller"])
        /\ SameDeal(w.neg["caller"], v.neg["caller"])
        /\ v.tsx[1].sdp = w.tsx[1].sdp /\ v.tsx[1].done = w.tsx[1].done
    BY <1>1, <2>2 DEF Moves, SameClient
  <2>4. CallerRings(w)
    BY <2>1, <2>3 DEF Dealing, SameSession
  <2>5. v.inv["callee"].state = "DISCONNECTED"
    BY <2>2 DEF Leaves
  <2>6. QED
    BY <2>3, <2>4, <2>5 DEF CallerRings, SameDeal
<1>5. \A s \in Indices(v) : s \in Indices(w)
  BY DEF Leaves, Indices
<1>6. u = "callee" => ~(v.tsx[1].status < 300)
  <2>1. u = "callee" => v.tsx[1].status \in Nat /\ v.tsx[1].status >= 300
    <3>1. 1 \in Indices(v) /\ Sound(v)
      BY <1>1 DEF Leaves, Indices, Moves
    <3>2. v.tsx[1] \in Transactions(Nat, Nat)
      BY <3>1, SoundParts DEF Indices
    <3>3. QED
      BY <3>2 DEF Leaves, Transactions
  <2>2. QED
    BY <2>1
<1>7. QED
  BY <1>2, <1>3, <1>4, <1>5, <1>6, RingsDealing DEF Leaves

\* The INVITE reaches the callee.
Invited(w, v) ==
    LET x == w.tsx[1]
        y == v.tsx[1]
        n == v.neg["callee"]
    IN  /\ w.inv["callee"].state = "NULL" /\ v.inv["callee"].state = "INCOMING"
        /\ x.server = "none" /\ y.server = "proceeding" /\ y.status = 100 /\ y.body = 0
        /\ y.answered = x.answered
        /\ Len(v.tsx) = Len(w.tsx) /\ v.acks = w.acks
        /\ v.inv["callee"].invite_tsx = 1
        /\ v.inv["callee"].last_ack_cseq = w.inv["callee"].last_ack_cseq
        /\ ~n.has_remote_answer
        /\ n.active_local.sdp = w.neg["callee"].active_local.sdp
        /\ n.active_remote.sdp = w.neg["callee"].active_remote.sdp
        /\ IF x.sdp = 0 THEN n.state = "NULL" ELSE n.state = "REMOTE_OFFER" /\ n.remote.sdp = x.sdp

\* The callee has the offer, if there is one.
LEMMA InvitedDealing ==
  ASSUME NEW w, Runs(w), Dealing(w), NEW v, Moves(w, v, "callee", 1), Invited(w, v)
  PROVE  Dealing(v)
<1>1. /\ 1 \in Indices(w) /\ w.tsx[1].from = "caller" /\ w.tsx[1].method = "INVITE"
      /\ \A e \in Ends : e = "caller" \/ e = "callee"
      /\ Peer("caller") = "callee" /\ Peer("callee") = "caller"
      /\ "callee" \in Ends /\ "caller" \in Ends
  BY Basics DEF Ends
<1>2. /\ w.tsx[1].body = 0 /\ ~w.tsx[1].answered /\ w.neg["callee"].state = "NULL"
  BY <1>1 DEF Invited, Dealing, Requests, Notes
<1>3. /\ SameSession(w.inv["caller"], v.inv["caller"])
      /\ SameDeal(w.neg["caller"], v.neg["caller"])
      /\ SameClient(w.tsx[1], v.tsx[1]) /\ v.tsx[1].sdp = w.tsx[1].sdp
      /\ v.tsx[1].method = "INVITE" /\ v.tsx[1].from = "caller"
  BY <1>1 DEF Moves
<1>4. CalleeRings(v)
  BY <1>2, <1>3 DEF Invited, CalleeRings
<1>5. v.inv["caller"].state \in {"CALLING", "EARLY"} => CallerRings(v)
  <2>1. SUFFICES ASSUME v.inv["caller"].state \in {"CALLING", "EARLY"}
                 PROVE  CallerRings(v)
    OBVIOUS
  <2>2. CallerRings(w)
    BY <1>3, <2>1 DEF Dealing, SameSession
  <2>3. w.inv["callee"].state = "NULL" /\ v.inv["callee"].state = "INCOMING"
    BY DEF Invited
  <2>4. QED
    BY <1>2, <1>3, <2>2, <2>3 DEF CallerRings, SameDeal, SameClient
<1>6. Indices(v) = Indices(w)
  BY DEF Invited, Indices
<1>7. \A s \in Indices(w) : w.tsx[s].method \in {"INVITE", "UPDATE"} => s = 1
  BY <1>1, RingsAlone DEF Invited
<1>8. Joined(v) => Agreed(v)
  <2>1. SUFFICES ASSUME Joined(v) PROVE Agreed(v)
    OBVIOUS
  <2>2. w.inv["caller"].state \in {"CALLING", "EARLY"} /\ w.tsx[1].client = "calling"
    <3>1. w.inv["caller"].state \in {"NULL", "CALLING", "DISCONNECTED"}
      BY DEF Runs, Begun, Course, Invited
    <3>2. w.inv["caller"].state # "DISCONNECTED"
      BY <1>1, <1>3, <2>1 DEF Joined, SameSession
    <3>3. QED
      BY <3>1, <3>2, Bearings
  <2>3. Joined(w)
    BY <1>1, <1>3, <2>1 DEF Joined, SameSession, Invited
  <2>4. Matched(w)
    BY <1>2, <2>2, <2>3, RingingWas DEF Carried
  <2>5. Matched(v)
    BY <1>3, <2>4 DEF Matched, SameDeal, Invited
  <2>6. v.tsx[1].body = 0 /\ v.tsx[1].client = "calling" /\ ~Carried(v, 1, "caller")
    BY <1>3, <2>2 DEF Invited, SameClient, Carried
  <2>7. \A e \in Ends : v.inv[e].state # "CONFIRMED"
    BY <1>1, <1>3, <2>2 DEF Invited, SameSession
  <2>8. Requests(v)
    <3>1. \A s \in Indices(w) : v.tsx[s].method = w.tsx[s].method
      BY DEF Moves
    <3>2. \A s \in Indices(v) :
             v.tsx[s].server = "none" => v.tsx[s].body = 0 /\ ~v.tsx[s].answered
      BY <1>6 DEF Moves
    <3>3. v.inv["callee"].invite_tsx = 1
      BY DEF Invited
    <3>4. QED
      BY <1>1, <1>3, <1>6, <1>7, <3>1, <3>2, <3>3 DEF Requests
  <2>9. \A t \in Indices(v) : v.tsx[t].from \in Ends
    BY <1>6, Basics DEF Moves
  <2>10. QED
    BY <1>1, <1>3, <1>6, <2>5, <2>6, <2>7, <2>8, <2>9, RingingIs
<1>9. /\ v.inv["callee"].state = "INCOMING" /\ v.inv["callee"].invite_tsx = 1
      /\ ~v.neg["callee"].has_remote_answer /\ v.acks \subseteq w.acks
      /\ v.inv["callee"].last_ack_cseq \in {0, w.inv["callee"].last_ack_cseq}
      /\ w.inv["callee"].state = "NULL" /\ w.tsx[1].server = "none"
  BY DEF Invited
<1>10. \A s \in Indices(v) : s \in Indices(w)
  BY <1>6
<1>11. QED
  BY <1>1, <1>4, <1>5, <1>8, <1>9, <1>10, RingsDealing

\* Requests stay in order when an end that rings acts on the first INVITE.
LEMMA RingsRequests ==
  ASSUME NEW w, Runs(w), Dealing(w), NEW u \in Ends,
         w.inv[u].state \in {"NULL", "CALLING", "INCOMING", "EARLY"},
         NEW v, Moves(w, v, u, 1),
         \A s \in Indices(v) : s \notin Indices(w) => v.tsx[s].method \notin {"INVITE", "UPDATE"},
         v.tsx[1].server \in {"proceeding", "completed"} /\ v.tsx[1].status < 300
            => v.inv["callee"].invite_tsx = 1
  PROVE  Requests(v) /\ \A t \in Indices(v) : v.tsx[t].from \in Ends
<1>1. /\ \A s \in Indices(w) : w.tsx[s].method \in {"INVITE", "UPDATE"} => s = 1
      /\ \A s \in Indices(w) : /\ v.tsx[s].method = w.tsx[s].method
                               /\ v.tsx[s].from = w.tsx[s].from /\ w.tsx[s].from \in Ends
                               /\ v.tsx[s].server = "none" =>
                                     v.tsx[s].body = 0 /\ ~v.tsx[s].answered
      /\ \A s \in Indices(v) : s \notin Indices(w) => Fresh(v.tsx[s], u)
  <2>1. \A s \in Indices(w) : w.tsx[s].from \in Ends
    BY Basics
  <2>2. QED
    BY <2>1, RingsAlone DEF Moves
<1>2. w.tsx[1].from = "caller" /\ Peer("caller") = "callee" /\ 1 \in Indices(w)
  BY Basics
<1>3. \A t \in Indices(v) : v.tsx[t].from \in Ends
  BY <1>1 DEF Fresh
<1>4. \A s \in Indices(v) : v.tsx[s].method \in {"INVITE", "UPDATE"} => s = 1
  BY <1>1
<1>5. \A s \in Indices(v) : v.tsx[s].server = "none" => v.tsx[s].body = 0 /\ ~v.tsx[s].answered
  BY <1>1 DEF Fresh
<1>6. v.tsx[1].from = "caller"
  BY <1>1, <1>2
<1>7. Requests(v)
  BY <1>2, <1>4, <1>5, <1>6 DEF Requests
<1>8. QED
  BY <1>3, <1>7

\* The callee answers the INVITE, provisionally or for good.
Replies(w, v) ==
    LET x == w.tsx[1]
        y == v.tsx[1]
        n == w.neg["callee"]
        m == v.neg["callee"]
        r == w.inv["callee"]
        s == v.inv["callee"]
    IN  /\ r.state \in {"INCOMING", "EARLY"}
        /\ \/ s.state = "EARLY" /\ y.server = "proceeding"
           \/ /\ s.state = "CONNECTING" /\ y.server = "completed"
              /\ m.state \in {"DONE", "LOCAL_OFFER"}
        /\ y.status < 300 /\ s.invite_tsx = 1 /\ s.last_ack_cseq = r.last_ack_cseq
        /\ ~m.has_remote_answer /\ Len(v.tsx) = Len(w.tsx) /\ v.acks = w.acks
        /\ \/ SameDeal(n, m) /\ y.body = x.body /\ y.answered = x.answered
           \/ /\ n.state = "REMOTE_OFFER" /\ m.state = "DONE" /\ y.answered /\ y.body # 0
              /\ m.active_local.sdp = y.body /\ m.active_remote.sdp = n.remote.sdp
           \/ /\ n.state = "NULL" /\ m.state = "LOCAL_OFFER" /\ y.answered = x.answered
              /\ m.local.sdp = y.body /\ y.body # 0
              /\ m.active_local.sdp = n.active_local.sdp
              /\ m.active_remote.sdp = n.active_remote.sdp

\* What the response carries is the callee's answer or its offer.
LEMMA RepliesDealing ==
  ASSUME NEW w, Runs(w), Dealing(w), NEW v, Moves(w, v, "callee", 1), Replies(w, v)
  PROVE  Dealing(v)
<1>1. /\ 1 \in Indices(w) /\ w.tsx[1].from = "caller" /\ w.tsx[1].method = "INVITE"
      /\ \A e \in Ends : e = "caller" \/ e = "callee"
      /\ Peer("caller") = "callee" /\ Peer("callee") = "caller"
      /\ "callee" \in Ends /\ "caller" \in Ends
  BY Basics DEF Ends
<1>2. /\ SameSession(w.inv["caller"], v.inv["caller"])
      /\ SameDeal(w.neg["caller"], v.neg["caller"])
      /\ SameClient(w.tsx[1], v.tsx[1]) /\ v.tsx[1].sdp = w.tsx[1].sdp
      /\ v.tsx[1].method = "INVITE" /\ v.tsx[1].from = "caller"
  BY <1>1 DEF Moves
<1>3. CalleeRings(w) /\ w.tsx[1].server = "proceeding"
  <2>1. w.inv["callee"].state \in {"INCOMING", "EARLY"}
    BY DEF Replies
  <2>2. QED
    BY <2>1, Bearings DEF Dealing
<1>4. CalleeRings(v)
  <2>1. v.tsx[1].sdp = w.tsx[1].sdp
    BY <1>2
  <2>2. v.inv["callee"].state = "CONNECTING" => v.neg["callee"].state \in {"DONE", "LOCAL_OFFER"}
    BY DEF Replies
  <2>3. QED
    BY <1>3, <2>1, <2>2 DEF Replies, CalleeRings, SameDeal
<1>5. /\ w.inv["callee"].state \in {"INCOMING", "EARLY"}
      /\ v.inv["callee"].state \in {"EARLY", "CONNECTING"}
      /\ v.tsx[1].server \in {"proceeding", "completed"} /\ v.tsx[1].status < 300
      /\ v.inv["callee"].invite_tsx = 1
      /\ Len(v.tsx) = Len(w.tsx) /\ v.acks = w.acks
      /\ ~v.neg["callee"].has_remote_answer
      /\ v.inv["callee"].last_ack_cseq = w.inv["callee"].last_ack_cseq
      /\ v.inv["callee"].state = "CONNECTING" => v.tsx[1].server = "completed"
  BY DEF Replies
<1>6. Indices(v) = Indices(w)
  BY <1>5 DEF Indices
<1>7. v.inv["caller"].state \in {"CALLING", "EARLY"} => CallerRings(v)
  <2>1. SUFFICES ASSUME v.inv["caller"].state \in {"CALLING", "EARLY"}
                 PROVE  CallerRings(v)
    OBVIOUS
  <2>2. CallerRings(w)
    BY <1>2, <2>1 DEF Dealing, SameSession
  <2>3. /\ w.inv["callee"].state \notin {"DISCONNECTED", "CONFIRMED"}
        /\ v.inv["callee"].state \notin {"DISCONNECTED", "CONFIRMED"}
    BY <1>5
  <2>4. w.neg["caller"].state \in {"WAIT_NEGO", "REMOTE_OFFER"} =>
           /\ v.neg["callee"].state = "LOCAL_OFFER"
           /\ v.neg["callee"].local.sdp = w.neg["callee"].local.sdp
    <3>1. w.neg["caller"].state \in {"WAIT_NEGO", "REMOTE_OFFER"} =>
             w.neg["callee"].state = "LOCAL_OFFER"
      BY <2>2, <2>3 DEF CallerRings
    <3>2. QED
      BY <3>1 DEF Replies, SameDeal
  <2>5. w.neg["caller"].state = "DONE" => v.tsx[1].body # 0 /\ v.tsx[1].answered
    <3>1. w.neg["caller"].state = "DONE" => w.tsx[1].body # 0 /\ w.tsx[1].answered
      BY <2>2, <2>3 DEF CallerRings
    <3>2. QED
      BY <1>3, <3>1 DEF Replies, CalleeRings
  <2>6. QED
    BY <1>2, <2>2, <2>3, <2>4, <2>5 DEF CallerRings, SameDeal, SameClient
<1>8. Joined(v) => Agreed(v)
  <2>1. SUFFICES ASSUME Joined(v) PROVE Agreed(v)
    OBVIOUS
  <2>2. Joined(w)
    BY <1>1, <1>2, <1>5, <2>1 DEF Joined, SameSession
  <2>3. w.inv["caller"].state \in {"CALLING", "EARLY"} /\ w.tsx[1].client = "calling"
    <3>1. w.inv["caller"].state \notin
             {"DISCONNECTED", "CONFIRMED", "NULL", "INCOMING", "CONNECTING"}
      BY <1>1, <1>5, <2>2, Bearings DEF Joined
    <3>2. w.inv["caller"].state \in States
      <4>1. w.inv["caller"] \in Sessions(Nat, Nat)
        BY <1>1, SoundParts DEF Runs, Begun
      <4>2. QED
        BY <4>1 DEF Sessions
    <3>3. QED
      BY <3>1, <3>2, Bearings DEF States
  <2>4. /\ Matched(w) \/ Carried(w, 1, "caller")
        /\ Rests(w, 1, "caller")
    BY <2>2, <2>3, RingingWas
  <2>5. CallerRings(w)
    BY <2>3 DEF Dealing
  <2>6. v.tsx[1].client = "calling" /\ v.tsx[1].done = w.tsx[1].done
    BY <1>2, <2>3 DEF SameClient
  <2>7. Open(w, 1, "caller") /\ Open(v, 1, "caller")
    BY <1>1, <1>2, <1>6, <2>3, <2>6 DEF Open
  <2>8. Carried(v, 1, "caller") =>
            /\ v.tsx[1].status < 300
            /\ v.neg["callee"].active_remote.sdp = v.tsx[1].sdp
            /\ v.neg["callee"].active_local.sdp = v.tsx[1].body
    <3>1. SUFFICES ASSUME Carried(v, 1, "caller")
                   PROVE  /\ v.neg["callee"].active_remote.sdp = v.tsx[1].sdp
                          /\ v.neg["callee"].active_local.sdp = v.tsx[1].body
      BY <1>5
    <3>2. v.tsx[1].sdp # 0 /\ v.tsx[1].body # 0 /\ ~v.tsx[1].done
      BY <3>1 DEF Carried
    <3>3. w.tsx[1].body # 0 => Carried(w, 1, "caller")
      BY <1>2, <2>6, <2>7, <3>2 DEF Carried
    <3>4. w.tsx[1].body # 0 =>
            /\ w.neg["callee"].active_remote.sdp = w.tsx[1].sdp
            /\ w.neg["callee"].active_local.sdp = w.tsx[1].body
      BY <1>1, <2>4, <3>3 DEF Rests
    <3>5. CASE SameDeal(w.neg["callee"], v.neg["callee"]) /\ v.tsx[1].body = w.tsx[1].body
      BY <1>2, <3>2, <3>4, <3>5 DEF SameDeal
    <3>6. CASE /\ w.neg["callee"].state = "REMOTE_OFFER"
               /\ v.neg["callee"].active_local.sdp = v.tsx[1].body
               /\ v.neg["callee"].active_remote.sdp = w.neg["callee"].remote.sdp
      BY <1>2, <1>3, <3>6 DEF CalleeRings
    <3>7. CASE w.neg["callee"].state = "NULL"
      BY <1>2, <1>3, <3>2, <3>7 DEF CalleeRings
    <3>8. QED
      BY <3>5, <3>6, <3>7 DEF Replies
  <2>9. v.tsx[1].sdp = 0 /\ v.tsx[1].body # 0 =>
            /\ Serving(v, 1, "callee") /\ ~v.tsx[1].answered
            /\ v.neg["callee"].state = "LOCAL_OFFER"
            /\ v.neg["callee"].local.sdp = v.tsx[1].body
    <3>1. Serving(v, 1, "callee")
      BY <1>1, <1>2, <1>5, <1>6 DEF Serving
    <3>2. QED
      BY <1>4, <3>1 DEF CalleeRings
  <2>10. Matched(v) \/ Carried(v, 1, "caller")
    <3>1. CASE SameDeal(w.neg["callee"], v.neg["callee"]) /\ v.tsx[1].body = w.tsx[1].body
      BY <1>2, <2>4, <2>6, <2>7, <3>1 DEF SameDeal, Matched, Carried
    <3>2. CASE w.neg["callee"].state = "REMOTE_OFFER" /\ v.tsx[1].body # 0
      <4>1. w.tsx[1].sdp # 0 /\ ~w.tsx[1].answered
        BY <1>3, <3>2 DEF CalleeRings
      <4>2. w.inv["callee"].state # "DISCONNECTED"
        BY <1>5
      <4>3. ~w.tsx[1].done
        BY <2>5, <4>1, <4>2 DEF CallerRings
      <4>4. QED
        BY <1>2, <2>6, <2>7, <3>2, <4>1, <4>3 DEF Carried
    <3>3. CASE /\ w.neg["callee"].state = "NULL"
               /\ v.neg["callee"].active_local.sdp = w.neg["callee"].active_local.sdp
               /\ v.neg["callee"].active_remote.sdp = w.neg["callee"].active_remote.sdp
      <4>1. ~Carried(w, 1, "caller")
        BY <1>3, <3>3 DEF CalleeRings, Carried
      <4>2. QED
        BY <1>2, <2>4, <3>3, <4>1 DEF Matched, SameDeal
    <3>4. QED
      BY <3>1, <3>2, <3>3 DEF Replies
  <2>11. \A e \in Ends : v.inv[e].state # "CONFIRMED"
    BY <1>1, <1>2, <1>5, <2>3 DEF SameSession
  <2>12. Requests(v) /\ \A t \in Indices(v) : v.tsx[t].from \in Ends
    <3>1. w.inv["callee"].state \in {"NULL", "CALLING", "INCOMING", "EARLY"}
      BY <1>5
    <3>2. \A s \in Indices(v) : s \in Indices(w)
      BY <1>6
    <3>3. QED
      BY <1>1, <1>5, <3>1, <3>2, RingsRequests
  <2>13. QED
    BY <1>1, <1>2, <1>6, <2>6, <2>8, <2>9, <2>10, <2>11, <2>12, RingingIs
<1>9. \A s \in Indices(v) : s \in Indices(w)
  BY <1>6
<1>10. QED
  BY <1>1, <1>3, <1>4, <1>5, <1>7, <1>8, <1>9, RingsDealing

\* The caller gets a description before the final response.
Hears(w, v) ==
    LET x == w.tsx[1]
        y == v.tsx[1]
        n == w.neg["caller"]
        m == v.neg["caller"]
        r == w.inv["caller"]
        s == v.inv["caller"]
    IN  /\ r.state \in {"CALLING", "EARLY"} /\ s.state = "EARLY"
        /\ s.last_ack_cseq = r.last_ack_cseq /\ v.acks = w.acks /\ ~m.has_remote_answer
        /\ \A i \in Indices(v) : i \notin Indices(w) => v.tsx[i].method \notin {"INVITE", "UPDATE"}
        /\ x.server = "proceeding" /\ x.body # 0 /\ y.client = "calling"
        /\ \/ /\ n.state = "NULL" /\ m.state \in {"WAIT_NEGO", "REMOTE_OFFER"}
              /\ m.remote.sdp = x.body /\ (m.state = "WAIT_NEGO" => m.local.sdp # 0)
              /\ y.done = x.done
              /\ m.active_local.sdp = n.active_local.sdp
              /\ m.active_remote.sdp = n.active_remote.sdp
           \/ /\ n.state = "LOCAL_OFFER" /\ m.state = "DONE" /\ y.done
              /\ m.active_local.sdp = n.local.sdp /\ m.active_remote.sdp = x.body

\* It is the callee's answer or its offer.
LEMMA HearsDealing ==
  ASSUME NEW w, Runs(w), Dealing(w), NEW v, Moves(w, v, "caller", 1), Hears(w, v)
  PROVE  Dealing(v)
<1>1. /\ 1 \in Indices(w) /\ w.tsx[1].from = "caller" /\ w.tsx[1].method = "INVITE"
      /\ \A e \in Ends : e = "caller" \/ e = "callee"
      /\ Peer("caller") = "callee" /\ Peer("callee") = "caller"
      /\ "callee" \in Ends /\ "caller" \in Ends
  BY Basics DEF Ends
<1>2. /\ SameSession(w.inv["callee"], v.inv["callee"])
      /\ SameDeal(w.neg["callee"], v.neg["callee"])
      /\ SameServer(w.tsx[1], v.tsx[1]) /\ v.tsx[1].sdp = w.tsx[1].sdp
      /\ v.tsx[1].method = "INVITE" /\ v.tsx[1].from = "caller"
  BY <1>1 DEF Moves
<1>3. /\ w.inv["caller"].state \in {"CALLING", "EARLY"} /\ v.inv["caller"].state = "EARLY"
      /\ v.inv["caller"].last_ack_cseq = w.inv["caller"].last_ack_cseq
      /\ v.acks = w.acks /\ ~v.neg["caller"].has_remote_answer
      /\ \A i \in Indices(v) : i \notin Indices(w) => v.tsx[i].method \notin {"INVITE", "UPDATE"}
      /\ w.tsx[1].server = "proceeding" /\ w.tsx[1].body # 0 /\ v.tsx[1].client = "calling"
  BY DEF Hears
<1>4. CallerRings(w) /\ w.tsx[1].client = "calling"
  BY <1>3, Bearings DEF Dealing
<1>5. w.inv["callee"].state # "DISCONNECTED" => CalleeRings(w)
  <2>1. w.inv["callee"].state # "CONFIRMED"
    BY <1>4 DEF CallerRings
  <2>2. w.inv["callee"].state # "NULL"
    BY <1>1, <1>3 DEF Runs, Begun, Course
  <2>3. w.inv["callee"].state # "CALLING"
    BY Bearings
  <2>4. w.inv["callee"].state \in States
    <3>1. w.inv["callee"] \in Sessions(Nat, Nat)
      BY <1>1, SoundParts DEF Runs, Begun
    <3>2. QED
      BY <3>1 DEF Sessions
  <2>5. QED
    BY <2>1, <2>2, <2>3, <2>4 DEF States, Dealing
<1>6. CallerRings(v)
  <2>1. v.inv["callee"].state = w.inv["callee"].state
    BY <1>2 DEF SameSession
  <2>2. w.inv["callee"].state # "CONFIRMED"
    BY <1>4 DEF CallerRings
  <2>3. CASE w.neg["caller"].state = "NULL"
    <3>1. w.tsx[1].sdp = 0 /\ ~w.tsx[1].done
      BY <1>4, <2>3 DEF CallerRings
    <3>2. w.inv["callee"].state # "DISCONNECTED" =>
            w.neg["callee"].state = "LOCAL_OFFER" /\ w.neg["callee"].local.sdp = w.tsx[1].body
      BY <1>3, <1>5, <3>1 DEF CalleeRings
    <3>3. /\ v.neg["caller"].state \in {"WAIT_NEGO", "REMOTE_OFFER"}
          /\ v.neg["caller"].remote.sdp = w.tsx[1].body
          /\ v.neg["caller"].state = "WAIT_NEGO" => v.neg["caller"].local.sdp # 0
          /\ v.tsx[1].done = w.tsx[1].done
      BY <2>3 DEF Hears
    <3>4. QED
      BY <1>2, <2>1, <2>2, <3>1, <3>2, <3>3 DEF CallerRings, SameDeal
  <2>4. CASE w.neg["caller"].state = "LOCAL_OFFER"
    <3>1. w.tsx[1].sdp # 0
      BY <1>4, <2>4 DEF CallerRings
    <3>2. w.inv["callee"].state # "DISCONNECTED" => w.tsx[1].answered
      BY <1>3, <1>5, <3>1 DEF CalleeRings
    <3>3. v.neg["caller"].state = "DONE" /\ v.tsx[1].done
      BY <2>4 DEF Hears
    <3>4. QED
      BY <1>2, <1>3, <2>1, <2>2, <3>1, <3>2, <3>3 DEF CallerRings, SameServer
  <2>5. QED
    BY <2>3, <2>4 DEF Hears
<1>7. Joined(v) => Agreed(v)
  <2>1. SUFFICES ASSUME Joined(v) PROVE Agreed(v)
    OBVIOUS
  <2>2. Joined(w)
    BY <1>1, <1>2, <1>3, <2>1 DEF Joined, SameSession
  <2>3. /\ Matched(w) \/ Carried(w, 1, "caller")
        /\ Rests(w, 1, "caller")
    BY <1>3, <2>2, RingingWas
  <2>4. 1 \in Indices(v) /\ Open(w, 1, "caller") /\ Open(v, 1, "caller")
    <3>1. 1 \in Indices(v)
      BY <1>1, MovesOpen
    <3>2. QED
      BY <1>1, <1>2, <1>3, <1>4, <3>1 DEF Open
  <2>5. CalleeRings(w)
    BY <1>1, <1>5, <2>2 DEF Joined
  <2>6. Serving(w, 1, "callee")
    <3>1. w.inv["callee"].invite_tsx = 1
      <4>1. w.tsx[1].status < 300
        BY <1>1, <1>3 DEF Runs, Ending, Codes
      <4>2. QED
        BY <1>1, <1>3, <4>1 DEF Dealing, Requests
    <3>2. w.tsx[1].status < 200 /\ w.tsx[1].status \in Nat
      BY <1>1, <1>3 DEF Runs, Ending, Codes
    <3>3. w.tsx[1].status < 300
      BY <3>2
    <3>4. QED
      BY <1>1, <1>3, <3>1, <3>3 DEF Serving
  <2>7. Serving(v, 1, "callee") /\ v.tsx[1].server = w.tsx[1].server
        /\ v.tsx[1].status = w.tsx[1].status /\ v.tsx[1].body = w.tsx[1].body
        /\ v.tsx[1].answered = w.tsx[1].answered
    BY <1>1, <1>2, <2>6, MovesOpen DEF SameServer
  <2>8. Matched(v) /\ ~Carried(v, 1, "caller")
    <3>1. CASE w.neg["caller"].state = "NULL"
      <4>1. w.tsx[1].sdp = 0
        BY <1>4, <3>1 DEF CallerRings
      <4>2. Matched(w)
        BY <2>3, <4>1 DEF Carried
      <4>3. /\ v.neg["caller"].active_local.sdp = w.neg["caller"].active_local.sdp
            /\ v.neg["caller"].active_remote.sdp = w.neg["caller"].active_remote.sdp
        BY <3>1 DEF Hears
      <4>4. QED
        BY <1>2, <4>1, <4>2, <4>3 DEF Matched, SameDeal, Carried
    <3>2. CASE w.neg["caller"].state = "LOCAL_OFFER"
      <4>1. w.tsx[1].sdp # 0 /\ ~w.tsx[1].done /\ w.neg["caller"].local.sdp = w.tsx[1].sdp
        BY <1>4, <3>2 DEF CallerRings
      <4>2. Carried(w, 1, "caller")
        BY <1>3, <2>4, <4>1 DEF Carried
      <4>3. /\ w.neg["callee"].active_remote.sdp = w.tsx[1].sdp
            /\ w.neg["callee"].active_local.sdp = w.tsx[1].body
        BY <1>1, <2>3, <4>2 DEF Rests
      <4>4. /\ v.neg["caller"].active_local.sdp = w.neg["caller"].local.sdp
            /\ v.neg["caller"].active_remote.sdp = w.tsx[1].body /\ v.tsx[1].done
        BY <3>2 DEF Hears
      <4>5. QED
        BY <1>2, <4>1, <4>3, <4>4 DEF Matched, SameDeal, Carried
    <3>3. QED
      BY <3>1, <3>2 DEF Hears
  <2>9. v.tsx[1].sdp = 0 /\ v.tsx[1].body # 0 =>
            /\ ~v.tsx[1].answered
            /\ v.neg["callee"].state = "LOCAL_OFFER"
            /\ v.neg["callee"].local.sdp = v.tsx[1].body
    BY <1>2, <2>5, <2>7 DEF CalleeRings, SameDeal
  <2>10. Requests(v) /\ \A t \in Indices(v) : v.tsx[t].from \in Ends
    <3>1. v.inv["callee"].invite_tsx = 1
      BY <2>7 DEF Serving
    <3>2. w.inv["caller"].state \in {"NULL", "CALLING", "INCOMING", "EARLY"}
      BY <1>3
    <3>3. QED
      BY <1>1, <1>3, <3>1, <3>2, RingsRequests
  <2>11. \A e \in Ends : v.inv[e].state # "CONFIRMED"
    BY <1>1, <1>3, <1>6 DEF CallerRings
  <2>12. QED
    BY <1>2, <1>3, <2>4, <2>7, <2>8, <2>9, <2>10, <2>11, RingingIs
<1>8. w.inv["caller"].state \in {"NULL", "CALLING", "INCOMING", "EARLY"}
  BY <1>3
<1>9. QED
  BY <1>1, <1>3, <1>6, <1>7, <1>8, RingsDealing

\* The caller gets the final response and confirms the call.
Confirms(w, v) ==
    LET x == w.tsx[1]
        n == w.neg["caller"]
        m == v.neg["caller"]
        s == v.inv["caller"]
        a == s.last_ack
    IN  /\ w.inv["caller"].state \in {"CALLING", "EARLY"} /\ s.state = "CONFIRMED"
        /\ s.invite_tsx = 0 /\ s.last_ack_cseq = 1
        /\ v.acks = w.acks \cup {[t |-> 1, sdp |-> a]}
        /\ x.server = "completed" /\ x.status \in 200..299 /\ v.tsx[1].client = "terminated"
        /\ Len(v.tsx) = Len(w.tsx) /\ m.state = "DONE" /\ ~m.has_remote_answer
        /\ \/ /\ n.state = "LOCAL_OFFER" /\ x.body # 0 /\ a = 0
              /\ m.active_local.sdp = n.local.sdp /\ m.active_remote.sdp = x.body
           \/ /\ n.state \in {"DONE", "NULL", "WAIT_NEGO"} /\ a = 0
              /\ m.active_local.sdp = n.active_local.sdp
              /\ m.active_remote.sdp = n.active_remote.sdp
           \/ /\ n.state = "NULL" /\ x.body # 0 /\ a # 0
              /\ m.active_local.sdp = a /\ m.active_remote.sdp = x.body
           \/ /\ n.state = "WAIT_NEGO" /\ a # 0
              /\ m.active_local.sdp = a /\ m.active_remote.sdp = n.remote.sdp

\* What the ends agree on from then.
LEMMA ConfirmsAgreed ==
  ASSUME NEW w, Runs(w), Dealing(w), NEW v, Moves(w, v, "caller", 1), Confirms(w, v), Joined(v),
         CallerRings(w), CalleeRings(w), w.inv["callee"].state = "CONNECTING",
         \A s \in Indices(w) : w.tsx[s].method \in {"INVITE", "UPDATE"} => s = 1
  PROVE  Agreed(v)
<1>1. /\ 1 \in Indices(w) /\ w.tsx[1].from = "caller" /\ w.tsx[1].method = "INVITE"
      /\ \A e \in Ends : e = "caller" \/ e = "callee"
      /\ Peer("caller") = "callee" /\ Peer("callee") = "caller"
      /\ "callee" \in Ends /\ "caller" \in Ends
  BY Basics DEF Ends
<1>2. /\ SameSession(w.inv["callee"], v.inv["callee"])
      /\ SameDeal(w.neg["callee"], v.neg["callee"])
      /\ SameServer(w.tsx[1], v.tsx[1]) /\ v.tsx[1].sdp = w.tsx[1].sdp
      /\ v.tsx[1].method = "INVITE" /\ v.tsx[1].from = "caller"
  BY <1>1 DEF Moves
<1>3. /\ w.inv["caller"].state \in {"CALLING", "EARLY"} /\ v.inv["caller"].state = "CONFIRMED"
      /\ v.inv["caller"].invite_tsx = 0 /\ v.inv["caller"].last_ack_cseq = 1
      /\ v.acks = w.acks \cup {[t |-> 1, sdp |-> v.inv["caller"].last_ack]}
      /\ w.tsx[1].server = "completed" /\ w.tsx[1].status \in 200..299
      /\ v.tsx[1].client = "terminated" /\ Indices(v) = Indices(w)
      /\ v.neg["caller"].state = "DONE"
  BY DEF Confirms, Indices
<1>4. Joined(w)
  <2>1. \A e \in Ends : w.inv[e].state # "DISCONNECTED"
    <3>1. w.inv["caller"].state # "DISCONNECTED" /\ w.inv["callee"].state # "DISCONNECTED"
      BY <1>3
    <3>2. QED
      BY <1>1, <3>1
  <2>2. QED
    BY <2>1 DEF Joined
<1>5. /\ Matched(w) \/ Carried(w, 1, "caller")
      /\ Rests(w, 1, "caller")
  BY <1>3, <1>4, RingingWas
<1>6. /\ Serving(w, 1, "callee") /\ Serving(v, 1, "callee")
      /\ v.tsx[1].answered = w.tsx[1].answered
  <2>1. w.inv["callee"].invite_tsx = 1 /\ w.tsx[1].status < 300
    BY <1>1 DEF Dealing, Connecting
  <2>2. Serving(w, 1, "callee")
    BY <1>1, <1>3, <2>1 DEF Serving
  <2>3. QED
    BY <1>1, <1>2, <2>2, MovesOpen DEF SameServer
<1>7. \A s, e : ~Open(v, s, e)
  <2>1. \A s \in Indices(w) : v.tsx[s].method = w.tsx[s].method
    BY DEF Moves
  <2>2. QED
    BY <1>3, <2>1 DEF Open
<1>8. \A s, e : ~Carried(v, s, e)
  BY <1>7 DEF Carried
<1>9. \A s : ~Asked(v, s, "caller") /\ (Asked(v, s, "callee") => s = 1)
  <2>1. 0 \notin Indices(v)
    BY DEF Indices
  <2>2. \A s : ~Serving(v, s, "caller")
    BY <1>3, <2>1 DEF Serving
  <2>3. \A s : Serving(v, s, "callee") => s = 1
    BY <1>6 DEF Serving
  <2>4. QED
    BY <2>2, <2>3 DEF Asked
<1>10. ~Due(v, "caller")
  BY <1>8, <1>9 DEF Due, Acked
<1>11. \A ack \in w.acks : ack.t # 1
  <2>1. w.tsx[1].client = "calling"
    BY <1>3, Bearings
  <2>2. QED
    BY <2>1 DEF Dealing, Accepted
<1>12. \A s : Asked(v, s, "callee") =>
          /\ v.inv["caller"].last_ack_cseq = s
          /\ \A ack \in v.acks : ack.t = s => ack.sdp = v.inv["caller"].last_ack
  BY <1>3, <1>9, <1>11
<1>13. /\ Matched(v) \/ Due(v, "callee")
       /\ Acked(v, 1, "callee") =>
             /\ v.neg["caller"].active_remote.sdp = v.neg["callee"].local.sdp
             /\ v.neg["caller"].active_local.sdp = v.inv["caller"].last_ack
  <2>1. Acked(v, 1, "callee") => v.inv["caller"].last_ack # 0
    BY <1>1 DEF Acked
  <2>2. CASE /\ w.neg["caller"].state = "LOCAL_OFFER" /\ w.tsx[1].body # 0
             /\ v.inv["caller"].last_ack = 0
             /\ v.neg["caller"].active_local.sdp = w.neg["caller"].local.sdp
             /\ v.neg["caller"].active_remote.sdp = w.tsx[1].body
    <3>1. w.tsx[1].sdp # 0 /\ ~w.tsx[1].done /\ w.neg["caller"].local.sdp = w.tsx[1].sdp
      BY <2>2 DEF CallerRings
    <3>2. Carried(w, 1, "caller")
      <4>1. Open(w, 1, "caller")
        BY <1>1, <1>3, Bearings DEF Open
      <4>2. QED
        BY <2>2, <3>1, <4>1 DEF Carried
    <3>3. /\ w.neg["callee"].active_remote.sdp = w.tsx[1].sdp
          /\ w.neg["callee"].active_local.sdp = w.tsx[1].body
      BY <1>1, <1>5, <3>2 DEF Rests
    <3>4. QED
      BY <1>2, <2>1, <2>2, <3>1, <3>3 DEF Matched, SameDeal
  <2>3. CASE /\ w.neg["caller"].state \in {"DONE", "NULL", "WAIT_NEGO"}
             /\ v.inv["caller"].last_ack = 0
             /\ v.neg["caller"].active_local.sdp = w.neg["caller"].active_local.sdp
             /\ v.neg["caller"].active_remote.sdp = w.neg["caller"].active_remote.sdp
    <3>1. ~Carried(w, 1, "caller")
      BY <2>3 DEF CallerRings, Carried
    <3>2. Matched(w)
      BY <1>5, <3>1
    <3>3. QED
      BY <1>2, <2>1, <2>3, <3>2 DEF Matched, SameDeal
  <2>4. CASE /\ w.neg["caller"].state \in {"NULL", "WAIT_NEGO"}
             /\ v.inv["caller"].last_ack # 0
             /\ v.neg["caller"].active_local.sdp = v.inv["caller"].last_ack
             /\ w.neg["caller"].state = "NULL" =>
                   w.tsx[1].body # 0 /\ v.neg["caller"].active_remote.sdp = w.tsx[1].body
             /\ w.neg["caller"].state = "WAIT_NEGO" =>
                   v.neg["caller"].active_remote.sdp = w.neg["caller"].remote.sdp
    <3>1. w.tsx[1].sdp = 0
      BY <2>4 DEF CallerRings
    <3>2. /\ w.neg["callee"].state = "LOCAL_OFFER" /\ ~w.tsx[1].answered
          /\ w.tsx[1].body = w.neg["callee"].local.sdp
      BY <3>1 DEF CalleeRings
    <3>3. Asked(v, 1, "callee")
      BY <1>2, <1>3, <1>6, <3>2 DEF Asked, SameDeal
    <3>4. Acked(v, 1, "callee") /\ 1 \in Indices(v)
      BY <1>1, <1>3, <2>4, <3>3 DEF Acked
    <3>5. w.neg["caller"].state = "WAIT_NEGO" =>
             w.neg["caller"].remote.sdp = w.neg["callee"].local.sdp
      BY DEF CallerRings
    <3>6. v.neg["caller"].active_remote.sdp = v.neg["callee"].local.sdp
      BY <1>2, <2>4, <3>2, <3>5 DEF SameDeal
    <3>7. QED
      BY <2>4, <3>4, <3>6 DEF Due
  <2>5. QED
    BY <2>2, <2>3, <2>4 DEF Confirms
<1>14. ASSUME NEW s \in Indices(v)
       PROVE  Rests(v, s, "caller") /\ Rests(v, s, "callee")
  <2>1. Rests(v, s, "caller")
    BY <1>7, <1>8, <1>9 DEF Rests, Acked
  <2>2. Acked(v, s, "callee") =>
             /\ v.neg["caller"].active_remote.sdp = v.neg["callee"].local.sdp
             /\ v.neg["caller"].active_local.sdp = v.inv["caller"].last_ack
    BY <1>9, <1>13 DEF Acked
  <2>3. Rests(v, s, "callee")
    BY <1>1, <1>7, <1>8, <1>12, <2>2 DEF Rests
  <2>4. QED
    BY <2>1, <2>3
<1>15. QED
  BY <1>1, <1>10, <1>13, <1>14 DEF Agreed

\* A confirmed call keeps the invariant.
LEMMA ConfirmsDealing ==
  ASSUME NEW w, Runs(w), Dealing(w), NEW v, Moves(w, v, "caller", 1), Confirms(w, v)
  PROVE  Dealing(v)
<1>1. /\ 1 \in Indices(w) /\ w.tsx[1].from = "caller" /\ w.tsx[1].method = "INVITE"
      /\ \A e \in Ends : e = "caller" \/ e = "callee"
      /\ Peer("caller") = "callee" /\ Peer("callee") = "caller"
      /\ "callee" \in Ends /\ "caller" \in Ends
  BY Basics DEF Ends
<1>2. /\ SameSession(w.inv["callee"], v.inv["callee"]) /\ SameServer(w.tsx[1], v.tsx[1])
      /\ \A s \in Indices(w) : v.tsx[s].method = w.tsx[s].method
  BY <1>1 DEF Moves
<1>3. /\ w.inv["caller"].state \in {"CALLING", "EARLY"} /\ v.inv["caller"].state = "CONFIRMED"
      /\ v.inv["caller"].invite_tsx = 0 /\ v.inv["caller"].last_ack_cseq = 1
      /\ v.acks = w.acks \cup {[t |-> 1, sdp |-> v.inv["caller"].last_ack]}
      /\ w.tsx[1].server = "completed" /\ w.tsx[1].status \in 200..299
      /\ v.tsx[1].client = "terminated" /\ Indices(v) = Indices(w)
      /\ v.neg["caller"].state = "DONE" /\ ~v.neg["caller"].has_remote_answer
  BY DEF Confirms, Indices
<1>4. CallerRings(w)
  BY <1>3 DEF Dealing
<1>5. \A s \in Indices(w) : w.tsx[s].method \in {"INVITE", "UPDATE"} => s = 1
  BY <1>1, <1>3, RingsAlone
<1>6. w.inv["callee"].state \in {"CONNECTING", "DISCONNECTED"}
  <2>1. w.inv["callee"].state # "CONFIRMED"
    BY <1>4 DEF CallerRings
  <2>2. w.inv["callee"].state # "NULL"
    BY <1>1, <1>3 DEF Runs, Begun, Course
  <2>3. w.inv["callee"].state \notin {"INCOMING", "EARLY", "CALLING"}
    BY <1>3, Bearings
  <2>4. w.inv["callee"].state \in States
    <3>1. w.inv["callee"] \in Sessions(Nat, Nat)
      BY <1>1, SoundParts DEF Runs, Begun
    <3>2. QED
      BY <3>1 DEF Sessions
  <2>5. QED
    BY <2>1, <2>2, <2>3, <2>4 DEF States
<1>7. Steady(v, "caller")
  <2>1. 0 \notin Indices(v)
    BY DEF Indices
  <2>2. \A s : ~Serving(v, s, "caller") /\ ~Open(v, s, "caller")
    BY <1>2, <1>3, <1>5, <2>1 DEF Serving, Open
  <2>3. QED
    BY <1>3, <2>2 DEF Steady
<1>8. Joined(v) => Agreed(v)
  <2>1. SUFFICES ASSUME Joined(v) PROVE Agreed(v)
    OBVIOUS
  <2>2. w.inv["callee"].state = "CONNECTING"
    BY <1>1, <1>2, <1>6, <2>1 DEF Joined, SameSession
  <2>3. CalleeRings(w)
    BY <2>2 DEF Dealing
  <2>4. QED
    BY <1>4, <1>5, <2>1, <2>2, <2>3, ConfirmsAgreed
<1>9. \A s \in Indices(w) :
            /\ w.tsx[s].from = Peer("caller") /\ w.tsx[s].method = "INVITE"
            /\ v.tsx[s].server \in {"proceeding", "completed"} /\ v.tsx[s].status < 300
            => v.inv["caller"].invite_tsx = s
  BY <1>1, <1>5
<1>10. /\ \A ack \in v.acks : ack.t = 1 \/ ack \in w.acks
       /\ \A ack \in v.acks : ack.t = 1 =>
            /\ 1 \in Indices(w) /\ w.tsx[1].method = "INVITE" /\ v.tsx[1].client = "terminated"
            /\ v.tsx[1].server \in {"completed", "terminated"} /\ v.tsx[1].status < 300
  <2>1. w.tsx[1].status < 300
    BY <1>3
  <2>2. QED
    BY <1>1, <1>2, <1>3, <2>1 DEF SameServer
<1>11. v.inv["caller"].last_ack_cseq # 0 =>
            /\ v.inv["caller"].last_ack_cseq \in Indices(v)
            /\ v.tsx[v.inv["caller"].last_ack_cseq].client # "calling"
  BY <1>1, <1>3
<1>12. QED
  BY <1>1, <1>3, <1>7, <1>8, <1>9, <1>10, <1>11, MovesDealing

-----------------------------------------------------------------------------
(* What an operator on the session of an end does *)

\* Only the session of u changes.
Sits(w, v, u) ==
    Frame(w, v, {u}, {}) /\ v.neg = w.neg /\ v.tsx = w.tsx /\ v.acks = w.acks

\* The end u sends a request.
Adds(w, v, u, method, sdp) ==
    LET n == Len(w.tsx) + 1
    IN  /\ Sound(v) /\ Len(v.tsx) = n /\ v.neg = w.neg /\ v.acks = w.acks
        /\ \A t \in Indices(w) : v.tsx[t] = w.tsx[t]
        /\ n \in Indices(v) /\ Fresh(v.tsx[n], u)
        /\ v.tsx[n].method = method /\ v.tsx[n].sdp = sdp
        /\ \A x \in Ends \ {u} : v.inv[x] = w.inv[x]
        /\ v.inv[u].state = w.inv[u].state
        /\ v.inv[u].last_ack_cseq = w.inv[u].last_ack_cseq
        /\ v.inv[u].last_ack = w.inv[u].last_ack
        /\ v.inv[u].invite_tsx = IF method = "INVITE" THEN n ELSE w.inv[u].invite_tsx

\* A session changes.
LEMMA InvSits ==
  ASSUME NEW w, Sound(w), NEW u \in Ends, NEW r \in Sessions(Nat, Nat),
         r.prov = w.inv[u].prov, r.invite_tsx \in 0..Len(w.tsx)
  PROVE  LET v == [w EXCEPT !.inv[u] = r]
         IN  Sits(w, v, u) /\ v.inv[u] = r
<1> DEFINE v == [w EXCEPT !.inv[u] = r]
<1>1. /\ Sound(v) /\ v.inv[u] = r /\ \A x \in Ends \ {u} : v.inv[x] = w.inv[x]
      /\ v.neg = w.neg /\ v.tsx = w.tsx /\ v.acks = w.acks
  BY PutInvSound
<1> HIDE DEF v
<1>2. QED
  BY <1>1 DEF v, Sits, Frame, SameSession, SameDeal, Twin

\* inv_set_state, to any state but DISCONNECTED.
LEMMA StateSits ==
  ASSUME NEW w, Sound(w), NEW u \in Ends, NEW s \in States
  PROVE  LET v == SetState(w, u, s)
         IN  /\ Sits(w, v, u) /\ v.inv[u].state = s
             /\ v.inv[u].invite_tsx = w.inv[u].invite_tsx
             /\ v.inv[u].last_ack_cseq = w.inv[u].last_ack_cseq
             /\ v.inv[u].last_ack = w.inv[u].last_ack
<1> DEFINE r == [w.inv[u] EXCEPT !.state = s]
           v == [w EXCEPT !.inv[u] = r]
<1>1. w.inv[u] \in Sessions(Nat, Nat) /\ w.inv[u].invite_tsx \in 0..Len(w.tsx)
  BY SoundParts
<1>2. /\ r \in Sessions(Nat, Nat) /\ r.prov = w.inv[u].prov /\ r.state = s
      /\ r.invite_tsx = w.inv[u].invite_tsx
      /\ r.last_ack_cseq = w.inv[u].last_ack_cseq /\ r.last_ack = w.inv[u].last_ack
  BY <1>1 DEF Sessions
<1>3. SetState(w, u, s) = v
  BY DEF SetState
<1> HIDE DEF r
<1>4. Sits(w, v, u) /\ v.inv[u] = r
  BY <1>1, <1>2, InvSits
<1> HIDE DEF v
<1>5. QED
  BY <1>2, <1>3, <1>4

\* mod_inv_on_tsx_state forgets an invite_tsx.
LEMMA ForgetSits ==
  ASSUME NEW w, Sound(w), NEW u \in Ends, NEW t
  PROVE  LET v == Forget(w, u, t)
         IN  /\ Sits(w, v, u) /\ v.inv[u].state = w.inv[u].state
             /\ v.inv[u].invite_tsx = IF w.inv[u].invite_tsx = t THEN 0 ELSE w.inv[u].invite_tsx
             /\ v.inv[u].last_ack_cseq = w.inv[u].last_ack_cseq
             /\ v.inv[u].last_ack = w.inv[u].last_ack
<1> DEFINE i == IF w.inv[u].invite_tsx = t THEN 0 ELSE w.inv[u].invite_tsx
           r == [w.inv[u] EXCEPT !.invite_tsx = i]
           v == [w EXCEPT !.inv[u] = r]
<1>1. w.inv[u] \in Sessions(Nat, Nat) /\ w.inv[u].invite_tsx \in 0..Len(w.tsx)
      /\ Len(w.tsx) \in Nat
  BY SoundParts
<1>2. i \in 0..Len(w.tsx) /\ i \in Nat
  BY <1>1
<1>3. Forget(w, u, t) = v
  BY DEF Forget
<1> HIDE DEF i
<1>4. /\ r \in Sessions(Nat, Nat) /\ r.prov = w.inv[u].prov /\ r.state = w.inv[u].state
      /\ r.invite_tsx = i
      /\ r.last_ack_cseq = w.inv[u].last_ack_cseq /\ r.last_ack = w.inv[u].last_ack
  BY <1>1, <1>2 DEF Sessions
<1> HIDE DEF r
<1>5. Sits(w, v, u) /\ v.inv[u] = r
  BY <1>2, <1>4, InvSits
<1> HIDE DEF v
<1>6. QED
  BY <1>3, <1>4, <1>5 DEF i

\* The INVITE that a session serves.
LEMMA ServesSits ==
  ASSUME NEW w, Sound(w), NEW u \in Ends, NEW t \in Indices(w)
  PROVE  LET v == [w EXCEPT !.inv[u].invite_tsx = t]
         IN  /\ Sits(w, v, u) /\ v.inv[u].state = w.inv[u].state
             /\ v.inv[u].invite_tsx = t /\ v.inv[u].prov = w.inv[u].prov
             /\ v.inv[u].last_ack_cseq = w.inv[u].last_ack_cseq
             /\ v.inv[u].last_ack = w.inv[u].last_ack
<1> DEFINE r == [w.inv[u] EXCEPT !.invite_tsx = t]
           v == [w EXCEPT !.inv[u] = r]
<1>1. w.inv[u] \in Sessions(Nat, Nat) /\ t \in 0..Len(w.tsx) /\ t \in Nat
  BY SoundParts DEF Indices
<1>2. /\ r \in Sessions(Nat, Nat) /\ r.prov = w.inv[u].prov /\ r.state = w.inv[u].state
      /\ r.invite_tsx = t
      /\ r.last_ack_cseq = w.inv[u].last_ack_cseq /\ r.last_ack = w.inv[u].last_ack
  BY <1>1 DEF Sessions
<1> HIDE DEF r
<1>3. Sits(w, v, u) /\ v.inv[u] = r
  BY <1>1, <1>2, InvSits
<1> HIDE DEF v
<1>4. QED
  BY <1>2, <1>3 DEF v, r

\* What a session notes that concerns no offer.
LEMMA NotesSits ==
  ASSUME NEW w, Sound(w), NEW u \in Ends, NEW b \in BOOLEAN, NEW k \in Nat
  PROVE  LET h == [w EXCEPT !.inv[u].hungup = b]
             p == [w EXCEPT !.inv[u].pending_cancel = b]
             c == [w EXCEPT !.inv[u].remote_cseq = k]
         IN  /\ Sits(w, h, u) /\ SameSession(w.inv[u], h.inv[u])
             /\ Sits(w, p, u) /\ SameSession(w.inv[u], p.inv[u])
             /\ Sits(w, c, u) /\ SameSession(w.inv[u], c.inv[u])
<1> DEFINE q == [w.inv[u] EXCEPT !.hungup = b]
           r == [w.inv[u] EXCEPT !.pending_cancel = b]
           s == [w.inv[u] EXCEPT !.remote_cseq = k]
           h == [w EXCEPT !.inv[u] = q]
           p == [w EXCEPT !.inv[u] = r]
           c == [w EXCEPT !.inv[u] = s]
<1>1. w.inv[u] \in Sessions(Nat, Nat) /\ w.inv[u].invite_tsx \in 0..Len(w.tsx)
  BY SoundParts
<1>2. /\ q \in Sessions(Nat, Nat) /\ q.prov = w.inv[u].prov /\ SameSession(w.inv[u], q)
      /\ q.invite_tsx = w.inv[u].invite_tsx
  BY <1>1 DEF Sessions, SameSession
<1>3. /\ r \in Sessions(Nat, Nat) /\ r.prov = w.inv[u].prov /\ SameSession(w.inv[u], r)
      /\ r.invite_tsx = w.inv[u].invite_tsx
  BY <1>1 DEF Sessions, SameSession
<1>4. /\ s \in Sessions(Nat, Nat) /\ s.prov = w.inv[u].prov /\ SameSession(w.inv[u], s)
      /\ s.invite_tsx = w.inv[u].invite_tsx
  BY <1>1 DEF Sessions, SameSession
<1> HIDE DEF q, r, s
<1>5. Sits(w, h, u) /\ h.inv[u] = q
  BY <1>1, <1>2, InvSits
<1>6. Sits(w, p, u) /\ p.inv[u] = r
  BY <1>1, <1>3, InvSits
<1>7. Sits(w, c, u) /\ c.inv[u] = s
  BY <1>1, <1>4, InvSits
<1> HIDE DEF h, p, c
<1>8. QED
  BY <1>2, <1>3, <1>4, <1>5, <1>6, <1>7 DEF h, p, c, q, r, s

\* The ACK is kept for the case that it is asked for again.
Cached(w, v, u, t, sdp) ==
    /\ Sits(w, v, u) /\ v.inv[u].state = w.inv[u].state
    /\ v.inv[u].invite_tsx = w.inv[u].invite_tsx
    /\ v.inv[u].last_ack_cseq = t /\ v.inv[u].last_ack = sdp

\* Only the session changes.
LEMMA CacheDoes ==
  ASSUME NEW w, Sound(w), NEW u \in Ends, NEW t \in Nat, NEW sdp \in Nat
  PROVE  Cached(w, [w EXCEPT !.inv[u].last_ack_cseq = t, !.inv[u].last_ack = sdp], u, t, sdp)
<1> DEFINE q == [w.inv[u] EXCEPT !.last_ack_cseq = t]
           r == [q EXCEPT !.last_ack = sdp]
           v == [w EXCEPT !.inv[u] = r]
           a == [w EXCEPT !.inv[u] = q]
<1>1. w.inv[u] \in Sessions(Nat, Nat) /\ w.inv[u].invite_tsx \in 0..Len(w.tsx) /\ w \in Worlds
  BY SoundParts
<1>2. /\ r \in Sessions(Nat, Nat) /\ r.prov = w.inv[u].prov /\ r.state = w.inv[u].state
      /\ r.invite_tsx = w.inv[u].invite_tsx /\ r.last_ack_cseq = t /\ r.last_ack = sdp
  <2>1. q \in Sessions(Nat, Nat) /\ q.prov = w.inv[u].prov /\ q.state = w.inv[u].state
        /\ q.invite_tsx = w.inv[u].invite_tsx /\ q.last_ack_cseq = t
    BY <1>1 DEF Sessions
  <2> HIDE DEF q
  <2>2. QED
    BY <2>1 DEF Sessions
<1>3. [w EXCEPT !.inv[u].last_ack_cseq = t, !.inv[u].last_ack = sdp] = v
  <2>1. a.inv[u] = q
    BY <1>1 DEF Worlds
  <2>2. [w EXCEPT !.inv[u].last_ack_cseq = t, !.inv[u].last_ack = sdp]
          = [a EXCEPT !.inv[u] = r]
    BY <2>1
  <2>3. [a EXCEPT !.inv[u] = r] = v
    BY <1>1 DEF Worlds
  <2>4. QED
    BY <2>2, <2>3
<1> HIDE DEF r
<1>4. Sits(w, v, u) /\ v.inv[u] = r
  BY <1>1, <1>2, InvSits
<1> HIDE DEF v
<1>5. Cached(w, v, u, t, sdp)
  BY <1>2, <1>4 DEF Cached, Sits
<1>6. QED
  BY <1>3, <1>5

\* inv_set_state to DISCONNECTED.
LEMMA OverFrame ==
  ASSUME NEW w, Sound(w), NEW u \in Ends
  PROVE  LET v == Disconnect(w, u)
         IN  /\ Frame(w, v, {u}, {}) /\ v.tsx = w.tsx /\ v.acks = w.acks
             /\ v.inv[u].state = "DISCONNECTED"
             /\ v.inv[u].invite_tsx = w.inv[u].invite_tsx
             /\ v.inv[u].last_ack_cseq = 0
             /\ v.neg[u].state = "NULL" /\ ~v.neg[u].has_remote_answer
<1> DEFINE r == [NoSession EXCEPT !.state = "DISCONNECTED", !.invite_tsx = w.inv[u].invite_tsx,
                                  !.remote_cseq = w.inv[u].remote_cseq]
           a == [w EXCEPT !.inv[u] = r]
           v == [a EXCEPT !.neg[u] = NoNegotiator]
<1>1. w \in Worlds /\ w.inv[u] \in Sessions(Nat, Nat)
  BY SoundParts
<1>2. /\ r \in Sessions(Nat, Nat) /\ r.state = "DISCONNECTED"
      /\ r.invite_tsx = w.inv[u].invite_tsx /\ r.last_ack_cseq = 0
  BY <1>1 DEF Sessions, NoSession, States
<1>3. /\ NoNegotiator \in Negotiators(Nat) /\ NoNegotiator.state = "NULL"
      /\ ~NoNegotiator.has_remote_answer
  BY DEF NoNegotiator, Negotiators, NoCopy, Copy, Copies, Pools, NegStates
<1>4. Disconnect(w, u) = v
  BY DEF Disconnect
<1> HIDE DEF r
<1>5. /\ a \in Worlds
      /\ a.inv[u] = r /\ \A x \in Ends \ {u} : a.inv[x] = w.inv[x]
      /\ a.neg = w.neg /\ a.tsx = w.tsx /\ a.acks = w.acks
  BY <1>1, <1>2, PutInv
<1> HIDE DEF a
<1>6. /\ v.inv = a.inv /\ v.tsx = a.tsx /\ v.acks = a.acks
      /\ v.neg[u] = NoNegotiator /\ \A x \in Ends \ {u} : v.neg[x] = a.neg[x]
  BY <1>3, <1>5, PutNeg, ZenonT(60)
<1>7. Sound(v)
  BY <1>4, DisconnectSets
<1> HIDE DEF v
<1>8. Frame(w, v, {u}, {})
  BY <1>5, <1>6, <1>7 DEF Frame, SameSession, SameDeal, Twin
<1>9. QED
  BY <1>2, <1>3, <1>4, <1>5, <1>6, <1>8

\* pjsip_dlg_send_request.
LEMMA RequestAdds ==
  ASSUME NEW w, Sound(w), NEW u \in Ends, NEW method \in {"INVITE", "UPDATE", "BYE", "CANCEL"},
         NEW sdp \in Nat, NEW of \in 0..Len(w.tsx), method = "CANCEL" => of > 0
  PROVE  Adds(w, SendRequest(w, u, method, sdp, of), u, method, sdp)
<1>0. Sound(SendRequest(w, u, method, sdp, of))
  <2>1. /\ method \in {"INVITE", "UPDATE", "BYE", "CANCEL"} /\ of \in 0..Len(w.tsx)
        /\ method = "CANCEL" => of > 0
    OBVIOUS
  <2>2. QED
    BY <2>1, SendRequestEffect
<1> DEFINE n == Len(w.tsx) + 1
           q == [method |-> method, from |-> u, sdp |-> sdp, of |-> of,
                 client |-> "calling", code |-> 0, done |-> FALSE, expires |-> FALSE,
                 server |-> "none", status |-> 0, body |-> 0, answered |-> FALSE]
           s == Append(w.tsx, q)
           r == [w.inv[u] EXCEPT !.invite_tsx = IF method = "INVITE" THEN n
                                                ELSE w.inv[u].invite_tsx]
           a == [w EXCEPT !.tsx = s]
           v == [a EXCEPT !.inv[u] = r]
<1>1. /\ w \in Worlds /\ w.inv[u] \in Sessions(Nat, Nat) /\ Len(w.tsx) \in Nat
      /\ w.tsx \in Seq(Transactions(Nat, Nat)) /\ w.inv[u].invite_tsx \in 0..Len(w.tsx)
  BY SoundParts
<1>2. /\ q \in Transactions(Nat, Nat) /\ Fresh(q, u) /\ q.method = method /\ q.sdp = sdp
  BY <1>1 DEF Transactions, Fresh
<1>3. /\ r \in Sessions(Nat, Nat) /\ r.state = w.inv[u].state
      /\ r.invite_tsx = IF method = "INVITE" THEN n ELSE w.inv[u].invite_tsx
      /\ r.last_ack_cseq = w.inv[u].last_ack_cseq /\ r.last_ack = w.inv[u].last_ack
  <2> DEFINE i == IF method = "INVITE" THEN n ELSE w.inv[u].invite_tsx
  <2>1. i \in Nat
    BY <1>1
  <2> HIDE DEF i
  <2>2. [w.inv[u] EXCEPT !.invite_tsx = i] \in Sessions(Nat, Nat)
    BY <1>1, <2>1 DEF Sessions
  <2>3. /\ [w.inv[u] EXCEPT !.invite_tsx = i].state = w.inv[u].state
        /\ [w.inv[u] EXCEPT !.invite_tsx = i].invite_tsx = i
        /\ [w.inv[u] EXCEPT !.invite_tsx = i].last_ack_cseq = w.inv[u].last_ack_cseq
        /\ [w.inv[u] EXCEPT !.invite_tsx = i].last_ack = w.inv[u].last_ack
    BY <1>1 DEF Sessions
  <2>4. QED
    BY <2>2, <2>3 DEF i
<1>4. ASSUME a.inv[u] = w.inv[u]
      PROVE  SendRequest(w, u, method, sdp, of) = v
  BY <1>4 DEF SendRequest
<1> HIDE DEF q, r
<1>5. /\ s \in Seq(Transactions(Nat, Nat)) /\ Len(s) = n /\ s[n] = q
      /\ \A t \in 1..Len(w.tsx) : s[t] = w.tsx[t]
  BY <1>1, <1>2
<1> HIDE DEF s
<1>6. /\ a \in Worlds /\ a.tsx = s
      /\ a.inv = w.inv /\ a.neg = w.neg /\ a.acks = w.acks
  BY <1>1, <1>5 DEF Worlds
<1> HIDE DEF a
<1>7. /\ v \in Worlds
      /\ v.inv[u] = r /\ \A x \in Ends \ {u} : v.inv[x] = w.inv[x]
      /\ v.neg = w.neg /\ v.tsx = s /\ v.acks = w.acks
  BY <1>3, <1>6, PutInv
<1> HIDE DEF v
<1>8. SendRequest(w, u, method, sdp, of) = v
  BY <1>4, <1>6
<1>10. n \in 1..Len(v.tsx) /\ Len(v.tsx) = n
  BY <1>1, <1>5, <1>7
<1>11. \A t \in Indices(w) : v.tsx[t] = w.tsx[t]
  BY <1>5, <1>7 DEF Indices
<1>12. Sound(v)
  BY <1>0, <1>8
<1> HIDE DEF n
<1>13. Adds(w, v, u, method, sdp)
  BY <1>2, <1>3, <1>5, <1>7, <1>10, <1>11, <1>12 DEF Adds, Indices, n
<1>14. QED
  BY <1>8, <1>13

-----------------------------------------------------------------------------
(* From what a handler does to the kind of step that it is *)

\* More ends and more transactions.
LEMMA FrameWider ==
  ASSUME NEW w, NEW v, NEW U, NEW T, Frame(w, v, U, T), NEW X, NEW Y, U \subseteq X, T \subseteq Y
  PROVE  Frame(w, v, X, Y)
BY DEF Frame

\* The sessions that nothing concerns.
LEMMA SitsFrame ==
  ASSUME NEW w, NEW v, NEW u, Sits(w, v, u), SameSession(w.inv[u], v.inv[u])
  PROVE  Frame(w, v, {}, {})
BY DEF Sits, Frame, SameDeal

\* An end acts on its side of a transaction.
LEMMA FrameMoves ==
  ASSUME NEW w, Runs(w), Dealing(w), NEW u \in Ends, NEW t, NEW T, NEW v, Frame(w, v, {u}, T),
         \A s \in Indices(w) \cap T :
            /\ s = t \/ w.tsx[s].method = "CANCEL"
            /\ v.tsx[s].sdp = w.tsx[s].sdp
            /\ v.tsx[s].client = "calling" => w.tsx[s].client = "calling"
            /\ v.tsx[s].server = "none" => v.tsx[s].body = 0 /\ ~v.tsx[s].answered
            /\ w.tsx[s].method # "CANCEL" =>
                  IF w.tsx[s].from = u THEN SameServer(w.tsx[s], v.tsx[s])
                                       ELSE SameClient(w.tsx[s], v.tsx[s])
  PROVE  Moves(w, v, u, t)
<1>1. Peer(u) \in Ends \ {u} /\ Len(w.tsx) \in Nat
  BY Basics
<1>2. /\ Sound(v) /\ Len(v.tsx) = Len(w.tsx)
      /\ SameSession(w.inv[Peer(u)], v.inv[Peer(u)]) /\ SameDeal(w.neg[Peer(u)], v.neg[Peer(u)])
      /\ \A s \in Indices(w) \ T : Twin(w.tsx[s], v.tsx[s])
      /\ \A s \in Indices(w) : v.tsx[s].method = w.tsx[s].method /\ v.tsx[s].from = w.tsx[s].from
  BY <1>1 DEF Frame
<1>3. \A s \in Indices(w) : w.tsx[s].server = "none" => w.tsx[s].body = 0 /\ ~w.tsx[s].answered
  BY DEF Dealing, Requests
<1>4. ASSUME NEW s \in Indices(w) \ T
      PROVE  /\ v.tsx[s].sdp = w.tsx[s].sdp
             /\ v.tsx[s].client = "calling" => w.tsx[s].client = "calling"
             /\ v.tsx[s].server = "none" => v.tsx[s].body = 0 /\ ~v.tsx[s].answered
             /\ Twin(w.tsx[s], v.tsx[s])
             /\ SameServer(w.tsx[s], v.tsx[s]) /\ SameClient(w.tsx[s], v.tsx[s])
  BY <1>2, <1>3, <1>4 DEF Twin, SameServer, SameClient
<1>5. ASSUME NEW s \in Indices(w)
      PROVE  /\ v.tsx[s].sdp = w.tsx[s].sdp
             /\ v.tsx[s].client = "calling" => w.tsx[s].client = "calling"
             /\ v.tsx[s].server = "none" => v.tsx[s].body = 0 /\ ~v.tsx[s].answered
             /\ s # t /\ w.tsx[s].method # "CANCEL" => Twin(w.tsx[s], v.tsx[s])
             /\ s = t /\ w.tsx[s].method # "CANCEL" =>
                   IF w.tsx[s].from = u THEN SameServer(w.tsx[s], v.tsx[s])
                                        ELSE SameClient(w.tsx[s], v.tsx[s])
  BY <1>4
<1>6. Indices(v) = Indices(w)
  BY <1>2 DEF Indices
<1>7. QED
  BY <1>1, <1>2, <1>5, <1>6 DEF Moves

\* ... and sends a request.
LEMMA MovesAdds ==
  ASSUME NEW w, Runs(w), NEW u \in Ends, NEW t, NEW v, Moves(w, v, u, t),
         NEW method, NEW sdp, NEW x, Adds(v, x, u, method, sdp)
  PROVE  Moves(w, x, u, t)
<1>1. /\ Peer(u) \in Ends \ {u} /\ Len(w.tsx) \in Nat /\ Len(v.tsx) \in Nat
      /\ Len(v.tsx) >= Len(w.tsx)
  BY Basics, SoundParts DEF Moves
<1>2. /\ Sound(x) /\ Len(x.tsx) = Len(v.tsx) + 1 /\ x.neg = v.neg
      /\ \A s \in Indices(v) : x.tsx[s] = v.tsx[s]
      /\ Fresh(x.tsx[Len(v.tsx) + 1], u) /\ x.inv[Peer(u)] = v.inv[Peer(u)]
  BY <1>1 DEF Adds
<1>3. Indices(w) \subseteq Indices(v) /\ Len(x.tsx) >= Len(w.tsx)
  BY <1>1, <1>2 DEF Indices
<1>4. \A s \in Indices(x) : s \notin Indices(w) => Fresh(x.tsx[s], u)
  <2>1. SUFFICES ASSUME NEW s \in Indices(x), s \notin Indices(w)
                 PROVE  Fresh(x.tsx[s], u)
    OBVIOUS
  <2>2. s \in Indices(v) \/ s = Len(v.tsx) + 1
    BY <1>1, <1>2 DEF Indices
  <2>3. QED
    BY <1>2, <2>1, <2>2 DEF Moves
<1>5. /\ SameSession(w.inv[Peer(u)], x.inv[Peer(u)]) /\ SameDeal(w.neg[Peer(u)], x.neg[Peer(u)])
  BY <1>2 DEF Moves
<1>6. \A s \in Indices(w) : x.tsx[s] = v.tsx[s]
  BY <1>2, <1>3
<1>7. QED
  BY <1>2, <1>3, <1>4, <1>5, <1>6 DEF Moves

\* What concerns no offer.
LEMMA FrameLittle ==
  ASSUME NEW w, Runs(w), NEW U, NEW T, NEW v, Frame(w, v, U, T), v.acks \subseteq w.acks,
         \A u \in Ends \cap U : Idle(w, v, u), \A t \in Indices(w) \cap T : Minor(w, v, t)
  PROVE  Little(w, v)
<1>1. /\ Sound(v) /\ Len(v.tsx) = Len(w.tsx) /\ Len(w.tsx) \in Nat
      /\ \A u \in Ends \ U : SameSession(w.inv[u], v.inv[u]) /\ SameDeal(w.neg[u], v.neg[u])
      /\ \A t \in Indices(w) \ T : Twin(w.tsx[t], v.tsx[t])
  BY Basics DEF Frame
<1>2. \A u \in Ends \ U : Idle(w, v, u)
  BY <1>1 DEF Idle, SameSession, SameDeal, Unoffered, Remembers
<1>3. \A t \in Indices(w) \ T : Minor(w, v, t)
  BY <1>1 DEF Twin, Minor
<1>4. \A t \in Indices(v) : ~(t > Len(w.tsx))
  BY <1>1 DEF Indices
<1>5. QED
  BY <1>1, <1>2, <1>3, <1>4 DEF Little

\* ... and a CANCEL.
LEMMA LittleAdds ==
  ASSUME NEW w, Runs(w), NEW v, Little(w, v), NEW u \in Ends, NEW x, Adds(v, x, u, "CANCEL", 0)
  PROVE  Little(w, x)
<1>1. Len(w.tsx) \in Nat /\ Len(v.tsx) \in Nat /\ Len(v.tsx) >= Len(w.tsx)
  BY Basics, SoundParts DEF Little
<1>2. /\ Sound(x) /\ Len(x.tsx) = Len(v.tsx) + 1 /\ x.neg = v.neg /\ x.acks = v.acks
      /\ \A s \in Indices(v) : x.tsx[s] = v.tsx[s]
      /\ Fresh(x.tsx[Len(v.tsx) + 1], u) /\ x.tsx[Len(v.tsx) + 1].method = "CANCEL"
      /\ \A e \in Ends : SameSession(v.inv[e], x.inv[e])
  BY DEF Adds, SameSession
<1>3. Indices(w) \subseteq Indices(v) /\ Len(x.tsx) >= Len(w.tsx) /\ x.acks \subseteq w.acks
  BY <1>1, <1>2 DEF Indices, Little
<1>4. \A s \in Indices(w) : x.tsx[s] = v.tsx[s]
  BY <1>2, <1>3
<1>5. \A t \in Indices(w) : Minor(w, x, t)
  BY <1>4 DEF Little, Minor
<1>6. \A e \in Ends : Idle(w, x, e)
  <2>1. SUFFICES ASSUME NEW e \in Ends
                 PROVE  Idle(w, x, e)
    OBVIOUS
  <2>2. Idle(w, v, e) /\ SameSession(v.inv[e], x.inv[e]) /\ x.neg[e] = v.neg[e]
    BY <1>2 DEF Little
  <2>3. Remembers(w, x, e)
    BY <1>4, <2>2 DEF Idle, Remembers, SameSession
  <2>4. QED
    BY <2>2, <2>3 DEF Idle, SameSession
<1>7. \A t \in Indices(x) : t > Len(w.tsx) =>
         x.tsx[t].method = "CANCEL" /\ x.tsx[t].body = 0 /\ ~x.tsx[t].answered
  <2>1. SUFFICES ASSUME NEW t \in Indices(x), t > Len(w.tsx)
                 PROVE  x.tsx[t].method = "CANCEL" /\ x.tsx[t].body = 0 /\ ~x.tsx[t].answered
    OBVIOUS
  <2>2. t \in Indices(v) \/ t = Len(v.tsx) + 1
    BY <1>1, <1>2 DEF Indices
  <2>3. QED
    BY <1>2, <2>1, <2>2 DEF Little, Fresh
<1>8. QED
  BY <1>2, <1>3, <1>5, <1>6, <1>7 DEF Little

-----------------------------------------------------------------------------
(* A handler is done *)

\* A transaction that is tidied, or that is not.
LEMMA TidySame ==
  ASSUME NEW x \in Transactions(Nat, Nat)
  PROVE  LET y == Tidy(x)
         IN  /\ y.method = x.method /\ y.from = x.from /\ y.client = x.client
             /\ y.server = x.server /\ (y.status = x.status \/ y.status = 0)
             /\ x.client # "terminated" \/ x.server # "terminated" => y = x
<1> DEFINE y == Tidy(x)
<1>1. \/ Alike(x, y)
      \/ /\ y.client = "terminated" /\ y.server = "terminated"
         /\ x.client = "terminated" /\ x.server = "terminated"
         /\ y.method = x.method /\ y.from = x.from /\ y.of = x.of /\ y.code = x.code
         /\ y.status = 0
  BY TidyAlike
<1>2. x.client # "terminated" \/ x.server # "terminated" => y = x
  BY DEF Tidy
<1> HIDE DEF y
<1>3. QED
  BY <1>1, <1>2 DEF Alike, y

\* Nobody looks at what is tidied.
LEMMA TidyDealing ==
  ASSUME NEW w, Sound(w), Len(w.tsx) > 0, Dealing(w), Course(Tidied(w))
  PROVE  Dealing(Tidied(w))
<1> DEFINE q == [t \in 1..Len(w.tsx) |-> Tidy(w.tsx[t])]
           v == [w EXCEPT !.tsx = q]
<1>1. /\ w \in Worlds /\ Len(w.tsx) \in Nat
      /\ \A t \in 1..Len(w.tsx) : w.tsx[t] \in Transactions(Nat, Nat)
  BY SoundParts
<1>2. Course(v)
  BY DEF Tidied
<1>3. v.tsx = q /\ v.inv = w.inv /\ v.neg = w.neg /\ v.acks = w.acks
  BY <1>1 DEF Worlds
<1>4. Len(q) = Len(w.tsx)
  BY <1>1
<1>5. \A t \in Indices(w) :
         /\ q[t].method = w.tsx[t].method /\ q[t].from = w.tsx[t].from
         /\ q[t].client = w.tsx[t].client /\ q[t].server = w.tsx[t].server
         /\ q[t].status = w.tsx[t].status \/ q[t].status = 0
         /\ w.tsx[t].client # "terminated" \/ w.tsx[t].server # "terminated" => q[t] = w.tsx[t]
  BY <1>1, TidySame DEF Indices
<1>6. v = Tidied(w)
  BY DEF Tidied
<1> HIDE DEF q, v
<1>7. Indices(v) = Indices(w) /\ 1 \in Indices(w)
  BY <1>1, <1>3, <1>4 DEF Indices
<1>8. \A t \in Indices(w) :
         /\ v.tsx[t].method = w.tsx[t].method /\ v.tsx[t].from = w.tsx[t].from
         /\ v.tsx[t].client = w.tsx[t].client /\ v.tsx[t].server = w.tsx[t].server
         /\ v.tsx[t].status = w.tsx[t].status \/ v.tsx[t].status = 0
         /\ w.tsx[t].client # "terminated" \/ w.tsx[t].server # "terminated" =>
               v.tsx[t] = w.tsx[t]
  BY <1>3, <1>5
<1>9. \A t, u : /\ Open(v, t, u) <=> Open(w, t, u)
                /\ Open(w, t, u) => v.tsx[t] = w.tsx[t]
  BY <1>7, <1>8 DEF Open
<1>10. \A t, u : /\ Serving(v, t, u) <=> Serving(w, t, u)
                 /\ Serving(w, t, u) => v.tsx[t] = w.tsx[t]
  BY <1>3, <1>7, <1>8 DEF Serving
<1>11. \A t, u : Carried(v, t, u) <=> Carried(w, t, u)
  BY <1>9 DEF Carried
<1>12. \A t, u : /\ Asked(v, t, u) <=> Asked(w, t, u)
                 /\ Acked(v, t, u) <=> Acked(w, t, u)
  BY <1>3, <1>10 DEF Asked, Acked
<1>13. \A u : (Stuck(v, u) <=> Stuck(w, u)) /\ (Due(v, u) <=> Due(w, u))
  BY <1>3, <1>7, <1>9, <1>10, <1>11, <1>12 DEF Stuck, Due
<1>14. Notes(v)
  BY <1>3, <1>7, <1>8 DEF Dealing, Notes
<1>15. Accepted(v)
  <2>1. SUFFICES ASSUME NEW ack \in w.acks
                 PROVE  /\ ack.t \in Indices(v) /\ v.tsx[ack.t].method = "INVITE"
                        /\ v.tsx[ack.t].client = "terminated"
                        /\ v.tsx[ack.t].server \in {"completed", "terminated"}
                        /\ v.tsx[ack.t].status < 300
    BY <1>3 DEF Accepted
  <2>2. /\ ack.t \in Indices(w) /\ w.tsx[ack.t].method = "INVITE"
        /\ w.tsx[ack.t].client = "terminated"
        /\ w.tsx[ack.t].server \in {"completed", "terminated"}
        /\ w.tsx[ack.t].status < 300
    BY DEF Dealing, Accepted
  <2>3. v.tsx[ack.t].status < 300
    BY <1>8, <2>2
  <2>4. QED
    BY <1>7, <1>8, <2>2, <2>3
<1>16. Requests(v)
  BY <1>3, <1>7, <1>8 DEF Dealing, Requests
<1>17. Connecting(v)
  <2>1. 0 \notin 200..299
    OBVIOUS
  <2>2. \A t \in Indices(w) :
           w.tsx[t].status \notin 200..299 => v.tsx[t].status \notin 200..299
    BY <1>8, <2>1
  <2>3. w.tsx[1].server = "completed" => v.tsx[1] = w.tsx[1]
    BY <1>7, <1>8
  <2>4. SUFFICES ASSUME NEW u \in Ends, v.inv[u].state = "CONNECTING"
                 PROVE  /\ u = "callee" /\ v.inv[u].invite_tsx = 1
                        /\ v.tsx[1].server = "completed" /\ v.tsx[1].status < 300
                        /\ \A t \in Indices(v) :
                              t # 1 /\ v.tsx[t].method = "INVITE" => v.tsx[t].status \notin 200..299
    BY DEF Connecting
  <2>5. /\ u = "callee" /\ w.inv[u].invite_tsx = 1
        /\ w.tsx[1].server = "completed" /\ w.tsx[1].status < 300
        /\ \A t \in Indices(w) :
              t # 1 /\ w.tsx[t].method = "INVITE" => w.tsx[t].status \notin 200..299
    BY <1>3, <2>4 DEF Dealing, Connecting
  <2>6. \A t \in Indices(v) :
           t # 1 /\ v.tsx[t].method = "INVITE" => v.tsx[t].status \notin 200..299
    BY <1>7, <1>8, <2>2, <2>5
  <2>7. QED
    BY <1>3, <2>3, <2>5, <2>6
<1>18. ASSUME NEW u \in Ends, v.inv[u].state = "CONFIRMED"
       PROVE  Steady(v, u)
  <2>1. Steady(w, u)
    BY <1>3, <1>18 DEF Dealing
  <2>2. \A t \in Indices(w) : Open(w, t, u) => AsksFor(v, t, u)
    BY <1>3, <1>7, <1>9, <2>1 DEF Steady, AsksFor
  <2>3. ASSUME NEW t \in Indices(w), Serving(w, t, u)
        PROVE  Answers(v, t, u)
    <3>1. Answers(w, t, u) /\ v.tsx[t] = w.tsx[t]
      BY <1>10, <2>1, <2>3 DEF Steady
    <3>2. QED
      BY <1>3, <1>7, <1>9, <3>1 DEF Answers
  <2>4. QED
    BY <1>3, <1>7, <1>9, <1>10, <2>1, <2>2, <2>3 DEF Steady
<1>19. ASSUME v.inv["callee"].state \in {"INCOMING", "EARLY", "CONNECTING"}
       PROVE  CalleeRings(v)
  <2>1. CalleeRings(w)
    BY <1>3, <1>19 DEF Dealing
  <2>2. v.tsx[1].server \in {"proceeding", "completed"}
    <3>1. CASE v.inv["callee"].state = "CONNECTING"
      BY <1>17, <3>1 DEF Connecting, Ends
    <3>2. CASE v.inv["callee"].state \in {"INCOMING", "EARLY"}
      BY <1>2, <3>2 DEF Course
    <3>3. QED
      BY <1>19, <3>1, <3>2
  <2>3. v.tsx[1] = w.tsx[1]
    BY <1>7, <1>8, <2>2
  <2>4. QED
    BY <1>3, <2>1, <2>3 DEF CalleeRings
<1>20. ASSUME v.inv["caller"].state \in {"CALLING", "EARLY"}
       PROVE  CallerRings(v)
  <2>1. CallerRings(w)
    BY <1>3, <1>20 DEF Dealing
  <2>2. v.tsx[1].client = "calling"
    BY <1>2, <1>20 DEF Course
  <2>3. v.tsx[1] = w.tsx[1]
    BY <1>7, <1>8, <2>2
  <2>4. QED
    BY <1>3, <2>1, <2>3 DEF CallerRings
<1>21. ASSUME Joined(v)
       PROVE  Agreed(v)
  <2>1. Agreed(w)
    BY <1>3, <1>21 DEF Dealing, Joined
  <2>2. \A u \in Ends, t \in Indices(v) : Rests(v, t, u)
    <3>1. SUFFICES ASSUME NEW u \in Ends, NEW t \in Indices(w)
                   PROVE  Rests(v, t, u)
      BY <1>7
    <3>2. Rests(w, t, u)
      BY <2>1 DEF Agreed
    <3>3. Carried(w, t, u) => v.tsx[t] = w.tsx[t]
      BY <1>9 DEF Carried
    <3>4. QED
      BY <1>3, <1>9, <1>10, <1>11, <1>12, <1>13, <3>2, <3>3 DEF Rests
  <2>3. QED
    BY <1>3, <1>13, <2>1, <2>2 DEF Agreed, Matched
<1>22. Unheard(v)
  BY <1>3, <1>7, <1>8 DEF Dealing, Unheard
<1>23. QED
  BY <1>6, <1>14, <1>15, <1>16, <1>17, <1>18, <1>19, <1>20, <1>21, <1>22 DEF Dealing

\* What a handler leaves.
Settles(v) == Sound(v) /\ (Parted(v) \/ Dealing(v))

\* The end of the exchange of offers, or its invariant.
DealInv(w) ==
    IF Len(w.tsx) = 0
    THEN w.acks = {} /\ \A u \in Ends : w.inv[u] = NoSession /\ w.neg[u] = NoNegotiator
    ELSE Parted(w) \/ Dealing(w)

\* So the exchange of offers goes on.
LEMMA DealsOn ==
  ASSUME IInv', NEW v, Settles(v), Len(v.tsx) > 0, Becomes(v)
  PROVE  DealInv(World')
<1>1. Sound(v) /\ World' = Tidied(v)
  BY Becoming DEF Settles
<1>2. Tidied(v).tsx = [t \in 1..Len(v.tsx) |-> Tidy(v.tsx[t])]
  <2> DEFINE q == [t \in 1..Len(v.tsx) |-> Tidy(v.tsx[t])]
  <2> HIDE DEF q
  <2>1. [v EXCEPT !.tsx = q].tsx = q
    BY <1>1, SoundParts DEF Worlds
  <2>2. QED
    BY <2>1 DEF q, Tidied
<1>3. Len(Tidied(v).tsx) = Len(v.tsx) /\ Len(v.tsx) \in Nat
  BY <1>1, <1>2, SoundParts
<1>4. CASE Parted(v)
  <2>1. PICK t \in Indices(v) : v.tsx[t].method = "BYE"
    BY <1>4 DEF Parted
  <2>2. Tidied(v).tsx[t] = Tidy(v.tsx[t]) /\ v.tsx[t] \in Transactions(Nat, Nat)
    BY <1>1, <1>2, SoundParts DEF Indices
  <2>3. Tidied(v).tsx[t].method = "BYE"
    BY <2>1, <2>2, TidySame
  <2>4. t \in Indices(Tidied(v))
    BY <1>3 DEF Indices
  <2>5. Parted(Tidied(v))
    BY <2>3, <2>4 DEF Parted
  <2>6. QED
    BY <1>1, <1>3, <2>5 DEF DealInv
<1>5. CASE Dealing(v)
  <2>1. Course(Tidied(v))
    BY <1>1 DEF IInv
  <2>2. Dealing(Tidied(v))
    BY <1>1, <1>5, <2>1, TidyDealing
  <2>3. QED
    BY <1>1, <1>3, <2>2 DEF DealInv
<1>6. QED
  BY <1>4, <1>5 DEF Settles

=============================================================================
