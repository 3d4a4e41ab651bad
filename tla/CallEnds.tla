------------------------------ MODULE CallEnds ------------------------------
(***************************************************************************)
(* The two ends of a call end it together, for any Budget, if the          *)
(* applications are patient: the theorem EndsTogether about Call.          *)
(*                                                                         *)
(* What an end that is done with the call relies on to tell the other one  *)
(* is a BYE that it sent and the other did not see yet, a BYE of the other *)
(* end, or the refusal of the INVITE.  A handler is followed through the   *)
(* operators on the world that it is made of: each one sends a request     *)
(* (Asks), brings an end to a state (Sets), brings a transaction to a      *)
(* state at its client (Turns) or at its server (Serves), or does none of  *)
(* that (Still), and a lemma says of each when it keeps the invariant      *)
(* Ending.                                                                 *)
(***************************************************************************)
EXTENDS CallProofs

Indices(w) == 1..Len(w.tsx)

\* Transaction t is a BYE of u.
Bye(w, t, u) == t \in Indices(w) /\ w.tsx[t].method = "BYE" /\ w.tsx[t].from = u

\* The end u gave up waiting for the answer to a request.
GaveUp(w, u) == \E t \in Indices(w) : w.tsx[t].from = u /\ w.tsx[t].code = 408

\* A BYE of u is on its way.
Leaving(w, u) ==
    \E t \in Indices(w) : Bye(w, t, u) /\ w.tsx[t].client = "calling" /\ w.tsx[t].server = "none"

\* A BYE of u was taken and is never answered.
Unanswered(w, u) == \E t \in Indices(w) : Bye(w, t, u) /\ w.tsx[t].server = "trying"

\* A BYE of u has no answer yet.
Calling(w, u) == \E t \in Indices(w) : Bye(w, t, u) /\ w.tsx[t].client = "calling"

\* The caller does not know yet that the INVITE was refused.
Refused(w) == w.tsx[1].client = "calling" /\ w.tsx[1].status >= 300

\* What the end u can rely on when it is done with the call.
Excused(w, u) ==
    \/ GaveUp(w, u)
    \/ w.inv[Peer(u)].state = "DISCONNECTED"
    \/ Leaving(w, u)
    \/ Unanswered(w, u)
    \/ Calling(w, Peer(u))
    \/ u = "callee" /\ Refused(w)

\* The first transaction is the caller's INVITE, and the one that is cancelled.
Shape(w) ==
    /\ Len(w.tsx) \in Nat \ {0}
    /\ w.tsx[1].method = "INVITE" /\ w.tsx[1].from = "caller"
    /\ \A t \in Indices(w) : /\ w.tsx[t].from \in Ends
                             /\ w.tsx[t].method = "CANCEL" => w.tsx[t].of = 1

\* The two sides of a transaction agree: the server has sent what the client got.
Codes(w) ==
    \A t \in Indices(w) :
       /\ w.tsx[t].status \in Nat
       /\ w.tsx[t].server = "proceeding" => w.tsx[t].status < 200
       /\ w.tsx[t].status >= 200 => w.tsx[t].server \in {"completed", "terminated"}
       /\ w.tsx[t].client = "calling" => w.tsx[t].code < 200
       /\ w.tsx[t].client = "calling" /\ w.tsx[t].code >= 100 => w.tsx[t].server # "none"

\* Nothing else happens before the callee has the INVITE, and a caller that is past
\* ringing has its answer.
First(w) ==
    /\ Len(w.tsx) > 1 \/ w.inv["callee"].state # "NULL" => w.tsx[1].server # "none"
    /\ w.inv["caller"].state \in {"CONNECTING", "CONFIRMED"} =>
          w.tsx[1].server \in {"completed", "terminated"}
    /\ Refused(w) => w.inv["callee"].state = "DISCONNECTED"

\* A BYE of u: u asks for nothing else while it waits for the answer, and an answer
\* means that the other end is done with the call or has kept another BYE of u.
ByeOf(w, t, u) ==
    /\ w.inv[u].state \in {"CONNECTING", "CONFIRMED", "DISCONNECTED"}
    /\ w.tsx[t].client = "calling" =>
          \A i \in Indices(w) : i > t /\ w.tsx[i].from = u => w.tsx[i].method = "BYE"
    /\ w.tsx[t].client # "calling" => w.inv[u].state = "DISCONNECTED"
    /\ w.tsx[t].server \in {"none", "trying", "terminated"}
    /\ w.tsx[t].server = "trying" => w.tsx[t].client = "calling" \/ w.tsx[t].code = 408
    /\ w.tsx[t].server = "terminated" =>
          w.inv[Peer(u)].state = "DISCONNECTED" \/ Unanswered(w, u)

Byes(w) == \A u \in Ends, t \in Indices(w) : Bye(w, t, u) => ByeOf(w, t, u)

Together(w) == \A u \in Ends : w.inv[u].state = "DISCONNECTED" => Excused(w, u)

Ending(w) == Shape(w) /\ Codes(w) /\ First(w) /\ Byes(w) /\ Together(w)

\* A transaction that an end has noted, or that an ACK is for, is one that the end or
\* the server of the INVITE has received.
Received(w) ==
    /\ \A u \in Ends : w.inv[u].remote_cseq # 0 =>
          /\ w.inv[u].remote_cseq \in Indices(w)
          /\ w.tsx[w.inv[u].remote_cseq].from # u
          /\ w.tsx[w.inv[u].remote_cseq].server # "none"
    /\ \A ack \in w.acks : ack.t \in Indices(w) /\ w.tsx[ack.t].server # "none"

\* The invariant.  Before the INVITE there is nothing.
EndInv(w) ==
    IF Len(w.tsx) = 0
    THEN w.acks = {} /\ \A u \in Ends : w.inv[u].state = "NULL" /\ w.inv[u].remote_cseq = 0
    ELSE Ending(w) /\ Received(w)

-----------------------------------------------------------------------------
(* What an operator on the world does *)

Alike(x, y) ==
    /\ y.method = x.method /\ y.from = x.from /\ y.of = x.of
    /\ y.client = x.client /\ y.code = x.code
    /\ y.server = x.server /\ y.status = x.status

\* All but the states of the ends U and of the transactions T.
Apart(w, v, U, T) ==
    /\ Len(v.tsx) = Len(w.tsx) /\ v.acks = w.acks
    /\ \A u \in Ends : v.inv[u].remote_cseq = w.inv[u].remote_cseq
    /\ \A u \in Ends \ U : v.inv[u].state = w.inv[u].state
    /\ \A t \in Indices(w) \ T : Alike(w.tsx[t], v.tsx[t])
    /\ \A t \in Indices(w) : /\ v.tsx[t].method = w.tsx[t].method
                             /\ v.tsx[t].from = w.tsx[t].from /\ v.tsx[t].of = w.tsx[t].of

Still(w, v) == Apart(w, v, {}, {})

Sets(w, v, u, s) == Apart(w, v, {u}, {}) /\ v.inv[u].state = s

Turns(w, v, t, client, code) ==
    /\ Apart(w, v, {}, {t})
    /\ v.tsx[t].client = client /\ v.tsx[t].code = code
    /\ v.tsx[t].server = w.tsx[t].server /\ v.tsx[t].status = w.tsx[t].status

Serves(w, v, t, server, status) ==
    /\ Apart(w, v, {}, {t})
    /\ v.tsx[t].server = server /\ v.tsx[t].status = status
    /\ v.tsx[t].client = w.tsx[t].client /\ v.tsx[t].code = w.tsx[t].code

Asks(w, v, u, method, of) ==
    LET n == Len(w.tsx) + 1
    IN  /\ Len(v.tsx) = n /\ v.acks = w.acks
        /\ \A x \in Ends : /\ v.inv[x].remote_cseq = w.inv[x].remote_cseq
                           /\ v.inv[x].state = w.inv[x].state
        /\ \A t \in Indices(w) : Alike(w.tsx[t], v.tsx[t])
        /\ v.tsx[n].method = method /\ v.tsx[n].from = u /\ v.tsx[n].of = of
        /\ v.tsx[n].client = "calling" /\ v.tsx[n].code = 0
        /\ v.tsx[n].server = "none" /\ v.tsx[n].status = 0

\* What has been received stays so, and an ACK that is new is for a request that was.
Kept(w, v) ==
    /\ Len(v.tsx) >= Len(w.tsx)
    /\ \A u \in Ends : v.inv[u].remote_cseq = w.inv[u].remote_cseq
    /\ \A t \in Indices(w) : /\ v.tsx[t].method = w.tsx[t].method
                             /\ v.tsx[t].from = w.tsx[t].from
                             /\ w.tsx[t].server # "none" => v.tsx[t].server # "none"
    /\ \A ack \in v.acks : \/ ack \in w.acks
                           \/ ack.t \in Indices(v) /\ v.tsx[ack.t].server # "none"

\* The invariant goes on.
Goes(w, v) == Sound(v) /\ Ending(v) /\ Kept(w, v)

-----------------------------------------------------------------------------
(* The operators *)

\* What concerns the media only.
LEMMA MediaStill ==
  ASSUME NEW w, NEW v, Media(w, v)
  PROVE  Still(w, v)
BY DEF Media, Still, Apart, Alike, Indices

\* What changes in one transaction only.
LEMMA OneTsx ==
  ASSUME NEW w, Sound(w), NEW t \in Indices(w), NEW x \in Transactions(Nat, Nat),
         x.method = w.tsx[t].method, x.from = w.tsx[t].from, x.of = w.tsx[t].of
  PROVE  LET v == [w EXCEPT !.tsx[t] = x]
         IN  /\ Sound(v) /\ Apart(w, v, {}, {t}) /\ v.tsx[t] = x
             /\ v.neg = w.neg /\ v.inv = w.inv
<1> DEFINE v == [w EXCEPT !.tsx[t] = x]
<1>1. /\ Sound(v) /\ Len(v.tsx) = Len(w.tsx)
      /\ v.tsx[t] = x /\ \A i \in 1..Len(w.tsx) \ {t} : v.tsx[i] = w.tsx[i]
      /\ v.neg = w.neg /\ v.inv = w.inv /\ v.acks = w.acks
  BY PutTsxSound DEF Indices
<1> HIDE DEF v
<1>2. Apart(w, v, {}, {t})
  BY <1>1 DEF Apart, Alike, Indices
<1>3. QED
  BY <1>1, <1>2 DEF v

\* What changes in one session only.
LEMMA OneInv ==
  ASSUME NEW w, Sound(w), NEW u \in Ends, NEW r \in Sessions(Nat, Nat),
         r.prov = w.inv[u].prov, r.invite_tsx \in 0..Len(w.tsx),
         r.remote_cseq = w.inv[u].remote_cseq
  PROVE  LET v == [w EXCEPT !.inv[u] = r]
         IN  /\ Sound(v) /\ Apart(w, v, {u}, {}) /\ v.inv[u] = r
             /\ v.neg = w.neg /\ v.tsx = w.tsx
<1> DEFINE v == [w EXCEPT !.inv[u] = r]
<1>1. /\ Sound(v) /\ v.inv[u] = r /\ \A x \in Ends \ {u} : v.inv[x] = w.inv[x]
      /\ v.neg = w.neg /\ v.tsx = w.tsx /\ v.acks = w.acks
  BY PutInvSound
<1> HIDE DEF v
<1>2. Apart(w, v, {u}, {})
  BY <1>1 DEF Apart, Alike, Indices
<1>3. QED
  BY <1>1, <1>2 DEF v

\* One thing after another.
LEMMA ApartTrans ==
  ASSUME NEW w, NEW v, NEW x, NEW U, NEW T, Apart(w, v, U, T), Apart(v, x, U, T)
  PROVE  Apart(w, x, U, T)
BY DEF Apart, Alike, Indices

\* pjsip_dlg_send_response.
LEMMA ResponseServes ==
  ASSUME NEW w, Sound(w), NEW t \in Indices(w), NEW status \in Nat, NEW body \in Nat
  PROVE  LET v == SendResponse(w, t, status, body)
             server == IF status < 200 THEN "proceeding"
                       ELSE IF w.tsx[t].method = "INVITE" THEN "completed" ELSE "terminated"
         IN  Sound(v) /\ Serves(w, v, t, server, status)
<1> DEFINE server == IF status < 200 THEN "proceeding"
                     ELSE IF w.tsx[t].method = "INVITE" THEN "completed" ELSE "terminated"
           q == w.tsx[t]
           x == [q EXCEPT !.status = status]
           y == [x EXCEPT !.body = body]
           z == [y EXCEPT !.server = server]
           a == [w EXCEPT !.tsx[t] = x]
           b == [a EXCEPT !.tsx[t] = y]
           c == [b EXCEPT !.tsx[t] = z]
<1>1. q \in Transactions(Nat, Nat)
  BY SoundParts DEF Indices
<1>2. /\ x \in Transactions(Nat, Nat) /\ y \in Transactions(Nat, Nat)
      /\ z \in Transactions(Nat, Nat)
      /\ x.method = q.method /\ x.from = q.from /\ x.of = q.of
      /\ y.method = q.method /\ y.from = q.from /\ y.of = q.of
      /\ z.method = q.method /\ z.from = q.from /\ z.of = q.of
      /\ z.client = q.client /\ z.code = q.code /\ z.server = server /\ z.status = status
  BY <1>1 DEF Transactions
<1>3. ASSUME a.tsx[t] = x, b.tsx[t] = y
      PROVE  SendResponse(w, t, status, body) = c
  BY <1>3 DEF SendResponse
<1> HIDE DEF x, y, z, server
<1>4. Sound(a) /\ Apart(w, a, {}, {t}) /\ a.tsx[t] = x
  BY <1>2, OneTsx
<1> HIDE DEF a
<1>5. t \in Indices(a)
  BY <1>4 DEF Apart, Indices
<1>6. Sound(b) /\ Apart(a, b, {}, {t}) /\ b.tsx[t] = y
  BY <1>2, <1>4, <1>5, OneTsx
<1> HIDE DEF b
<1>7. t \in Indices(b)
  BY <1>5, <1>6 DEF Apart, Indices
<1>8. Sound(c) /\ Apart(b, c, {}, {t}) /\ c.tsx[t] = z
  BY <1>2, <1>6, <1>7, OneTsx
<1> HIDE DEF c
<1>9. Apart(w, c, {}, {t})
  BY <1>4, <1>6, <1>8, ApartTrans
<1>10. Serves(w, c, t, server, status)
  BY <1>2, <1>8, <1>9 DEF Serves
<1>11. QED
  BY <1>3, <1>4, <1>6, <1>8, <1>10 DEF server

\* The server transaction comes to a state with no response.
LEMMA MarkServes ==
  ASSUME NEW w, Sound(w), NEW t \in Indices(w), NEW s \in {"trying", "terminated"}
  PROVE  LET v == [w EXCEPT !.tsx[t].server = s]
         IN  Sound(v) /\ Serves(w, v, t, s, w.tsx[t].status) /\ v.inv = w.inv
<1> DEFINE q == w.tsx[t]
           x == [q EXCEPT !.server = s]
           v == [w EXCEPT !.tsx[t] = x]
<1>1. q \in Transactions(Nat, Nat)
  BY SoundParts DEF Indices
<1>2. /\ x \in Transactions(Nat, Nat)
      /\ x.method = q.method /\ x.from = q.from /\ x.of = q.of /\ x.server = s
      /\ x.client = q.client /\ x.code = q.code /\ x.status = q.status
  BY <1>1 DEF Transactions
<1>3. v = [w EXCEPT !.tsx[t].server = s]
  OBVIOUS
<1> HIDE DEF x
<1>4. Sound(v) /\ Apart(w, v, {}, {t}) /\ v.tsx[t] = x /\ v.inv = w.inv
  BY <1>2, OneTsx
<1> HIDE DEF v
<1>5. Serves(w, v, t, s, w.tsx[t].status)
  BY <1>2, <1>4 DEF Serves
<1>6. QED
  BY <1>3, <1>4, <1>5

\* The client transaction enters a state.
LEMMA ClientTurns ==
  ASSUME NEW w, Sound(w), NEW t \in Indices(w),
         NEW client \in {"calling", "completed", "terminated"}, NEW code \in Nat
  PROVE  LET v == ClientEnters(w, t, client, code)
         IN  Sound(v) /\ Turns(w, v, t, client, code) /\ v.inv = w.inv
<1> DEFINE q == w.tsx[t]
           y == [q EXCEPT !.client = client]
           z == [y EXCEPT !.code = code]
           a == [w EXCEPT !.tsx[t] = y]
           v == [a EXCEPT !.tsx[t] = z]
<1>1. q \in Transactions(Nat, Nat)
  BY SoundParts DEF Indices
<1>2. /\ y \in Transactions(Nat, Nat) /\ z \in Transactions(Nat, Nat)
      /\ y.method = q.method /\ y.from = q.from /\ y.of = q.of
      /\ z.method = q.method /\ z.from = q.from /\ z.of = q.of
      /\ z.client = client /\ z.code = code /\ z.server = q.server /\ z.status = q.status
  BY <1>1 DEF Transactions
<1>3. ASSUME a.tsx[t] = y
      PROVE  ClientEnters(w, t, client, code) = v
  BY <1>3 DEF ClientEnters
<1> HIDE DEF y, z
<1>4. Sound(a) /\ Apart(w, a, {}, {t}) /\ a.tsx[t] = y /\ a.inv = w.inv
  BY <1>2, OneTsx
<1> HIDE DEF a
<1>5. t \in Indices(a)
  BY <1>4 DEF Apart, Indices
<1>6. Sound(v) /\ Apart(a, v, {}, {t}) /\ v.tsx[t] = z /\ v.inv = a.inv
  BY <1>2, <1>4, <1>5, OneTsx
<1> HIDE DEF v
<1>7. Apart(w, v, {}, {t})
  BY <1>4, <1>6, ApartTrans
<1>8. Turns(w, v, t, client, code)
  BY <1>2, <1>6, <1>7 DEF Turns
<1>9. QED
  BY <1>3, <1>4, <1>6, <1>8

\* inv_set_state, to any state but DISCONNECTED.
LEMMA StateSets ==
  ASSUME NEW w, Sound(w), NEW u \in Ends, NEW s \in States
  PROVE  LET v == SetState(w, u, s)
         IN  Sound(v) /\ Sets(w, v, u, s)
<1> DEFINE r == [w.inv[u] EXCEPT !.state = s]
           v == [w EXCEPT !.inv[u] = r]
<1>1. w.inv[u] \in Sessions(Nat, Nat) /\ w.inv[u].invite_tsx \in 0..Len(w.tsx)
  BY SoundParts
<1>2. /\ r \in Sessions(Nat, Nat) /\ r.prov = w.inv[u].prov /\ r.state = s
      /\ r.invite_tsx = w.inv[u].invite_tsx /\ r.remote_cseq = w.inv[u].remote_cseq
  BY <1>1 DEF Sessions
<1>3. SetState(w, u, s) = v
  BY DEF SetState
<1> HIDE DEF r
<1>4. Sound(v) /\ Apart(w, v, {u}, {}) /\ v.inv[u] = r
  BY <1>1, <1>2, OneInv, ZenonT(60)
<1> HIDE DEF v
<1>5. QED
  BY <1>2, <1>3, <1>4 DEF Sets

\* inv_set_state to DISCONNECTED.
LEMMA DisconnectSets ==
  ASSUME NEW w, Sound(w), NEW u \in Ends
  PROVE  LET v == Disconnect(w, u)
         IN  Sound(v) /\ Sets(w, v, u, "DISCONNECTED") /\ v.tsx = w.tsx
<1> DEFINE r == [NoSession EXCEPT !.state = "DISCONNECTED", !.invite_tsx = w.inv[u].invite_tsx,
                                  !.remote_cseq = w.inv[u].remote_cseq]
           a == [w EXCEPT !.inv[u] = r]
           v == [a EXCEPT !.neg[u] = NoNegotiator]
<1>1. w \in Worlds /\ w.inv[u] \in Sessions(Nat, Nat)
  BY SoundParts
<1>2. r \in Sessions(Nat, Nat) /\ r.remote_cseq = w.inv[u].remote_cseq
  BY <1>1 DEF Sessions, NoSession, States
<1>3. NoNegotiator \in Negotiators(Nat)
  BY DEF NoNegotiator, Negotiators, NoCopy, Copy, Copies, Pools, NegStates
<1>4. Disconnect(w, u) = v
  BY DEF Disconnect
<1> HIDE DEF r
<1>5. /\ a \in Worlds
      /\ a.inv[u] = r /\ \A x \in Ends \ {u} : a.inv[x] = w.inv[x]
  BY <1>1, <1>2, PutInv
<1> HIDE DEF a
<1>6. v.inv = a.inv
  BY <1>3, <1>5, PutNeg
<1>7. v.inv[u].remote_cseq = w.inv[u].remote_cseq
  BY <1>2, <1>5, <1>6
<1>8. /\ Sound(Disconnect(w, u)) /\ Disconnect(w, u).tsx = w.tsx
      /\ Disconnect(w, u).acks = w.acks
      /\ Disconnect(w, u).inv[u].state = "DISCONNECTED"
      /\ \A x \in Ends \ {u} : Disconnect(w, u).inv[x] = w.inv[x]
  BY DisconnectEffect
<1> HIDE DEF v
<1>9. QED
  BY <1>4, <1>7, <1>8 DEF Sets, Apart, Alike, Indices

\* mod_inv_on_tsx_state forgets an invite_tsx.
LEMMA ForgetStill ==
  ASSUME NEW w, Sound(w), NEW u \in Ends, NEW t
  PROVE  Sound(Forget(w, u, t)) /\ Still(w, Forget(w, u, t))
<1> DEFINE i == IF w.inv[u].invite_tsx = t THEN 0 ELSE w.inv[u].invite_tsx
           r == [w.inv[u] EXCEPT !.invite_tsx = i]
           v == [w EXCEPT !.inv[u] = r]
<1>1. w.inv[u] \in Sessions(Nat, Nat) /\ w.inv[u].invite_tsx \in 0..Len(w.tsx)
      /\ Len(w.tsx) \in Nat
  BY SoundParts
<1>2. i \in 0..Len(w.tsx) /\ i \in Nat
  BY <1>1
<1>3. Forget(w, u, t) = v
  BY DEF Forget
<1> HIDE DEF i
<1>4. /\ r \in Sessions(Nat, Nat) /\ r.prov = w.inv[u].prov /\ r.state = w.inv[u].state
      /\ r.invite_tsx = i /\ r.remote_cseq = w.inv[u].remote_cseq
  BY <1>1, <1>2 DEF Sessions
<1> HIDE DEF r
<1>5. Sound(v) /\ Apart(w, v, {u}, {}) /\ v.inv[u] = r
  BY <1>2, <1>4, OneInv
<1> HIDE DEF v
<1>6. Still(w, v)
  BY <1>4, <1>5 DEF Still, Apart
<1>7. QED
  BY <1>3, <1>5, <1>6

\* pjsip_dlg_send_request.
LEMMA RequestAsks ==
  ASSUME NEW w, Sound(w), NEW u \in Ends, NEW method \in {"INVITE", "UPDATE", "BYE", "CANCEL"},
         NEW sdp \in Nat, NEW of \in 0..Len(w.tsx), method = "CANCEL" => of > 0
  PROVE  LET v == SendRequest(w, u, method, sdp, of)
         IN  Sound(v) /\ Asks(w, v, u, method, of)
<1>4. Sound(SendRequest(w, u, method, sdp, of))
  <2>1. /\ method \in {"INVITE", "UPDATE", "BYE", "CANCEL"} /\ of \in 0..Len(w.tsx)
        /\ method = "CANCEL" => of > 0
    OBVIOUS
  <2>2. QED
    BY <2>1, SendRequestEffect
<1> DEFINE n == Len(w.tsx) + 1
           q == [method |-> method, from |-> u, sdp |-> sdp, of |-> of,
                 client |-> "calling", code |-> 0, done |-> FALSE, expires |-> FALSE,
                 server |-> "none", status |-> 0, body |-> 0, answered |-> FALSE]
           i == IF method = "INVITE" THEN n ELSE w.inv[u].invite_tsx
           r == [w.inv[u] EXCEPT !.invite_tsx = i]
           s == Append(w.tsx, q)
           a == [w EXCEPT !.tsx = s]
           v == [a EXCEPT !.inv[u] = r]
<1>1. /\ w \in Worlds /\ w.inv[u] \in Sessions(Nat, Nat) /\ Len(w.tsx) \in Nat
      /\ w.tsx \in Seq(Transactions(Nat, Nat)) /\ w.inv[u].invite_tsx \in 0..Len(w.tsx)
  BY SoundParts
<1>2. q \in Transactions(Nat, Nat)
  BY <1>1 DEF Transactions
<1>3. ASSUME a.inv[u] = w.inv[u]
      PROVE  SendRequest(w, u, method, sdp, of) = v
  BY <1>3 DEF SendRequest
<1>5. i \in Nat
  BY <1>1
<1> HIDE DEF i
<1>6. /\ r \in Sessions(Nat, Nat) /\ r.state = w.inv[u].state
      /\ r.remote_cseq = w.inv[u].remote_cseq
  BY <1>1, <1>5 DEF Sessions
<1> HIDE DEF r
<1>7. s \in Seq(Transactions(Nat, Nat)) /\ Len(s) = n /\ s[n] = q
      /\ \A t \in 1..Len(w.tsx) : s[t] = w.tsx[t]
  <2> HIDE DEF q
  <2>1. QED
    BY <1>1, <1>2
<1>13. /\ q.method = method /\ q.from = u /\ q.of = of /\ q.client = "calling" /\ q.code = 0
       /\ q.server = "none" /\ q.status = 0
  OBVIOUS
<1> HIDE DEF s, q
<1>8. a \in Worlds /\ a.tsx = s /\ a.inv = w.inv /\ a.acks = w.acks
  BY <1>1, <1>7 DEF Worlds
<1> HIDE DEF a
<1>9. /\ v.inv[u] = r /\ \A x \in Ends \ {u} : v.inv[x] = w.inv[x]
      /\ v.tsx = s /\ v.acks = w.acks
  <2>1. a \in Worlds /\ r \in Sessions(Nat, Nat)
    BY <1>6, <1>8
  <2>2. /\ v.inv[u] = r /\ \A x \in Ends \ {u} : v.inv[x] = a.inv[x]
        /\ v.tsx = a.tsx /\ v.acks = a.acks
    BY <2>1, PutInv, ZenonT(60)
  <2> HIDE DEF v
  <2>3. QED
    BY <1>8, <2>2
<1> HIDE DEF v
<1>10. \A x \in Ends : /\ v.inv[x].remote_cseq = w.inv[x].remote_cseq
                       /\ v.inv[x].state = w.inv[x].state
  BY <1>6, <1>9
<1>11. Asks(w, v, u, method, of)
  BY <1>7, <1>9, <1>10, <1>13 DEF Asks, Alike, Indices
<1>12. QED
  BY <1>3, <1>4, <1>8, <1>11

-----------------------------------------------------------------------------
(* What keeps the invariant *)

\* The excuses of an end stay while the BYEs, the refusal and the codes do.
LEMMA ExcuseStays ==
  ASSUME NEW w, NEW v, NEW u \in Ends, Excused(w, u),
         \A t \in Indices(w) :
            /\ t \in Indices(v)
            /\ v.tsx[t].method = w.tsx[t].method /\ v.tsx[t].from = w.tsx[t].from
            /\ w.tsx[t].code = 408 => v.tsx[t].code = 408
            /\ w.tsx[t].method = "BYE" =>
                  v.tsx[t].client = w.tsx[t].client /\ v.tsx[t].server = w.tsx[t].server,
         w.inv[Peer(u)].state = "DISCONNECTED" => v.inv[Peer(u)].state = "DISCONNECTED",
         Refused(w) => Refused(v)
  PROVE  Excused(v, u)
<1>1. CASE GaveUp(w, u)
  BY <1>1 DEF GaveUp, Excused
<1>2. CASE w.inv[Peer(u)].state = "DISCONNECTED"
  BY <1>2 DEF Excused
<1>3. CASE Leaving(w, u)
  BY <1>3 DEF Leaving, Bye, Excused
<1>4. CASE Unanswered(w, u)
  BY <1>4 DEF Unanswered, Bye, Excused
<1>5. CASE Calling(w, Peer(u))
  BY <1>5 DEF Calling, Bye, Excused
<1>6. CASE u = "callee" /\ Refused(w)
  BY <1>6 DEF Excused
<1>7. QED
  BY <1>1, <1>2, <1>3, <1>4, <1>5, <1>6 DEF Excused

\* The states of the ends and the transactions are all that counts.
LEMMA SameEnding ==
  ASSUME NEW w, Ending(w), NEW v, Len(v.tsx) = Len(w.tsx),
         \A u \in Ends : v.inv[u].state = w.inv[u].state,
         \A t \in Indices(w) : Alike(w.tsx[t], v.tsx[t])
  PROVE  Ending(v)
<1>1. /\ Len(w.tsx) \in Nat \ {0} /\ Len(v.tsx) = Len(w.tsx) /\ Indices(v) = Indices(w)
      /\ 1 \in Indices(w) /\ \A u \in Ends : v.inv[u].state = w.inv[u].state
      /\ \A t \in Indices(w) : Alike(w.tsx[t], v.tsx[t])
      /\ "caller" \in Ends /\ "callee" \in Ends /\ \A u \in Ends : Peer(u) \in Ends
  BY DEF Indices, Ending, Shape, Ends, Peer
<1>2. Refused(v) <=> Refused(w)
  BY <1>1 DEF Refused, Alike
<1>3. Shape(v)
  BY <1>1 DEF Ending, Shape, Alike
<1>4. Codes(v)
  BY <1>1 DEF Ending, Codes, Alike
<1>5. First(v)
  BY <1>1, <1>2 DEF Ending, First, Alike
<1>6. ASSUME NEW u \in Ends, NEW t \in Indices(v), Bye(v, t, u)
      PROVE  ByeOf(v, t, u)
  <2>1. Bye(w, t, u)
    BY <1>1, <1>6 DEF Bye, Alike
  <2>2. ByeOf(w, t, u)
    BY <2>1 DEF Ending, Byes, Bye
  <2>3. Unanswered(w, u) => Unanswered(v, u)
    BY <1>1 DEF Unanswered, Bye, Alike
  <2>4. Alike(w.tsx[t], v.tsx[t]) /\ Peer(u) \in Ends
    BY <1>1
  <2>5. v.tsx[t].client = "calling" =>
           \A i \in Indices(v) : i > t /\ v.tsx[i].from = u => v.tsx[i].method = "BYE"
    BY <1>1, <2>2, <2>4 DEF ByeOf, Alike
  <2>6. QED
    BY <1>1, <2>2, <2>3, <2>4, <2>5 DEF ByeOf, Alike
<1>7. Byes(v)
  BY <1>6 DEF Byes
<1>8. Together(v)
  <2>1. SUFFICES ASSUME NEW u \in Ends, v.inv[u].state = "DISCONNECTED"
                 PROVE  Excused(v, u)
    BY DEF Together
  <2>2. Excused(w, u)
    BY <1>1, <2>1 DEF Ending, Together
  <2>3. QED
    BY <1>1, <1>2, <2>2, ExcuseStays DEF Alike
<1>9. QED
  BY <1>3, <1>4, <1>5, <1>7, <1>8 DEF Ending

\* A request is sent after the callee has the INVITE.  A BYE is sent when the call was
\* answered, and nothing else after it.
LEMMA AsksEnding ==
  ASSUME NEW w, Ending(w), NEW v, NEW u \in Ends, NEW method, NEW of,
         Asks(w, v, u, method, of), w.tsx[1].server # "none",
         method = "CANCEL" => of = 1,
         IF method = "BYE" THEN w.inv[u].state \in {"CONNECTING", "CONFIRMED", "DISCONNECTED"}
                           ELSE ~Calling(w, u)
  PROVE  Ending(v)
<1> DEFINE n == Len(w.tsx) + 1
<1>1. /\ Len(w.tsx) \in Nat \ {0} /\ Len(v.tsx) = n /\ 1 \in Indices(w)
      /\ \A t \in Indices(v) : t \in Indices(w) \/ t = n
      /\ \A t \in Indices(w) : t \in Indices(v) /\ n > t /\ Alike(w.tsx[t], v.tsx[t])
      /\ \A x \in Ends : v.inv[x].state = w.inv[x].state
      /\ v.tsx[n].method = method /\ v.tsx[n].from = u /\ v.tsx[n].of = of
      /\ v.tsx[n].client = "calling" /\ v.tsx[n].code = 0
      /\ v.tsx[n].server = "none" /\ v.tsx[n].status = 0
      /\ n \in Indices(v) /\ n \in Nat
      /\ "caller" \in Ends /\ "callee" \in Ends /\ \A x \in Ends : Peer(x) \in Ends
  BY DEF Asks, Indices, Ending, Shape, Ends, Peer
<1> HIDE DEF n
<1>2. Refused(v) <=> Refused(w)
  BY <1>1 DEF Refused, Alike
<1>3. Shape(v)
  <2>1. ASSUME NEW t \in Indices(v)
        PROVE  v.tsx[t].from \in Ends /\ (v.tsx[t].method = "CANCEL" => v.tsx[t].of = 1)
    BY <1>1 DEF Ending, Shape, Alike
  <2>2. Len(v.tsx) \in Nat \ {0}
    BY <1>1 DEF n
  <2>3. QED
    BY <1>1, <2>1, <2>2 DEF Ending, Shape, Alike
<1>4. Codes(v)
  <2>1. SUFFICES ASSUME NEW t \in Indices(v)
                 PROVE  /\ v.tsx[t].status \in Nat
                        /\ v.tsx[t].server = "proceeding" => v.tsx[t].status < 200
                        /\ v.tsx[t].status >= 200 => v.tsx[t].server \in {"completed", "terminated"}
                        /\ v.tsx[t].client = "calling" => v.tsx[t].code < 200
                        /\ v.tsx[t].client = "calling" /\ v.tsx[t].code >= 100 =>
                              v.tsx[t].server # "none"
    BY DEF Codes
  <2>2. CASE t \in Indices(w)
    <3>1. Alike(w.tsx[t], v.tsx[t])
      BY <1>1, <2>2
    <3>2. /\ w.tsx[t].status \in Nat
          /\ w.tsx[t].server = "proceeding" => w.tsx[t].status < 200
          /\ w.tsx[t].status >= 200 => w.tsx[t].server \in {"completed", "terminated"}
          /\ w.tsx[t].client = "calling" => w.tsx[t].code < 200
          /\ w.tsx[t].client = "calling" /\ w.tsx[t].code >= 100 =>
                w.tsx[t].server # "none"
      BY <2>2 DEF Ending, Codes
    <3>3. QED
      BY <3>1, <3>2 DEF Alike
  <2>3. CASE t = n
    BY <1>1, <2>3
  <2>4. QED
    BY <1>1, <2>2, <2>3
<1>5. First(v)
  BY <1>1, <1>2 DEF Ending, First, Alike
<1>6. ASSUME NEW x \in Ends, NEW t \in Indices(v), Bye(v, t, x)
      PROVE  ByeOf(v, t, x)
  <2>1. CASE t = n
    <3>1. \A i \in Indices(v) : ~(i > n)
      BY <1>1 DEF Indices
    <3>2. QED
      BY <1>1, <1>6, <2>1, <3>1 DEF ByeOf, Bye
  <2>2. CASE t \in Indices(w)
    <3>1. Bye(w, t, x)
      BY <1>1, <1>6, <2>2 DEF Bye, Alike
    <3>2. ByeOf(w, t, x)
      BY <3>1 DEF Ending, Byes, Bye
    <3>3. Unanswered(w, x) => Unanswered(v, x)
      BY <1>1 DEF Unanswered, Bye, Alike
    <3>4. w.tsx[t].client = "calling" => (v.tsx[n].from = x => v.tsx[n].method = "BYE")
      BY <1>1, <3>1 DEF Calling, Bye
    <3>5. ASSUME w.tsx[t].client = "calling", NEW i \in Indices(v), i > t, v.tsx[i].from = x
          PROVE  v.tsx[i].method = "BYE"
      <4>1. CASE i = n
        BY <3>4, <3>5, <4>1
      <4>2. CASE i \in Indices(w)
        <5>1. Alike(w.tsx[i], v.tsx[i])
          BY <1>1, <4>2
        <5>2. QED
          BY <3>2, <3>5, <4>2, <5>1 DEF ByeOf, Alike, Indices
      <4>3. QED
        BY <1>1, <4>1, <4>2
    <3>6. w.tsx[t].client = "calling" =>
             \A i \in Indices(v) : i > t /\ v.tsx[i].from = x => v.tsx[i].method = "BYE"
      BY <3>5
    <3>7. Alike(w.tsx[t], v.tsx[t])
      BY <1>1, <2>2
    <3>8. QED
      BY <1>1, <3>2, <3>3, <3>6, <3>7 DEF ByeOf, Alike
  <2>3. QED
    BY <1>1, <2>1, <2>2
<1>7. Byes(v)
  BY <1>6 DEF Byes
<1>8. Together(v)
  <2>1. SUFFICES ASSUME NEW x \in Ends, v.inv[x].state = "DISCONNECTED"
                 PROVE  Excused(v, x)
    BY DEF Together
  <2>2. Excused(w, x)
    BY <1>1, <2>1 DEF Ending, Together
  <2>3. QED
    BY <1>1, <1>2, <2>2, ExcuseStays DEF Alike
<1>9. QED
  BY <1>3, <1>4, <1>5, <1>7, <1>8 DEF Ending

\* An end that is not done with the call comes to another state.
LEMMA SetsEnding ==
  ASSUME NEW w, Ending(w), NEW v, NEW u \in Ends, NEW s, Sets(w, v, u, s),
         s # "DISCONNECTED", w.inv[u].state # "DISCONNECTED",
         u = "callee" => w.tsx[1].server # "none",
         u = "caller" /\ s \in {"CONNECTING", "CONFIRMED"} =>
            w.tsx[1].server \in {"completed", "terminated"},
         s \in {"CONNECTING", "CONFIRMED"} \/ \A t \in Indices(w) : ~Bye(w, t, u)
  PROVE  Ending(v)
<1>1. /\ Len(w.tsx) \in Nat \ {0} /\ Len(v.tsx) = Len(w.tsx) /\ Indices(v) = Indices(w)
      /\ 1 \in Indices(w) /\ \A x \in Ends \ {u} : v.inv[x].state = w.inv[x].state
      /\ v.inv[u].state = s
      /\ \A t \in Indices(w) : Alike(w.tsx[t], v.tsx[t])
      /\ "caller" \in Ends /\ "callee" \in Ends /\ \A x \in Ends : Peer(x) \in Ends
  BY DEF Sets, Apart, Indices, Ending, Shape, Ends, Peer
<1>2. Refused(v) <=> Refused(w)
  BY <1>1 DEF Refused, Alike
<1>3. Shape(v)
  BY <1>1 DEF Ending, Shape, Alike
<1>4. Codes(v)
  BY <1>1 DEF Ending, Codes, Alike
<1>5. First(v)
  BY <1>1, <1>2 DEF Ending, First, Alike
<1>10. \A x \in Ends : w.inv[x].state = "DISCONNECTED" <=> v.inv[x].state = "DISCONNECTED"
  BY <1>1
<1>6. ASSUME NEW x \in Ends, NEW t \in Indices(v), Bye(v, t, x)
      PROVE  ByeOf(v, t, x)
  <2>1. Bye(w, t, x)
    BY <1>1, <1>6 DEF Bye, Alike
  <2>2. ByeOf(w, t, x)
    BY <2>1 DEF Ending, Byes, Bye
  <2>3. Unanswered(w, x) => Unanswered(v, x)
    BY <1>1 DEF Unanswered, Bye, Alike
  <2>4. v.inv[x].state \in {"CONNECTING", "CONFIRMED", "DISCONNECTED"}
    BY <1>1, <2>1, <2>2 DEF ByeOf, Bye
  <2>5. QED
    BY <1>1, <1>10, <1>6, <2>2, <2>3, <2>4 DEF ByeOf, Alike
<1>7. Byes(v)
  BY <1>6 DEF Byes
<1>8. Together(v)
  <2>1. SUFFICES ASSUME NEW x \in Ends, v.inv[x].state = "DISCONNECTED"
                 PROVE  Excused(v, x)
    BY DEF Together
  <2>2. Excused(w, x)
    BY <1>10, <2>1 DEF Ending, Together
  <2>3. QED
    BY <1>1, <1>2, <1>10, <2>2, ExcuseStays DEF Alike
<1>9. QED
  BY <1>3, <1>4, <1>5, <1>7, <1>8 DEF Ending

\* An end is done with the call, and has an excuse.
LEMMA OverEnding ==
  ASSUME NEW w, Ending(w), NEW v, NEW u \in Ends, Sets(w, v, u, "DISCONNECTED"),
         w.inv[u].state = "DISCONNECTED" \/ Excused(w, u),
         u = "callee" => w.tsx[1].server # "none"
  PROVE  Ending(v)
<1>1. /\ Len(w.tsx) \in Nat \ {0} /\ Len(v.tsx) = Len(w.tsx) /\ Indices(v) = Indices(w)
      /\ 1 \in Indices(w) /\ \A x \in Ends \ {u} : v.inv[x].state = w.inv[x].state
      /\ v.inv[u].state = "DISCONNECTED"
      /\ \A t \in Indices(w) : Alike(w.tsx[t], v.tsx[t])
      /\ "caller" \in Ends /\ "callee" \in Ends /\ \A x \in Ends : Peer(x) \in Ends
  BY DEF Sets, Apart, Indices, Ending, Shape, Ends, Peer
<1>2. Refused(v) <=> Refused(w)
  BY <1>1 DEF Refused, Alike
<1>3. Shape(v)
  BY <1>1 DEF Ending, Shape, Alike
<1>4. Codes(v)
  BY <1>1 DEF Ending, Codes, Alike
<1>5. First(v)
  BY <1>1, <1>2 DEF Ending, First, Alike
<1>10. \A x \in Ends : w.inv[x].state = "DISCONNECTED" => v.inv[x].state = "DISCONNECTED"
  BY <1>1
<1>6. ASSUME NEW x \in Ends, NEW t \in Indices(v), Bye(v, t, x)
      PROVE  ByeOf(v, t, x)
  <2>1. Bye(w, t, x)
    BY <1>1, <1>6 DEF Bye, Alike
  <2>2. ByeOf(w, t, x)
    BY <2>1 DEF Ending, Byes, Bye
  <2>3. Unanswered(w, x) => Unanswered(v, x)
    BY <1>1 DEF Unanswered, Bye, Alike
  <2>4. v.inv[x].state \in {"CONNECTING", "CONFIRMED", "DISCONNECTED"}
    BY <1>1, <2>2 DEF ByeOf
  <2>5. QED
    BY <1>1, <1>10, <1>6, <2>2, <2>3, <2>4 DEF ByeOf, Alike
<1>7. Byes(v)
  BY <1>6 DEF Byes
<1>8. Together(v)
  <2>1. SUFFICES ASSUME NEW x \in Ends, v.inv[x].state = "DISCONNECTED"
                 PROVE  Excused(v, x)
    BY DEF Together
  <2>2. Excused(w, x)
    BY <1>1, <2>1 DEF Ending, Together
  <2>3. QED
    BY <1>1, <1>2, <1>10, <2>2, ExcuseStays DEF Alike
<1>9. QED
  BY <1>3, <1>4, <1>5, <1>7, <1>8 DEF Ending

\* A transaction goes on at its client.  The caller leaves its INVITE when it has an
\* answer or is done with the call, and an end its BYE when it is done with the call
\* and the BYE was answered or never will be.
LEMMA TurnsEnding ==
  ASSUME NEW w, Ending(w), NEW v, NEW t \in Indices(w), NEW client, NEW code \in Nat,
         Turns(w, v, t, client, code),
         client = "calling" =>
            w.tsx[t].client = "calling" /\ code < 200 /\ w.tsx[t].server # "none",
         w.tsx[t].client # "calling" => code = w.tsx[t].code,
         w.tsx[t].client = "calling" /\ client # "calling" /\ t = 1 =>
            w.inv["caller"].state = "DISCONNECTED" \/ w.tsx[1].status < 300,
         w.tsx[t].method = "BYE" /\ w.tsx[t].client = "calling" =>
            /\ w.inv[w.tsx[t].from].state = "DISCONNECTED"
            /\ w.tsx[t].server = "terminated" \/ code = 408
  PROVE  Ending(v)
<1> DEFINE f == w.tsx[t].from
<1>1. /\ Len(w.tsx) \in Nat \ {0} /\ Len(v.tsx) = Len(w.tsx) /\ Indices(v) = Indices(w)
      /\ 1 \in Indices(w) /\ \A x \in Ends : v.inv[x].state = w.inv[x].state
      /\ \A i \in Indices(w) \ {t} : Alike(w.tsx[i], v.tsx[i])
      /\ \A i \in Indices(w) : /\ v.tsx[i].method = w.tsx[i].method
                               /\ v.tsx[i].from = w.tsx[i].from
                               /\ v.tsx[i].of = w.tsx[i].of
                               /\ v.tsx[i].server = w.tsx[i].server
                               /\ v.tsx[i].status = w.tsx[i].status
      /\ v.tsx[t].client = client /\ v.tsx[t].code = code
      /\ "caller" \in Ends /\ "callee" \in Ends /\ "caller" # "callee"
      /\ \A x \in Ends : Peer(x) \in Ends /\ Peer(Peer(x)) = x
      /\ f \in Ends /\ Peer("callee") = "caller"
  BY DEF Turns, Apart, Alike, Indices, Ending, Shape, Ends, Peer
<1>2. \A i \in Indices(w) : v.tsx[i].client = "calling" => w.tsx[i].client = "calling"
  BY <1>1 DEF Alike
<1>3. \A i \in Indices(w) : w.tsx[i].code = 408 => v.tsx[i].code = 408
  <2>1. w.tsx[t].client = "calling" => w.tsx[t].code < 200
    BY DEF Ending, Codes
  <2>2. w.tsx[t].code = 408 => code = 408
    BY <2>1
  <2>3. QED
    BY <1>1, <2>2 DEF Alike
<1>4. Refused(v) => Refused(w)
  BY <1>1, <1>2 DEF Refused
<1>5. Shape(v)
  BY <1>1 DEF Ending, Shape
<1>6. Codes(v)
  <2>1. ASSUME NEW i \in Indices(w), i # t
        PROVE  /\ v.tsx[i].client = "calling" => v.tsx[i].code < 200
               /\ v.tsx[i].client = "calling" /\ v.tsx[i].code >= 100 =>
                     v.tsx[i].server # "none"
    BY <1>1, <2>1 DEF Ending, Codes, Alike
  <2>2. /\ v.tsx[t].client = "calling" => v.tsx[t].code < 200
        /\ v.tsx[t].client = "calling" /\ v.tsx[t].code >= 100 => v.tsx[t].server # "none"
    BY <1>1
  <2>3. QED
    BY <1>1, <2>1, <2>2 DEF Ending, Codes
<1>7. First(v)
  BY <1>1, <1>4 DEF Ending, First
<1>8. \A x \in Ends : Unanswered(v, x) <=> Unanswered(w, x)
  BY <1>1 DEF Unanswered, Bye
<1>9. Byes(v)
  <2>1. SUFFICES ASSUME NEW x \in Ends, NEW i \in Indices(v), Bye(v, i, x)
                 PROVE  ByeOf(v, i, x)
    BY DEF Byes
  <2>2. Bye(w, i, x)
    BY <1>1, <2>1 DEF Bye
  <2>3. ByeOf(w, i, x)
    BY <1>1, <2>2 DEF Ending, Byes
  <2>4. v.tsx[i].server = "trying" => v.tsx[i].client = "calling" \/ v.tsx[i].code = 408
    <3>1. CASE i # t
      BY <1>1, <2>3, <3>1 DEF ByeOf, Alike
    <3>2. CASE i = t
      BY <1>1, <2>2, <2>3, <3>2 DEF ByeOf, Bye
    <3>3. QED
      BY <3>1, <3>2
  <2>5. v.tsx[i].client = "calling" =>
           \A j \in Indices(v) : j > i /\ v.tsx[j].from = x => v.tsx[j].method = "BYE"
    BY <1>1, <1>2, <2>3 DEF ByeOf
  <2>6. v.tsx[i].client # "calling" => v.inv[x].state = "DISCONNECTED"
    <3>1. CASE i # t
      BY <1>1, <2>3, <3>1 DEF ByeOf, Alike
    <3>2. CASE i = t
      BY <1>1, <2>2, <2>3, <3>2 DEF ByeOf, Bye
    <3>3. QED
      BY <3>1, <3>2
  <2>7. QED
    BY <1>1, <1>8, <2>1, <2>3, <2>4, <2>5, <2>6 DEF ByeOf
<1>10. Together(v)
  <2>1. SUFFICES ASSUME NEW x \in Ends, v.inv[x].state = "DISCONNECTED"
                 PROVE  Excused(v, x)
    BY DEF Together
  <2>2. Excused(w, x)
    BY <1>1, <2>1 DEF Ending, Together
  <2>3. CASE GaveUp(w, x)
    BY <1>1, <1>3, <2>3 DEF GaveUp, Excused
  <2>4. CASE w.inv[Peer(x)].state = "DISCONNECTED"
    BY <1>1, <2>4 DEF Excused
  <2>5. CASE Leaving(w, x)
    <3>1. PICK i \in Indices(w) : Bye(w, i, x) /\ w.tsx[i].client = "calling"
                                  /\ w.tsx[i].server = "none"
      BY <2>5 DEF Leaving
    <3>2. CASE i = t /\ client # "calling"
      <4>1. code = 408 /\ f = x
        BY <3>1, <3>2 DEF Bye
      <4>2. GaveUp(v, x)
        BY <1>1, <4>1 DEF GaveUp
      <4>3. QED
        BY <4>2 DEF Excused
    <3>3. CASE i # t \/ client = "calling"
      <4>1. v.tsx[i].client = "calling"
        BY <1>1, <3>1, <3>3 DEF Alike
      <4>2. Leaving(v, x)
        BY <1>1, <3>1, <4>1 DEF Leaving, Bye
      <4>3. QED
        BY <4>2 DEF Excused
    <3>4. QED
      BY <3>2, <3>3
  <2>6. CASE Unanswered(w, x)
    BY <1>8, <2>6 DEF Excused
  <2>7. CASE Calling(w, Peer(x))
    <3>1. PICK i \in Indices(w) : Bye(w, i, Peer(x)) /\ w.tsx[i].client = "calling"
      BY <2>7 DEF Calling
    <3>2. CASE i = t /\ client # "calling"
      BY <1>1, <3>1, <3>2 DEF Bye, Excused
    <3>3. CASE i # t \/ client = "calling"
      <4>1. v.tsx[i].client = "calling"
        BY <1>1, <3>1, <3>3 DEF Alike
      <4>2. Calling(v, Peer(x))
        BY <1>1, <3>1, <4>1 DEF Calling, Bye
      <4>3. QED
        BY <4>2 DEF Excused
    <3>4. QED
      BY <3>2, <3>3
  <2>8. CASE x = "callee" /\ Refused(w)
    <3>1. CASE t = 1 /\ client # "calling"
      <4>1. w.tsx[1].client = "calling" /\ w.tsx[1].status >= 300 /\ w.tsx[1].status \in Nat
        BY <1>1, <2>8 DEF Refused, Ending, Codes
      <4>2. w.inv["caller"].state = "DISCONNECTED"
        BY <3>1, <4>1
      <4>3. QED
        BY <1>1, <2>8, <4>2 DEF Excused
    <3>2. CASE t # 1 \/ client = "calling"
      BY <1>1, <2>8, <3>2 DEF Refused, Excused, Alike
    <3>3. QED
      BY <3>1, <3>2
  <2>9. QED
    BY <2>2, <2>3, <2>4, <2>5, <2>6, <2>7, <2>8 DEF Excused
<1>11. QED
  BY <1>5, <1>6, <1>7, <1>9, <1>10 DEF Ending

\* Nothing of it happens.
LEMMA StillEnding ==
  ASSUME NEW w, Ending(w), NEW v, Still(w, v)
  PROVE  Ending(v)
BY SameEnding DEF Still, Apart

\* A transaction goes on at its server.  The first INVITE is refused when the callee is
\* done with the call, and a BYE is answered when its receiver is, or has kept
\* another one.
LEMMA ServesEnding ==
  ASSUME NEW w, Ending(w), NEW v, NEW t \in Indices(w), NEW server, NEW status \in Nat,
         Serves(w, v, t, server, status),
         server # "none", server = "proceeding" => status < 200,
         status >= 200 => server \in {"completed", "terminated"},
         t = 1 => /\ w.inv["caller"].state \in {"CONNECTING", "CONFIRMED"} =>
                        server \in {"completed", "terminated"}
                  /\ w.tsx[1].client = "calling" /\ status >= 300 =>
                        w.inv["callee"].state = "DISCONNECTED"
                  /\ w.tsx[1].status >= 300 => status >= 300,
         w.tsx[t].method = "BYE" =>
            /\ w.tsx[t].server = "none" /\ server \in {"trying", "terminated"}
            /\ server = "trying" => w.tsx[t].client = "calling"
            /\ server = "terminated" => \/ w.inv[Peer(w.tsx[t].from)].state = "DISCONNECTED"
                                        \/ Unanswered(w, w.tsx[t].from)
  PROVE  Ending(v)
<1> DEFINE f == w.tsx[t].from
<1>1. /\ Len(w.tsx) \in Nat \ {0} /\ Len(v.tsx) = Len(w.tsx) /\ Indices(v) = Indices(w)
      /\ 1 \in Indices(w) /\ \A x \in Ends : v.inv[x].state = w.inv[x].state
      /\ \A i \in Indices(w) \ {t} : Alike(w.tsx[i], v.tsx[i])
      /\ \A i \in Indices(w) : /\ v.tsx[i].method = w.tsx[i].method
                               /\ v.tsx[i].from = w.tsx[i].from
                               /\ v.tsx[i].of = w.tsx[i].of
                               /\ v.tsx[i].client = w.tsx[i].client
                               /\ v.tsx[i].code = w.tsx[i].code
      /\ v.tsx[t].server = server /\ v.tsx[t].status = status
      /\ "caller" \in Ends /\ "callee" \in Ends /\ "caller" # "callee"
      /\ \A x \in Ends : Peer(x) \in Ends /\ f \in Ends
  BY DEF Serves, Apart, Alike, Indices, Ending, Shape, Ends, Peer
<1>2. Refused(w) => Refused(v)
  BY <1>1 DEF Refused, Alike
<1>3. Refused(v) => w.inv["callee"].state = "DISCONNECTED"
  <2>1. CASE t = 1
    BY <1>1, <2>1 DEF Refused
  <2>2. CASE t # 1
    BY <1>1, <2>2 DEF Refused, Alike, Ending, First
  <2>3. QED
    BY <2>1, <2>2
<1>4. Shape(v)
  BY <1>1 DEF Ending, Shape
<1>5. Codes(v)
  <2>1. SUFFICES ASSUME NEW i \in Indices(v)
                 PROVE  /\ v.tsx[i].status \in Nat
                        /\ v.tsx[i].server = "proceeding" => v.tsx[i].status < 200
                        /\ v.tsx[i].status >= 200 => v.tsx[i].server \in {"completed", "terminated"}
                        /\ v.tsx[i].client = "calling" => v.tsx[i].code < 200
                        /\ v.tsx[i].client = "calling" /\ v.tsx[i].code >= 100 =>
                              v.tsx[i].server # "none"
    BY DEF Codes
  <2>2. CASE i = t
    BY <1>1, <2>2 DEF Ending, Codes
  <2>3. CASE i # t
    <3>1. i \in Indices(w) /\ Alike(w.tsx[i], v.tsx[i])
      BY <1>1, <2>3
    <3>2. /\ w.tsx[i].status \in Nat
          /\ w.tsx[i].server = "proceeding" => w.tsx[i].status < 200
          /\ w.tsx[i].status >= 200 => w.tsx[i].server \in {"completed", "terminated"}
          /\ w.tsx[i].client = "calling" => w.tsx[i].code < 200
          /\ w.tsx[i].client = "calling" /\ w.tsx[i].code >= 100 =>
                w.tsx[i].server # "none"
      BY <3>1 DEF Ending, Codes
    <3>3. QED
      BY <3>1, <3>2 DEF Alike
  <2>4. QED
    BY <2>2, <2>3
<1>6. First(v)
  <2>1. w.tsx[1].server # "none" => v.tsx[1].server # "none"
    BY <1>1 DEF Alike
  <2>2. w.inv["caller"].state \in {"CONNECTING", "CONFIRMED"} =>
           v.tsx[1].server \in {"completed", "terminated"}
    BY <1>1 DEF Alike, Ending, First
  <2>3. QED
    BY <1>1, <1>3, <2>1, <2>2 DEF Ending, First
<1>7. \A x \in Ends : Unanswered(w, x) => Unanswered(v, x)
  <2>1. SUFFICES ASSUME NEW x \in Ends, Unanswered(w, x)
                 PROVE  Unanswered(v, x)
    OBVIOUS
  <2>2. PICK i \in Indices(w) : Bye(w, i, x) /\ w.tsx[i].server = "trying"
    BY <2>1 DEF Unanswered
  <2>3. i # t
    BY <2>2 DEF Bye
  <2>4. QED
    BY <1>1, <2>2, <2>3 DEF Unanswered, Bye, Alike
<1>8. Byes(v)
  <2>1. SUFFICES ASSUME NEW x \in Ends, NEW i \in Indices(v), Bye(v, i, x)
                 PROVE  ByeOf(v, i, x)
    BY DEF Byes
  <2>2. Bye(w, i, x)
    BY <1>1, <2>1 DEF Bye
  <2>3. ByeOf(w, i, x)
    BY <1>1, <2>2 DEF Ending, Byes
  <2>4. /\ v.tsx[i].server \in {"none", "trying", "terminated"}
        /\ v.tsx[i].server = "trying" => v.tsx[i].client = "calling" \/ v.tsx[i].code = 408
        /\ v.tsx[i].server = "terminated" =>
              v.inv[Peer(x)].state = "DISCONNECTED" \/ Unanswered(v, x)
    <3>1. CASE i # t
      BY <1>1, <1>7, <2>3, <3>1 DEF ByeOf, Alike
    <3>2. CASE i = t
      BY <1>1, <1>7, <2>2, <3>2 DEF Bye
    <3>3. QED
      BY <3>1, <3>2
  <2>5. v.tsx[i].client = "calling" =>
           \A j \in Indices(v) : j > i /\ v.tsx[j].from = x => v.tsx[j].method = "BYE"
    BY <1>1, <2>3 DEF ByeOf
  <2>6. QED
    BY <1>1, <2>1, <2>3, <2>4, <2>5 DEF ByeOf
<1>9. Together(v)
  <2>1. SUFFICES ASSUME NEW x \in Ends, v.inv[x].state = "DISCONNECTED"
                 PROVE  Excused(v, x)
    BY DEF Together
  <2>2. Excused(w, x)
    BY <1>1, <2>1 DEF Ending, Together
  <2>3. CASE GaveUp(w, x)
    BY <1>1, <2>3 DEF GaveUp, Excused
  <2>4. CASE w.inv[Peer(x)].state = "DISCONNECTED"
    BY <1>1, <2>4 DEF Excused
  <2>5. CASE Leaving(w, x)
    <3>1. PICK i \in Indices(w) : Bye(w, i, x) /\ w.tsx[i].client = "calling"
                                  /\ w.tsx[i].server = "none"
      BY <2>5 DEF Leaving
    <3>2. CASE i # t
      <4>1. Leaving(v, x)
        BY <1>1, <3>1, <3>2 DEF Leaving, Bye, Alike
      <4>2. QED
        BY <4>1 DEF Excused
    <3>3. CASE i = t
      <4>1. Bye(v, t, x) /\ f = x /\ w.tsx[t].method = "BYE"
        BY <1>1, <3>1, <3>3 DEF Bye
      <4>2. CASE server = "trying"
        <5>1. Unanswered(v, x)
          BY <1>1, <4>1, <4>2 DEF Unanswered
        <5>2. QED
          BY <5>1 DEF Excused
      <4>3. CASE server = "terminated"
        BY <1>1, <1>7, <4>1, <4>3 DEF Excused
      <4>4. QED
        BY <4>1, <4>2, <4>3
    <3>4. QED
      BY <3>2, <3>3
  <2>6. CASE Unanswered(w, x)
    BY <1>7, <2>6 DEF Excused
  <2>7. CASE Calling(w, Peer(x))
    <3>1. Calling(v, Peer(x))
      BY <1>1, <2>7 DEF Calling, Bye
    <3>2. QED
      BY <3>1 DEF Excused
  <2>8. CASE x = "callee" /\ Refused(w)
    BY <1>2, <2>8 DEF Excused
  <2>9. QED
    BY <2>2, <2>3, <2>4, <2>5, <2>6, <2>7, <2>8 DEF Excused
<1>10. QED
  BY <1>4, <1>5, <1>6, <1>8, <1>9 DEF Ending

\* The callee refuses the first INVITE and is done with the call.
LEMMA RefuseEnding ==
  ASSUME NEW w, Ending(w), NEW v, NEW status \in Nat, status >= 300,
         Apart(w, v, {"callee"}, {1}), v.inv["callee"].state = "DISCONNECTED",
         v.tsx[1].server = "completed", v.tsx[1].status = status,
         v.tsx[1].client = w.tsx[1].client, v.tsx[1].code = w.tsx[1].code,
         w.tsx[1].client = "calling" \/ w.inv["caller"].state = "DISCONNECTED"
  PROVE  Ending(v)
<1>1. /\ Len(w.tsx) \in Nat \ {0} /\ Len(v.tsx) = Len(w.tsx) /\ Indices(v) = Indices(w)
      /\ 1 \in Indices(w) /\ v.inv["caller"].state = w.inv["caller"].state
      /\ \A i \in Indices(w) \ {1} : Alike(w.tsx[i], v.tsx[i])
      /\ \A i \in Indices(w) : /\ v.tsx[i].method = w.tsx[i].method
                               /\ v.tsx[i].from = w.tsx[i].from
                               /\ v.tsx[i].of = w.tsx[i].of
                               /\ v.tsx[i].client = w.tsx[i].client
                               /\ v.tsx[i].code = w.tsx[i].code
      /\ "caller" \in Ends /\ "callee" \in Ends /\ "caller" # "callee"
      /\ \A x \in Ends : Peer(x) \in Ends
      /\ Peer("callee") = "caller" /\ Peer("caller") = "callee"
      /\ \A x \in Ends : x = "caller" \/ x = "callee"
      /\ w.tsx[1].method = "INVITE"
  BY DEF Apart, Alike, Indices, Ending, Shape, Ends, Peer
<1>2. Shape(v)
  BY <1>1 DEF Ending, Shape
<1>3. Codes(v)
  <2>1. SUFFICES ASSUME NEW i \in Indices(v)
                 PROVE  /\ v.tsx[i].status \in Nat
                        /\ v.tsx[i].server = "proceeding" => v.tsx[i].status < 200
                        /\ v.tsx[i].status >= 200 => v.tsx[i].server \in {"completed", "terminated"}
                        /\ v.tsx[i].client = "calling" => v.tsx[i].code < 200
                        /\ v.tsx[i].client = "calling" /\ v.tsx[i].code >= 100 =>
                              v.tsx[i].server # "none"
    BY DEF Codes
  <2>2. CASE i = 1
    BY <1>1, <2>2 DEF Ending, Codes
  <2>3. CASE i # 1
    BY <1>1, <2>3 DEF Ending, Codes, Alike
  <2>4. QED
    BY <2>2, <2>3
<1>4. First(v)
  BY <1>1 DEF First
<1>5. \A i \in Indices(w) : w.tsx[i].method = "BYE" => i # 1
  BY <1>1
<1>6. \A x \in Ends : w.inv[x].state = "DISCONNECTED" => v.inv[x].state = "DISCONNECTED"
  BY <1>1
<1>7. \A x \in Ends : Unanswered(w, x) => Unanswered(v, x)
  BY <1>1, <1>5 DEF Unanswered, Bye, Alike
<1>8. Byes(v)
  <2>1. SUFFICES ASSUME NEW x \in Ends, NEW i \in Indices(v), Bye(v, i, x)
                 PROVE  ByeOf(v, i, x)
    BY DEF Byes
  <2>2. Bye(w, i, x) /\ i # 1
    BY <1>1, <1>5, <2>1 DEF Bye
  <2>3. ByeOf(w, i, x)
    BY <1>1, <2>2 DEF Ending, Byes
  <2>4. Alike(w.tsx[i], v.tsx[i])
    BY <1>1, <2>2
  <2>5. v.inv[x].state \in {"CONNECTING", "CONFIRMED", "DISCONNECTED"}
    BY <1>1, <2>3 DEF ByeOf
  <2>6. QED
    BY <1>1, <1>6, <1>7, <2>3, <2>4, <2>5 DEF ByeOf, Alike
<1>9. Together(v)
  <2>1. Excused(v, "callee")
    <3>1. CASE w.tsx[1].client = "calling"
      BY <1>1, <3>1 DEF Refused, Excused
    <3>2. CASE w.inv["caller"].state = "DISCONNECTED"
      BY <1>1, <3>2 DEF Excused
    <3>3. QED
      BY <3>1, <3>2
  <2>2. Excused(v, "caller")
    BY <1>1 DEF Excused
  <2>3. QED
    BY <1>1, <2>1, <2>2 DEF Together
<1>10. QED
  BY <1>2, <1>3, <1>4, <1>8, <1>9 DEF Ending

\* A transaction that has ended at both ends forgets its status.
LEMMA TidyEnding ==
  ASSUME NEW w, Ending(w), NEW v, Len(v.tsx) = Len(w.tsx),
         \A u \in Ends : v.inv[u].state = w.inv[u].state,
         \A t \in Indices(w) :
            \/ Alike(w.tsx[t], v.tsx[t])
            \/ /\ v.tsx[t].client = "terminated" /\ v.tsx[t].server = "terminated"
               /\ w.tsx[t].client = "terminated" /\ w.tsx[t].server = "terminated"
               /\ v.tsx[t].method = w.tsx[t].method /\ v.tsx[t].from = w.tsx[t].from
               /\ v.tsx[t].of = w.tsx[t].of /\ v.tsx[t].code = w.tsx[t].code
               /\ v.tsx[t].status = 0
  PROVE  Ending(v)
<1>1. /\ Len(w.tsx) \in Nat \ {0} /\ Len(v.tsx) = Len(w.tsx) /\ Indices(v) = Indices(w)
      /\ 1 \in Indices(w) /\ \A x \in Ends : v.inv[x].state = w.inv[x].state
      /\ \A i \in Indices(w) : /\ v.tsx[i].method = w.tsx[i].method
                               /\ v.tsx[i].from = w.tsx[i].from
                               /\ v.tsx[i].of = w.tsx[i].of
                               /\ v.tsx[i].client = w.tsx[i].client
                               /\ v.tsx[i].code = w.tsx[i].code
                               /\ v.tsx[i].server = w.tsx[i].server
                               /\ \/ v.tsx[i].status = w.tsx[i].status
                                  \/ /\ v.tsx[i].status = 0
                                     /\ v.tsx[i].client # "calling"
                                     /\ v.tsx[i].server # "proceeding"
      /\ "caller" \in Ends /\ "callee" \in Ends /\ \A x \in Ends : Peer(x) \in Ends
  BY DEF Alike, Indices, Ending, Shape, Ends, Peer
<1>2. Refused(v) <=> Refused(w)
  BY <1>1 DEF Refused
<1>3. Shape(v)
  BY <1>1 DEF Ending, Shape
<1>4. Codes(v)
  BY <1>1 DEF Ending, Codes
<1>5. First(v)
  BY <1>1, <1>2 DEF Ending, First
<1>6. Byes(v)
  <2>1. SUFFICES ASSUME NEW x \in Ends, NEW i \in Indices(v), Bye(v, i, x)
                 PROVE  ByeOf(v, i, x)
    BY DEF Byes
  <2>2. Bye(w, i, x)
    BY <1>1, <2>1 DEF Bye
  <2>3. ByeOf(w, i, x)
    BY <1>1, <2>2 DEF Ending, Byes
  <2>4. Unanswered(w, x) => Unanswered(v, x)
    BY <1>1 DEF Unanswered, Bye
  <2>5. QED
    BY <1>1, <2>1, <2>3, <2>4 DEF ByeOf
<1>7. Together(v)
  <2>1. SUFFICES ASSUME NEW x \in Ends, v.inv[x].state = "DISCONNECTED"
                 PROVE  Excused(v, x)
    BY DEF Together
  <2>2. Excused(w, x)
    BY <1>1, <2>1 DEF Ending, Together
  <2>3. QED
    BY <1>1, <1>2, <2>2, ExcuseStays
<1>8. QED
  BY <1>3, <1>4, <1>5, <1>6, <1>7 DEF Ending

-----------------------------------------------------------------------------
(* What goes on *)

\* What has been received stays so.
LEMMA ApartKept ==
  ASSUME NEW w, NEW v, NEW U, NEW T, Apart(w, v, U, T), Len(w.tsx) \in Nat,
         \A t \in T : w.tsx[t].server # "none" => v.tsx[t].server # "none"
  PROVE  Kept(w, v)
<1>1. \A t \in Indices(w) : w.tsx[t].server # "none" => v.tsx[t].server # "none"
  BY DEF Apart, Alike
<1>2. QED
  BY <1>1 DEF Apart, Kept

\* Where there is an invariant there is a call.
LEMMA EndingParts ==
  ASSUME NEW w, Ending(w)
  PROVE  /\ Len(w.tsx) \in Nat \ {0} /\ 1 \in Indices(w) /\ 1 \in 1..Len(w.tsx)
         /\ w.tsx[1].method = "INVITE" /\ w.tsx[1].from = "caller"
         /\ "caller" \in Ends /\ "callee" \in Ends
         /\ Peer("caller") = "callee" /\ Peer("callee") = "caller"
         /\ \A t \in Indices(w) : /\ t \in 1..Len(w.tsx)
                                  /\ w.tsx[t].from \in Ends /\ Client(w, t) = w.tsx[t].from
                                  /\ Server(w, t) = Peer(w.tsx[t].from) /\ Server(w, t) \in Ends
                                  /\ Peer(Server(w, t)) = w.tsx[t].from
                                  /\ Server(w, t) # w.tsx[t].from
                                  /\ t # 1 => w.tsx[1].server # "none"
BY DEF Ending, Shape, First, Indices, Client, Server, Peer, Ends

\* The invariant goes on when nothing happens.
LEMMA GoesRefl ==
  ASSUME NEW w, Sound(w), Ending(w)
  PROVE  Goes(w, w)
BY DEF Goes, Kept, Ending, Shape

\* One thing after another.
LEMMA GoesTrans ==
  ASSUME NEW w, NEW v, NEW x, Goes(w, v), Goes(v, x), Ending(w)
  PROVE  Goes(w, x)
<1>1. Len(w.tsx) \in Nat /\ Len(v.tsx) \in Nat /\ Len(x.tsx) \in Nat
  BY DEF Goes, Ending, Shape
<1>2. Len(w.tsx) <= Len(v.tsx) /\ Len(v.tsx) <= Len(x.tsx)
  BY <1>1 DEF Goes, Kept
<1>3. \A t \in Indices(w) : t \in Indices(v)
  BY <1>1, <1>2 DEF Indices
<1>4. \A t \in Indices(v) : t \in Indices(x)
  BY <1>1, <1>2 DEF Indices
<1>5. ASSUME NEW ack \in x.acks
      PROVE  ack \in w.acks \/ (ack.t \in Indices(x) /\ x.tsx[ack.t].server # "none")
  BY <1>4 DEF Goes, Kept
<1>6. Len(x.tsx) >= Len(w.tsx)
  BY <1>1, <1>2
<1>7. Kept(w, x)
  BY <1>3, <1>5, <1>6 DEF Goes, Kept
<1>8. QED
  BY <1>7 DEF Goes

\* What concerns the media only goes on.
LEMMA StillGoes ==
  ASSUME NEW w, Ending(w), NEW v, Sound(v), Still(w, v)
  PROVE  Goes(w, v)
<1>1. Ending(v)
  BY StillEnding
<1>2. Kept(w, v)
  BY ApartKept DEF Still, Ending, Shape
<1>3. QED
  BY <1>1, <1>2 DEF Goes

\* What concerns the media only.
LEMMA MediaGoes ==
  ASSUME NEW w, Ending(w), NEW v, Media(w, v)
  PROVE  Goes(w, v) /\ Still(w, v) /\ Sound(v)
BY MediaStill, StillGoes DEF Media

\* An end forgets an invite_tsx that has ended.
LEMMA ForgetGoes ==
  ASSUME NEW w, Sound(w), Ending(w), NEW u \in Ends, NEW t
  PROVE  Goes(w, Forget(w, u, t)) /\ Still(w, Forget(w, u, t))
BY ForgetStill, StillGoes

\* An end is done with the call, and has an excuse.
LEMMA OverGoes ==
  ASSUME NEW w, Sound(w), Ending(w), NEW u \in Ends,
         w.inv[u].state = "DISCONNECTED" \/ Excused(w, u),
         u = "callee" => w.tsx[1].server # "none"
  PROVE  LET v == Disconnect(w, u)
         IN  Goes(w, v) /\ Sets(w, v, u, "DISCONNECTED") /\ v.tsx = w.tsx
<1> DEFINE v == Disconnect(w, u)
<1>1. Sound(v) /\ Sets(w, v, u, "DISCONNECTED") /\ v.tsx = w.tsx
  BY DisconnectSets
<1> HIDE DEF v
<1>2. Ending(v)
  BY <1>1, OverEnding
<1>3. Len(w.tsx) \in Nat /\ Apart(w, v, {u}, {})
  BY <1>1 DEF Ending, Shape, Sets
<1>4. Kept(w, v)
  BY <1>3, ApartKept
<1>5. QED
  BY <1>1, <1>2, <1>4 DEF Goes, v

\* A request is sent.
LEMMA RequestGoes ==
  ASSUME NEW w, Sound(w), Ending(w), NEW u \in Ends, NEW sdp \in Nat, NEW of \in 0..Len(w.tsx),
         NEW method \in {"INVITE", "UPDATE", "BYE", "CANCEL"},
         w.tsx[1].server # "none", method = "CANCEL" => of = 1,
         IF method = "BYE" THEN w.inv[u].state \in {"CONNECTING", "CONFIRMED", "DISCONNECTED"}
                           ELSE ~Calling(w, u)
  PROVE  LET v == SendRequest(w, u, method, sdp, of)
         IN  Goes(w, v) /\ Asks(w, v, u, method, of)
<1> DEFINE v == SendRequest(w, u, method, sdp, of)
<1>1. Sound(v) /\ Asks(w, v, u, method, of)
  <2>1. /\ method \in {"INVITE", "UPDATE", "BYE", "CANCEL"} /\ of \in 0..Len(w.tsx)
        /\ method = "CANCEL" => of > 0
    OBVIOUS
  <2>2. QED
    BY <2>1, RequestAsks
<1> HIDE DEF v
<1>2. Ending(v)
  BY <1>1, AsksEnding
<1>3. Kept(w, v)
  BY <1>1 DEF Asks, Alike, Kept, Ending, Shape
<1>4. QED
  BY <1>1, <1>2, <1>3 DEF Goes, v

\* An end that has an answer, or is done with the call, sends BYE.
LEMMA ByeGoes ==
  ASSUME NEW w, Sound(w), Ending(w), NEW u \in Ends, w.tsx[1].server # "none",
         w.inv[u].state \in {"CONNECTING", "CONFIRMED", "DISCONNECTED"}
  PROVE  Goes(w, SendBye(w, u)) /\ Asks(w, SendBye(w, u), u, "BYE", 0)
<1>1. 0 \in 0..Len(w.tsx) /\ 0 \in Nat
  BY DEF Ending, Shape
<1>2. QED
  BY <1>1, RequestGoes DEF SendBye

\* The callee has the INVITE if an end is past ringing.
LEMMA HasInvite ==
  ASSUME NEW w, Ending(w), NEW u \in Ends,
         \/ w.inv[u].state \in {"CONNECTING", "CONFIRMED"}
         \/ u = "callee" /\ w.inv[u].state # "NULL"
  PROVE  w.tsx[1].server # "none"
BY DEF Ending, First, Ends

\* The peer has no call, or does not answer.
LEMMA LostGoes ==
  ASSUME NEW w, Sound(w), Ending(w), NEW u \in Ends, w.tsx[1].server # "none",
         GaveUp(w, u) \/ w.inv[u].state \in {"CONNECTING", "CONFIRMED"}
  PROVE  Goes(w, SendBye(Disconnect(w, u), u))
<1> DEFINE b == Disconnect(w, u)
           v == SendBye(b, u)
<1>1. CASE GaveUp(w, u)
  <2>1. Goes(w, b) /\ Sets(w, b, u, "DISCONNECTED") /\ b.tsx = w.tsx
    BY <1>1, OverGoes DEF Excused
  <2> HIDE DEF b
  <2>2. Sound(b) /\ Ending(b) /\ b.tsx[1].server # "none" /\ b.inv[u].state = "DISCONNECTED"
    BY <2>1 DEF Goes, Sets
  <2>3. Goes(b, v)
    BY <2>2, ByeGoes
  <2> HIDE DEF v
  <2>4. Goes(w, v)
    BY <2>1, <2>3, GoesTrans
  <2>5. QED
    BY <2>4 DEF v, b
<1>2. CASE w.inv[u].state \in {"CONNECTING", "CONFIRMED"}
  <2> DEFINE x == SendBye(w, u)
  <2>1. Goes(w, x) /\ Asks(w, x, u, "BYE", 0)
    BY <1>2, ByeGoes
  <2> HIDE DEF x
  <2>2. Sound(b) /\ Sets(w, b, u, "DISCONNECTED") /\ b.tsx = w.tsx
    BY DisconnectSets
  <2> HIDE DEF b
  <2>3. Sound(v) /\ Asks(b, v, u, "BYE", 0)
    <3>1. 0 \in 0..Len(b.tsx) /\ 0 \in Nat /\ Sound(b)
          /\ "BYE" \in {"INVITE", "UPDATE", "BYE", "CANCEL"} /\ "BYE" # "CANCEL"
      BY <2>2 DEF Ending, Shape
    <3>2. QED
      BY <3>1, RequestAsks DEF SendBye
  <2> HIDE DEF v
  <2> DEFINE n == Len(w.tsx) + 1
  <2>4. /\ Len(w.tsx) \in Nat /\ Len(b.tsx) = Len(w.tsx) /\ Len(v.tsx) = n /\ Len(x.tsx) = n
        /\ Indices(x) = 1..n /\ n \in Indices(x)
        /\ \A t \in Indices(x) : t \in Indices(w) \/ t = n
    BY <2>1, <2>2, <2>3 DEF Asks, Indices, Ending, Shape
  <2>5. \A t \in Indices(w) : Alike(w.tsx[t], x.tsx[t]) /\ Alike(w.tsx[t], v.tsx[t])
    BY <2>1, <2>2, <2>3 DEF Asks, Indices
  <2>6. Alike(x.tsx[n], v.tsx[n])
    BY <2>1, <2>2, <2>3, <2>4 DEF Asks, Alike
  <2> HIDE DEF n
  <2>7. \A t \in Indices(x) : Alike(x.tsx[t], v.tsx[t])
    BY <2>4, <2>5, <2>6 DEF Alike
  <2>8. Sets(x, v, u, "DISCONNECTED")
    BY <2>1, <2>2, <2>3, <2>4, <2>7 DEF Sets, Apart, Asks, Alike
  <2>9. Leaving(x, u) /\ x.tsx[1].server # "none"
    <3>1. Bye(x, n, u) /\ x.tsx[n].client = "calling" /\ x.tsx[n].server = "none"
      BY <2>1, <2>4 DEF Bye, Asks, n
    <3>2. Alike(w.tsx[1], x.tsx[1])
      BY <2>5, EndingParts
    <3>3. QED
      BY <2>4, <3>1, <3>2 DEF Leaving, Alike
  <2>10. Ending(v)
    BY <2>1, <2>8, <2>9, OverEnding DEF Excused, Goes
  <2>11. Kept(x, v)
    BY <2>4, <2>8, ApartKept DEF Sets, n
  <2>12. Goes(x, v)
    BY <2>3, <2>10, <2>11 DEF Goes
  <2>13. Goes(w, v)
    BY <2>1, <2>12, GoesTrans
  <2>14. QED
    BY <2>13 DEF v, b
<1>3. QED
  BY <1>1, <1>2

\* An end that learns so from the answer to its request t.
LEMMA UnlessLostGoes ==
  ASSUME NEW w, Sound(w), Ending(w), NEW t \in Indices(w), NEW u, w.tsx[t].from = u,
         w.tsx[1].server # "none",
         w.tsx[t].method = "CANCEL" \/ w.inv[u].state \in {"CONNECTING", "CONFIRMED"},
         NEW v, Goes(w, v)
  PROVE  Goes(w, UnlessLost(w, u, t, v))
<1>1. CASE Lost(w, u, t)
  <2>1. u \in Ends
    BY EndingParts
  <2>2. GaveUp(w, u) \/ w.inv[u].state \in {"CONNECTING", "CONFIRMED"}
    BY <1>1 DEF Lost, GaveUp
  <2>3. Goes(w, SendBye(Disconnect(w, u), u))
    BY <2>1, <2>2, LostGoes
  <2>4. QED
    BY <1>1, <2>3 DEF UnlessLost
<1>2. CASE ~Lost(w, u, t)
  BY <1>2 DEF UnlessLost
<1>3. QED
  BY <1>1, <1>2

-----------------------------------------------------------------------------
(* Events of client transactions *)

\* The client transaction enters a state and the session does nothing.
LEMMA TurnGoes ==
  ASSUME NEW w, Sound(w), Ending(w), NEW t \in Indices(w),
         NEW client \in {"calling", "completed", "terminated"}, NEW code \in Nat,
         client = "calling" =>
            w.tsx[t].client = "calling" /\ code < 200 /\ w.tsx[t].server # "none",
         w.tsx[t].client # "calling" => code = w.tsx[t].code,
         w.tsx[t].client = "calling" /\ client # "calling" /\ t = 1 =>
            w.inv["caller"].state = "DISCONNECTED" \/ w.tsx[1].status < 300,
         w.tsx[t].method # "BYE" \/ w.tsx[t].client # "calling"
  PROVE  LET v == ClientEnters(w, t, client, code)
         IN  Goes(w, v) /\ Turns(w, v, t, client, code) /\ v.inv = w.inv
<1> DEFINE v == ClientEnters(w, t, client, code)
<1>1. Sound(v) /\ Turns(w, v, t, client, code) /\ v.inv = w.inv
  BY ClientTurns
<1> HIDE DEF v
<1>2. Ending(v)
  BY <1>1, TurnsEnding
<1>3. Kept(w, v)
  BY <1>1, ApartKept DEF Turns, Ending, Shape
<1>4. QED
  BY <1>1, <1>2, <1>3 DEF Goes, v

\* A transaction turns and its end is done with the call, or the other way round.
LEMMA TurnsOver ==
  ASSUME NEW w, NEW v, NEW a, NEW x, NEW u, NEW s, NEW t \in Indices(w), NEW client, NEW code,
         Turns(w, a, t, client, code), Sets(a, v, u, s), Sets(w, x, u, s)
  PROVE  Turns(x, v, t, client, code)
<1>1. Indices(a) = Indices(w) /\ Indices(x) = Indices(w) /\ Len(x.tsx) = Len(v.tsx)
      /\ t \in Indices(a) /\ v.acks = x.acks
  BY DEF Turns, Sets, Apart, Indices
<1>2. \A e \in Ends : /\ v.inv[e].remote_cseq = x.inv[e].remote_cseq
                      /\ v.inv[e].state = x.inv[e].state
  BY DEF Turns, Sets, Apart
<1>3. \A i \in Indices(w) : Alike(w.tsx[i], x.tsx[i]) /\ Alike(a.tsx[i], v.tsx[i])
  BY <1>1 DEF Sets, Apart
<1>4. \A i \in Indices(w) \ {t} : Alike(w.tsx[i], a.tsx[i])
  BY DEF Turns, Apart
<1>5. \A i \in Indices(w) : /\ a.tsx[i].method = w.tsx[i].method
                            /\ a.tsx[i].from = w.tsx[i].from /\ a.tsx[i].of = w.tsx[i].of
  BY DEF Turns, Apart
<1>6. \A i \in Indices(w) \ {t} : Alike(x.tsx[i], v.tsx[i])
  BY <1>3, <1>4 DEF Alike
<1>7. Apart(x, v, {}, {t})
  BY <1>1, <1>2, <1>3, <1>5, <1>6 DEF Apart, Alike
<1>8. QED
  BY <1>3, <1>7 DEF Turns, Alike

\* An end that has an excuse gets the answer to its request, or none, and is done with
\* the call.
LEMMA EnterOverGoes ==
  ASSUME NEW w, Sound(w), Ending(w), NEW t \in Indices(w), NEW u, w.tsx[t].from = u,
         w.tsx[t].client = "calling",
         NEW client \in {"completed", "terminated"}, NEW code \in Nat,
         Excused(w, u), u = "callee" => w.tsx[1].server # "none",
         w.tsx[t].method = "BYE" => w.tsx[t].server = "terminated" \/ code = 408
  PROVE  Goes(w, Disconnect(ClientEnters(w, t, client, code), u))
<1> DEFINE a == ClientEnters(w, t, client, code)
           v == Disconnect(a, u)
           x == Disconnect(w, u)
<1>1. u \in Ends /\ t \in Indices(w)
  BY EndingParts
<1>2. Sound(a) /\ Turns(w, a, t, client, code)
  BY ClientTurns
<1> HIDE DEF a
<1>3. Sound(v) /\ Sets(a, v, u, "DISCONNECTED")
  BY <1>1, <1>2, DisconnectSets
<1>4. Goes(w, x) /\ Sets(w, x, u, "DISCONNECTED") /\ x.tsx = w.tsx
  BY <1>1, OverGoes
<1> HIDE DEF v, x
<1>5. Turns(x, v, t, client, code)
  BY <1>2, <1>3, <1>4, TurnsOver
<1>6. t \in Indices(x) /\ Ending(x) /\ x.inv[u].state = "DISCONNECTED"
  BY <1>1, <1>4 DEF Goes, Sets, Indices
<1>7. t = 1 => x.inv["caller"].state = "DISCONNECTED"
  BY <1>6, EndingParts
<1>8. Ending(v)
  BY <1>4, <1>5, <1>6, <1>7, TurnsEnding
<1>9. Kept(x, v)
  BY <1>5, <1>6, ApartKept DEF Turns, Ending, Shape
<1>10. Goes(x, v)
  BY <1>3, <1>8, <1>9 DEF Goes
<1>11. QED
  BY <1>4, <1>10, GoesTrans DEF v, a

\* An end that gives up waiting for the answer is done with the call.
LEMMA GiveUpGoes ==
  ASSUME NEW w, Sound(w), Ending(w), NEW t \in Indices(w), NEW u, w.tsx[t].from = u,
         w.tsx[t].client = "calling", NEW client \in {"completed", "terminated"},
         u = "callee" => w.tsx[1].server # "none",
         t = 1 => w.tsx[1].status < 300, w.tsx[t].method # "BYE"
  PROVE  Goes(w, Disconnect(ClientEnters(w, t, client, 408), u))
<1> DEFINE a == ClientEnters(w, t, client, 408)
<1>1. u \in Ends /\ 408 \in Nat /\ client \in {"calling", "completed", "terminated"}
  BY EndingParts
<1>2. Goes(w, a) /\ Turns(w, a, t, client, 408)
  BY <1>1, TurnGoes
<1> HIDE DEF a
<1>3. GaveUp(a, u) /\ (u = "callee" => a.tsx[1].server # "none")
  <2>1. t \in Indices(a) /\ a.tsx[t].from = u /\ a.tsx[t].code = 408
    BY <1>2 DEF Turns, Apart, Indices
  <2>2. w.tsx[1].server = a.tsx[1].server
    BY <1>2, EndingParts DEF Turns, Apart, Alike
  <2>3. QED
    BY <2>1, <2>2 DEF GaveUp
<1>4. Goes(a, Disconnect(a, u))
  BY <1>1, <1>2, <1>3, OverGoes DEF Goes, Excused
<1>5. QED
  BY <1>2, <1>4, GoesTrans DEF a

\* A BYE is answered or not.
LEMMA OnByeGoes ==
  ASSUME NEW w, Sound(w), Ending(w), NEW t \in Indices(w), w.tsx[t].method = "BYE",
         w.tsx[t].client = "calling", NEW code \in Nat,
         code = 408 \/ (code = w.tsx[t].status /\ code >= 200)
  PROVE  Goes(w, OnBye(w, t, code))
<1> DEFINE u == w.tsx[t].from
<1>1. /\ u \in Ends /\ Client(w, t) = u /\ t # 1 /\ w.tsx[1].server # "none" /\ Bye(w, t, u)
  BY EndingParts DEF Bye
<1>2. ByeOf(w, t, u)
  BY <1>1 DEF Ending, Byes
<1>3. Excused(w, u)
  BY <1>1, <1>2 DEF ByeOf, Excused, Leaving, Unanswered
<1>4. w.tsx[t].server = "terminated" \/ code = 408
  BY <1>2 DEF ByeOf, Ending, Codes
<1>5. Goes(w, Disconnect(ClientEnters(w, t, "terminated", code), u))
  <2> HIDE DEF u
  <2>1. "terminated" \in {"completed", "terminated"} /\ w.tsx[t].from = u
    BY DEF u
  <2>2. QED
    BY <1>1, <1>3, <1>4, <2>1, EnterOverGoes
<1>6. QED
  BY <1>1, <1>5 DEF OnBye

\* A CANCEL is answered or not.
LEMMA OnCancelGoes ==
  ASSUME NEW w, Sound(w), Ending(w), NEW t \in Indices(w), w.tsx[t].method = "CANCEL",
         w.tsx[t].client = "calling", NEW code \in Nat
  PROVE  Goes(w, OnCancel(w, t, code))
<1> DEFINE u == w.tsx[t].from
           w1 == ClientEnters(w, t, "terminated", code)
<1>1. /\ u \in Ends /\ Client(w, t) = u /\ t # 1 /\ w.tsx[1].server # "none"
  BY EndingParts
<1>2. Goes(w, w1) /\ Turns(w, w1, t, "terminated", code) /\ w1.inv = w.inv
  <2>1. "terminated" \in {"calling", "completed", "terminated"} /\ "terminated" # "calling"
    OBVIOUS
  <2>2. QED
    BY <1>1, <2>1, TurnGoes
<1> HIDE DEF w1
<1>3. /\ t \in Indices(w1) /\ w1.tsx[t].from = u /\ w1.tsx[t].method = "CANCEL"
      /\ w1.tsx[t].code = code /\ w1.tsx[1].server # "none" /\ Sound(w1) /\ Ending(w1)
  BY <1>1, <1>2, EndingParts DEF Turns, Apart, Alike, Indices, Goes
<1>4. CASE w.inv[u].state = "CALLING" /\ code = 408
  <2>1. GaveUp(w1, u)
    BY <1>3, <1>4 DEF GaveUp
  <2>2. Goes(w1, Disconnect(w1, u))
    BY <1>1, <1>3, <2>1, OverGoes DEF Excused
  <2>3. QED
    BY <1>1, <1>2, <1>4, <2>2, GoesTrans DEF OnCancel, w1
<1>5. CASE ~(w.inv[u].state = "CALLING" /\ code = 408)
  <2>1. Goes(w1, w1)
    BY <1>3, GoesRefl
  <2>2. Goes(w1, UnlessLost(w1, u, t, w1))
    BY <1>3, <2>1, UnlessLostGoes
  <2>3. QED
    BY <1>1, <1>2, <1>5, <2>2, GoesTrans DEF OnCancel, w1
<1>6. QED
  BY <1>4, <1>5

\* An UPDATE is answered or not, or its transaction ends.
LEMMA OnUpdateGoes ==
  ASSUME NEW w, Sound(w), Ending(w), NEW t \in Indices(w), w.tsx[t].method # "INVITE",
         w.tsx[t].method = "UPDATE" \/ w.tsx[t].client # "calling",
         NEW client \in {"completed", "terminated"}, NEW code \in Nat, NEW body \in Nat,
         NEW choice, w.tsx[t].client # "calling" => code = w.tsx[t].code
  PROVE  Goes(w, OnUpdate(w, t, client, code, body, choice))
<1> DEFINE u == w.tsx[t].from
           w1 == ClientEnters(w, t, client, code)
           w2 == UpdateResponse(w1, t, body, choice)
<1>1. /\ u \in Ends /\ Client(w, t) = u /\ t # 1 /\ w.tsx[1].server # "none"
  BY EndingParts
<1>2. Goes(w, w1) /\ Turns(w, w1, t, client, code) /\ w1.inv = w.inv
  BY <1>1, TurnGoes
<1> HIDE DEF w1
<1>3. /\ t \in Indices(w1) /\ w1.tsx[t].from = u /\ w1.tsx[1].server # "none"
      /\ Sound(w1) /\ Ending(w1) /\ t \in 1..Len(w1.tsx)
  BY <1>1, <1>2, EndingParts DEF Turns, Apart, Alike, Indices, Goes
<1>4. Goes(w1, w2)
  BY <1>3, UpdateResponseMedia, MediaGoes
<1> HIDE DEF w2
<1>5. CASE w.inv[u].state = "EARLY"
  BY <1>1, <1>2, <1>4, <1>5, GoesTrans DEF OnUpdate, w1, w2
<1>6. CASE w.inv[u].state \in {"CONNECTING", "CONFIRMED"}
  <2>1. Goes(w1, UnlessLost(w1, u, t, w2))
    BY <1>2, <1>3, <1>4, <1>6, UnlessLostGoes
  <2>2. Goes(w, UnlessLost(w1, u, t, w2))
    BY <1>2, <2>1, GoesTrans
  <2>3. OnUpdate(w, t, client, code, body, choice) = UnlessLost(w1, u, t, w2)
    BY <1>1, <1>6 DEF OnUpdate, w1, w2
  <2>4. QED
    BY <2>2, <2>3
<1>7. CASE w.inv[u].state \notin {"EARLY", "CONNECTING", "CONFIRMED"}
  BY <1>1, <1>2, <1>7 DEF OnUpdate, w1
<1>8. QED
  BY <1>5, <1>6, <1>7

\* A call that was begun and where the invariant holds.
Runs(w) == Begun(w) /\ Ending(w)

\* A client that calls and is not answered yet calls with the first INVITE.
LEMMA CallsWithFirst ==
  ASSUME NEW w, Runs(w), NEW t \in Indices(w), w.tsx[t].method = "INVITE",
         w.inv[w.tsx[t].from].state \in {"CALLING", "EARLY"}
  PROVE  t = 1 /\ w.tsx[1].client = "calling" /\ w.tsx[1].from = "caller"
<1>1. Course(w) /\ Ending(w) /\ Len(w.tsx) \in Nat
  BY DEF Runs, Begun, Ending, Shape
<1>2. w.tsx[t].from \in Ends /\ w.tsx[1].from = "caller"
  BY <1>1, EndingParts
<1>3. w.inv[w.tsx[t].from].state \in Ringing
  BY DEF Ringing
<1>4. t = 1
  <2>1. t # 1 => t \in 2..Len(w.tsx)
    BY <1>1 DEF Indices
  <2>2. QED
    BY <1>1, <1>2, <1>3, <2>1 DEF Course
<1>5. QED
  BY <1>1, <1>2, <1>4 DEF Course

\* A caller whose first INVITE has no answer is not past ringing.
LEMMA CallerWaits ==
  ASSUME NEW w, Runs(w), w.tsx[1].client = "calling"
  PROVE  w.inv["caller"].state \in {"CALLING", "EARLY", "DISCONNECTED"}
BY DEF Runs, Begun, Course

\* An INVITE is refused or not answered, or its transaction ends.
LEMMA OnInviteFailureGoes ==
  ASSUME NEW w, Runs(w), NEW t \in Indices(w), w.tsx[t].method = "INVITE",
         NEW client \in {"completed", "terminated"}, NEW code \in Nat,
         w.tsx[t].client = "calling" => code = 408 \/ (code = w.tsx[t].status /\ code >= 300),
         w.tsx[t].client # "calling" => code = w.tsx[t].code
  PROVE  Goes(w, OnInviteFailure(w, t, client, code))
<1> DEFINE u == w.tsx[t].from
           w1 == ClientEnters(w, t, client, code)
           f == Forget(Withdraw(w1, u), u, t)
           w2 == CASE w.inv[u].state \in {"CALLING", "EARLY"} -> Disconnect(w1, u)
                   [] w.inv[u].state = "CONFIRMED" -> UnlessLost(w1, u, t, f)
                   [] OTHER -> w1
<1>1. Sound(w) /\ Ending(w) /\ u \in Ends /\ Client(w, t) = u /\ w.tsx[1].status \in Nat
  BY EndingParts DEF Runs, Begun, Ending, Codes
<1>2. OnInviteFailure(w, t, client, code) = IF client = "terminated" THEN Forget(w2, u, t) ELSE w2
  BY <1>1 DEF OnInviteFailure
<1>3. ASSUME w.inv[u].state \in {"CALLING", "EARLY"}
      PROVE  Goes(w, Disconnect(w1, u))
  <2>1. t = 1 /\ w.tsx[t].client = "calling" /\ u = "caller" /\ w.tsx[t].method # "BYE"
    BY <1>3, CallsWithFirst
  <2>2. CASE w.tsx[1].status >= 300
    <3>1. Refused(w)
      BY <2>1, <2>2 DEF Refused
    <3>2. Excused(w, u)
      BY <1>1, <2>1, <3>1 DEF Ending, First, Excused, Peer
    <3> HIDE DEF u
    <3>3. u # "callee" /\ w.tsx[t].from = u
      BY <2>1 DEF u
    <3>4. QED
      BY <1>1, <2>1, <3>2, <3>3, EnterOverGoes
  <2>3. CASE w.tsx[1].status < 300
    <3>1. code = 408
      BY <1>1, <2>1, <2>3
    <3> HIDE DEF u
    <3>2. u # "callee" /\ w.tsx[t].from = u
      BY <2>1 DEF u
    <3>3. QED
      BY <1>1, <2>1, <2>3, <3>1, <3>2, GiveUpGoes
  <2>4. QED
    BY <1>1, <2>2, <2>3
<1>4. ASSUME w.inv[u].state \notin {"CALLING", "EARLY"}
      PROVE  Goes(w, w1) /\ Turns(w, w1, t, client, code) /\ w1.inv = w.inv
  <2>1. t = 1 /\ w.tsx[t].client = "calling" => w.inv["caller"].state = "DISCONNECTED"
    BY <1>1, <1>4, CallerWaits, EndingParts
  <2>2. w.tsx[t].method # "BYE" /\ client # "calling"
        /\ client \in {"calling", "completed", "terminated"}
    OBVIOUS
  <2>3. QED
    BY <1>1, <2>1, <2>2, TurnGoes
<1> HIDE DEF w1
<1>5. ASSUME w.inv[u].state = "CONFIRMED"
      PROVE  Goes(w, UnlessLost(w1, u, t, f))
  <2>1. Goes(w, w1) /\ Turns(w, w1, t, client, code) /\ w1.inv = w.inv
    BY <1>4, <1>5
  <2>2. w.tsx[1].server # "none"
    BY <1>1, <1>5, HasInvite
  <2>3. /\ t \in Indices(w1) /\ w1.tsx[t].from = u /\ w1.tsx[1].server # "none"
        /\ Sound(w1) /\ Ending(w1) /\ t \in 1..Len(w1.tsx)
    BY <1>1, <2>1, <2>2, EndingParts DEF Turns, Apart, Alike, Indices, Goes
  <2>4. Goes(w1, Withdraw(w1, u))
    BY <1>1, <2>3, WithdrawMedia, MediaGoes
  <2>5. Goes(Withdraw(w1, u), f)
    BY <1>1, <2>4, ForgetGoes DEF Goes
  <2>6. Goes(w1, f)
    BY <2>3, <2>4, <2>5, GoesTrans
  <2> HIDE DEF f
  <2>7. Goes(w1, UnlessLost(w1, u, t, f))
    BY <1>5, <2>1, <2>3, <2>6, UnlessLostGoes
  <2>8. QED
    BY <1>1, <2>1, <2>7, GoesTrans
<1> HIDE DEF f
<1>6. Goes(w, w2)
  BY <1>3, <1>4, <1>5
<1> HIDE DEF w2
<1>7. Goes(w2, Forget(w2, u, t))
  BY <1>1, <1>6, ForgetGoes DEF Goes
<1>8. QED
  BY <1>1, <1>2, <1>6, <1>7, GoesTrans

\* What an ACK says is noted.
LEMMA AcksGoes ==
  ASSUME NEW w, Sound(w), Ending(w), NEW ack \in [t : Nat, sdp : Nat], ack.t \in Indices(w),
         w.tsx[ack.t].server # "none"
  PROVE  LET v == [w EXCEPT !.acks = @ \cup {ack}]
         IN  Goes(w, v) /\ v.inv = w.inv /\ v.tsx = w.tsx /\ v.neg = w.neg
<1> DEFINE A == w.acks \cup {ack}
           v == [w EXCEPT !.acks = A]
<1>1. w \in Worlds /\ w.acks \in SUBSET [t : Nat, sdp : Nat]
      /\ \A a \in w.acks : a.t \in 1..Len(w.tsx)
  BY DEF Sound, Typed, Worlds
<1>2. A \in SUBSET [t : Nat, sdp : Nat] /\ \A a \in A : a.t \in 1..Len(w.tsx)
  BY <1>1 DEF Indices
<1>3. v.acks = A
  BY <1>1 DEF Worlds
<1>4. \A a \in A : a \in w.acks \/ a = ack
  OBVIOUS
<1> HIDE DEF A
<1>5. Tame(w, v) /\ v.inv = w.inv /\ v.tsx = w.tsx /\ v.neg = w.neg
  BY <1>2, PutAcksTame
<1>6. v = [w EXCEPT !.acks = @ \cup {ack}]
  BY DEF A
<1> HIDE DEF v
<1>7. Sound(v)
  BY <1>5 DEF Tame
<1>8. Ending(v)
  BY <1>5, SameEnding DEF Alike
<1>9. Kept(w, v)
  <2>1. Len(w.tsx) \in Nat
    BY DEF Ending, Shape
  <2>2. QED
    BY <1>3, <1>4, <1>5, <2>1 DEF Kept, Indices
<1>10. QED
  BY <1>5, <1>6, <1>7, <1>8, <1>9 DEF Goes

\* The first ACK confirms the call.
LEMMA ConfirmGoes ==
  ASSUME NEW w, Sound(w), Ending(w), NEW u \in Ends, w.inv[u].state = "CONNECTING"
  PROVE  Goes(w, Confirm(w, u))
<1>1. w.tsx[1].server # "none"
  BY HasInvite
<1>2. Goes(w, SendBye(w, u))
  BY <1>1, ByeGoes
<1>3. Goes(w, SetState(w, u, "CONFIRMED"))
  <2> DEFINE v == SetState(w, u, "CONFIRMED")
  <2>1. "CONFIRMED" \in States
    BY DEF States
  <2>2. Sound(v) /\ Sets(w, v, u, "CONFIRMED")
    BY <2>1, StateSets
  <2> HIDE DEF v
  <2>3. u = "caller" => w.tsx[1].server \in {"completed", "terminated"}
    BY DEF Ending, First
  <2>4. Ending(v)
    BY <1>1, <2>2, <2>3, SetsEnding
  <2>5. Kept(w, v)
    BY <2>2, ApartKept DEF Sets, Ending, Shape
  <2>6. QED
    BY <2>2, <2>4, <2>5 DEF Goes, v
<1>4. QED
  BY <1>2, <1>3 DEF Confirm

\* The client acknowledges a 2xx response.
LEMMA SendAckGoes ==
  ASSUME NEW w, Sound(w), Ending(w), NEW t \in Indices(w), w.tsx[t].server # "none",
         w.inv[w.tsx[t].from].state \in {"CONNECTING", "CONFIRMED", "DISCONNECTED"}, NEW choice
  PROVE  Goes(w, SendAck(w, t, choice))
<1> DEFINE u == Client(w, t)
           i == w.inv[u].invite_tsx
           fits == choice # "mismatch"
           answers == HasLocalAnswer(w.neg[u])
           n == Negotiate(w, u, fits)
           agreed == IF ~answers THEN w
                     ELSE IF i = 0 THEN n ELSE [n EXCEPT !.tsx[i].done = @ \/ fits]
           sdp == IF answers /\ fits THEN agreed.neg[u].active_local.sdp ELSE 0
           created == IF w.inv[u].last_ack_cseq = t THEN w
                      ELSE [agreed EXCEPT !.inv[u].last_ack_cseq = t, !.inv[u].last_ack = sdp]
           ack == [t |-> t, sdp |-> created.inv[u].last_ack]
           sent == [created EXCEPT !.acks = @ \cup {ack}]
<1>1. u \in Ends /\ i \in 0..Len(w.tsx) /\ Len(w.tsx) \in Nat /\ u = w.tsx[t].from
  BY SoundParts, EndingParts
<1>2. SendAck(w, t, choice) = AckSent(sent, u)
  BY DEF SendAck
<1>3. Media(w, agreed)
  <2>1. Media(w, n)
    <3>1. fits \in BOOLEAN
      OBVIOUS
    <3> HIDE DEF fits
    <3>2. QED
      BY <1>1, <3>1, NegotiateMedia
  <2> HIDE DEF n
  <2>2. ASSUME i # 0
        PROVE  Media(w, [n EXCEPT !.tsx[i].done = @ \/ fits])
    <3> DEFINE b == n.tsx[i].done \/ fits
    <3>1. i \in 1..Len(n.tsx) /\ Sound(n)
      BY <1>1, <2>1, <2>2 DEF Media
    <3>2. b \in BOOLEAN
      OBVIOUS
    <3> HIDE DEF b
    <3>3. Media(n, [n EXCEPT !.tsx[i].done = b])
      BY <3>1, <3>2, MarksMedia
    <3>4. QED
      BY <2>1, <3>3, MediaTrans DEF b
  <2>3. QED
    BY <2>1, <2>2, MediaRefl
<1> HIDE DEF agreed
<1>4. sdp \in Nat
  BY <1>1, <1>3, SoundParts DEF Media
<1> HIDE DEF sdp
<1>5. Media(w, created)
  <2>1. Media(agreed, [agreed EXCEPT !.inv[u].last_ack_cseq = t, !.inv[u].last_ack = sdp])
    <3> HIDE DEF u
    <3>1. Sound(agreed) /\ t \in Nat
      BY <1>1, <1>3 DEF Media, Indices
    <3>2. QED
      BY <1>1, <1>4, <3>1, CacheAckMedia
  <2>2. QED
    BY <1>3, <2>1, MediaRefl, MediaTrans
<1> HIDE DEF created
<1>6. /\ Goes(w, created) /\ Sound(created) /\ Ending(created) /\ t \in Indices(created)
      /\ created.inv[u].state = w.inv[u].state /\ created.tsx[t].server # "none"
  BY <1>1, <1>5, MediaGoes, ZenonT(60) DEF Goes, Media, Indices
<1>7. Goes(created, sent) /\ sent.inv = created.inv
  <2>1. created.inv[u] \in Sessions(Nat, Nat) /\ t \in Nat
    BY <1>1, <1>6, SoundParts DEF Indices
  <2>2. ack \in [t : Nat, sdp : Nat] /\ ack.t = t
    BY <2>1 DEF Sessions
  <2> HIDE DEF ack
  <2>3. QED
    BY <1>6, <2>2, AcksGoes
<1> HIDE DEF sent
<1>8. Goes(sent, AckSent(sent, u))
  <2>1. /\ Sound(sent) /\ Ending(sent) /\ u \in Ends
        /\ sent.inv[u].state \in {"CONNECTING", "CONFIRMED", "DISCONNECTED"}
    BY <1>1, <1>6, <1>7 DEF Goes
  <2> HIDE DEF u
  <2>2. CASE sent.inv[u].state \in {"CONFIRMED", "DISCONNECTED"}
    BY <2>1, <2>2, GoesRefl DEF AckSent
  <2>3. CASE sent.inv[u].state = "CONNECTING"
    BY <2>1, <2>3, ConfirmGoes DEF AckSent
  <2>4. QED
    BY <2>1, <2>2, <2>3
<1>9. Goes(w, sent)
  BY <1>6, <1>7, GoesTrans
<1>10. QED
  BY <1>2, <1>8, <1>9, GoesTrans

\* A 2xx response to an INVITE.
LEMMA OnInviteOkGoes ==
  ASSUME NEW w, Runs(w), NEW t \in Indices(w), w.tsx[t].method = "INVITE",
         w.tsx[t].client = "calling", w.tsx[t].status \in 200..299, NEW choice
  PROVE  Goes(w, OnInviteOk(w, t, choice))
<1> DEFINE u == w.tsx[t].from
           w1 == ClientEnters(w, t, "terminated", 200)
           body == w.tsx[t].body
           checked == CheckSdpClient(w1, t, body, choice)
           connecting == SetState(checked, u, "CONNECTING")
           withdrawn == Withdraw(checked, u)
           w2 == CASE w.inv[u].state \in {"CALLING", "EARLY"} -> SendAck(connecting, t, choice)
                   [] w.inv[u].state = "CONFIRMED" -> SendAck(withdrawn, t, choice)
                   [] OTHER -> w1
<1>1. Sound(w) /\ Ending(w) /\ u \in Ends /\ Client(w, t) = u /\ body \in Nat
  BY EndingParts, SoundParts DEF Runs, Begun
<1>2. OnInviteOk(w, t, choice) = Forget(w2, u, t)
  BY <1>1 DEF OnInviteOk
<1>3. w.tsx[t].server \in {"completed", "terminated"}
  BY <1>1 DEF Ending, Codes
<1>4. Goes(w, w1) /\ Turns(w, w1, t, "terminated", 200) /\ w1.inv = w.inv
  <2>1. /\ "terminated" \in {"calling", "completed", "terminated"} /\ "terminated" # "calling"
        /\ 200 \in Nat /\ (t = 1 => w.tsx[1].status < 300) /\ w.tsx[t].method # "BYE"
    OBVIOUS
  <2>2. QED
    BY <1>1, <2>1, TurnGoes
<1> HIDE DEF body, w1
<1>5. t \in Indices(w1) /\ t \in 1..Len(w1.tsx) /\ Sound(w1) /\ Ending(w1)
  BY <1>4 DEF Turns, Apart, Indices, Goes
<1>6. Goes(w1, checked) /\ Still(w1, checked)
  BY <1>1, <1>5, CheckSdpMedia, MediaGoes
<1> HIDE DEF checked
<1>7. /\ Goes(w, checked) /\ Sound(checked) /\ Ending(checked) /\ t \in Indices(checked)
      /\ \A e \in Ends : checked.inv[e].state = w.inv[e].state
      /\ \A i \in Indices(w) : /\ checked.tsx[i].from = w.tsx[i].from
                               /\ checked.tsx[i].server = w.tsx[i].server
                               /\ checked.tsx[i].method = w.tsx[i].method
      /\ Indices(checked) = Indices(w)
  <2>1. Goes(w, checked)
    BY <1>1, <1>4, <1>6, GoesTrans
  <2>2. \A i \in Indices(w) : /\ w1.tsx[i].from = w.tsx[i].from
                              /\ w1.tsx[i].server = w.tsx[i].server
                              /\ w1.tsx[i].method = w.tsx[i].method
    BY <1>4 DEF Turns, Apart, Alike
  <2>3. Indices(w1) = Indices(w) /\ Indices(checked) = Indices(w1)
    BY <1>4, <1>6 DEF Turns, Apart, Still, Indices
  <2>4. QED
    BY <1>4, <1>6, <2>1, <2>2, <2>3 DEF Goes, Still, Apart, Alike
<1>8. ASSUME w.inv[u].state \in {"CALLING", "EARLY"}
      PROVE  Goes(w, SendAck(connecting, t, choice))
  <2>1. t = 1 /\ u = "caller"
    BY <1>8, CallsWithFirst
  <2>2. /\ checked.tsx[1].server \in {"completed", "terminated"}
        /\ checked.inv[u].state \in {"CALLING", "EARLY"}
    BY <1>1, <1>3, <1>7, <1>8, <2>1
  <2>3. Sound(connecting) /\ Sets(checked, connecting, u, "CONNECTING")
    BY <1>1, <1>7, StateSets DEF States
  <2> HIDE DEF connecting
  <2>4. Ending(connecting)
    <3>1. "CONNECTING" # "DISCONNECTED" /\ checked.inv[u].state # "DISCONNECTED"
          /\ u # "callee" /\ "CONNECTING" \in {"CONNECTING", "CONFIRMED"}
      BY <2>1, <2>2
    <3> HIDE DEF u
    <3>2. QED
      BY <1>1, <1>7, <2>2, <2>3, <3>1, SetsEnding
  <2>5. Kept(checked, connecting)
    BY <1>7, <2>3, ApartKept DEF Sets, Ending, Shape
  <2>6. Goes(checked, connecting)
    BY <2>3, <2>4, <2>5 DEF Goes
  <2>7. /\ t \in Indices(connecting) /\ connecting.tsx[t].server # "none"
        /\ connecting.tsx[t].from = u /\ connecting.inv[u].state = "CONNECTING"
    BY <1>7, <2>1, <2>2, <2>3 DEF Sets, Apart, Alike, Indices
  <2>8. Goes(connecting, SendAck(connecting, t, choice))
    BY <2>3, <2>4, <2>7, SendAckGoes
  <2>9. Goes(w, connecting)
    BY <1>1, <1>7, <2>6, GoesTrans
  <2>10. QED
    BY <1>1, <2>8, <2>9, GoesTrans
<1>9. ASSUME w.inv[u].state = "CONFIRMED"
      PROVE  Goes(w, SendAck(withdrawn, t, choice))
  <2>1. Goes(checked, withdrawn) /\ Still(checked, withdrawn) /\ Sound(withdrawn)
    BY <1>1, <1>7, WithdrawMedia, MediaGoes
  <2> HIDE DEF withdrawn
  <2>2. /\ t \in Indices(withdrawn) /\ withdrawn.tsx[t].server # "none"
        /\ withdrawn.tsx[t].from = u /\ withdrawn.inv[u].state = "CONFIRMED"
        /\ Sound(withdrawn) /\ Ending(withdrawn)
    BY <1>1, <1>3, <1>7, <1>9, <2>1 DEF Still, Apart, Alike, Indices, Goes
  <2>3. Goes(withdrawn, SendAck(withdrawn, t, choice))
    BY <2>2, SendAckGoes
  <2>4. Goes(w, withdrawn)
    BY <1>1, <1>7, <2>1, GoesTrans
  <2>5. QED
    BY <1>1, <2>3, <2>4, GoesTrans
<1> HIDE DEF connecting, withdrawn
<1>10. Goes(w, w2)
  BY <1>4, <1>8, <1>9
<1> HIDE DEF w2
<1>11. Goes(w2, Forget(w2, u, t))
  BY <1>1, <1>10, ForgetGoes DEF Goes
<1>12. QED
  BY <1>1, <1>2, <1>10, <1>11, GoesTrans

\* An end that is not answered has sent no BYE.
LEMMA NoBye ==
  ASSUME NEW w, Ending(w), NEW u \in Ends,
         w.inv[u].state \notin {"CONNECTING", "CONFIRMED", "DISCONNECTED"}
  PROVE  ~Calling(w, u) /\ \A t \in Indices(w) : ~Bye(w, t, u)
BY DEF Ending, Byes, ByeOf, Calling

\* The caller cancels an INVITE that the callee has.
LEMMA SendCancelGoes ==
  ASSUME NEW w, Runs(w), w.inv["caller"].state \in {"CALLING", "EARLY"},
         w.tsx[1].server # "none"
  PROVE  LET v == SendCancel(w, "caller")
         IN  /\ Goes(w, v) /\ \A u \in Ends : v.inv[u].state = w.inv[u].state
             /\ Alike(w.tsx[1], v.tsx[1])
<1> DEFINE a == [w EXCEPT !.tsx[1].expires = TRUE]
           v == SendRequest(a, "caller", "CANCEL", 0, 1)
<1>1. Sound(w) /\ Ending(w) /\ "caller" \in Ends /\ 1 \in 1..Len(w.tsx) /\ 1 \in Indices(w)
  BY EndingParts DEF Runs, Begun
<1>2. SendCancel(w, "caller") = v
  <2>1. w.inv["caller"].invite_tsx = 1
    BY DEF Runs, Begun, Course
  <2>2. QED
    BY <2>1 DEF SendCancel
<1>3. Goes(w, a) /\ Still(w, a) /\ Sound(a)
  BY <1>1, MarksMedia, MediaGoes
<1> HIDE DEF a
<1>4. /\ Ending(a) /\ Alike(w.tsx[1], a.tsx[1]) /\ 1 \in Indices(a)
      /\ a.inv["caller"].state \in {"CALLING", "EARLY"}
      /\ \A u \in Ends : a.inv[u].state = w.inv[u].state
  BY <1>1, <1>3 DEF Still, Apart, Goes, Indices
<1>5. ~Calling(a, "caller") /\ a.tsx[1].server # "none" /\ 1 \in 0..Len(a.tsx)
  BY <1>1, <1>4, NoBye DEF Alike, Indices
<1>6. Goes(a, v) /\ Asks(a, v, "caller", "CANCEL", 1)
  <2>1. "CANCEL" \in {"INVITE", "UPDATE", "BYE", "CANCEL"} /\ "CANCEL" # "BYE" /\ 0 \in Nat
    OBVIOUS
  <2>2. QED
    BY <1>1, <1>3, <1>4, <1>5, <2>1, RequestGoes
<1> HIDE DEF v
<1>7. Goes(w, v)
  BY <1>1, <1>3, <1>6, GoesTrans
<1>8. Alike(w.tsx[1], v.tsx[1])
  <2>1. Alike(a.tsx[1], v.tsx[1])
    BY <1>4, <1>6 DEF Asks
  <2>2. QED
    BY <1>4, <2>1 DEF Alike
<1>9. \A u \in Ends : v.inv[u].state = w.inv[u].state
  BY <1>4, <1>6 DEF Asks
<1>10. QED
  BY <1>2, <1>7, <1>8, <1>9

\* A provisional response.
LEMMA OnProgressGoes ==
  ASSUME NEW w, Runs(w), NEW t \in Indices(w), w.tsx[t].server = "proceeding",
         w.tsx[t].client = "calling", NEW choice
  PROVE  Goes(w, OnProgress(w, t, choice))
<1> DEFINE status == w.tsx[1].status
           body == w.tsx[1].body
           w1 == ClientEnters(w, 1, "calling", status)
           p  == [w1 EXCEPT !.inv["caller"].pending_cancel = FALSE]
           w2 == IF w.inv["caller"].pending_cancel /\ w.inv["caller"].state = "CALLING"
                 THEN SendCancel(p, "caller") ELSE w1
           r  == SetState(w2, "caller", "EARLY")
           x  == CheckSdpClient(r, 1, body, choice)
<1>1. t = 1 /\ Begun(w)
  BY DEF Runs, Begun, Course, Indices
<1>2. /\ Sound(w) /\ Ending(w) /\ 1 \in Indices(w) /\ 1 \in 1..Len(w.tsx)
      /\ Client(w, 1) = "caller" /\ "caller" \in Ends
      /\ status \in Nat /\ body \in Nat /\ w.tsx[1].method # "BYE"
  BY <1>1, EndingParts, SoundParts DEF Runs, Begun
<1>3. status < 200 /\ w.inv["caller"].state \in {"CALLING", "EARLY", "DISCONNECTED"}
  BY <1>1, <1>2, CallerWaits DEF Ending, Codes
<1>4. OnProgress(w, t, choice) = IF Over(w, "caller") \/ status = 100 THEN w2 ELSE x
  BY <1>1, <1>2 DEF OnProgress
<1>5. Goes(w, w1) /\ Turns(w, w1, 1, "calling", status) /\ w1.inv = w.inv
  <2>1. "calling" \in {"calling", "completed", "terminated"} /\ w.tsx[1].client = "calling"
        /\ w.tsx[1].server # "none"
    BY <1>1
  <2> HIDE DEF status
  <2>2. QED
    BY <1>2, <1>3, <2>1, TurnGoes
<1>6. Begun(w1)
  <2>1. Tame(w, w1)
    <3>1. "calling" \in {"calling", "completed", "terminated"} /\ w.tsx[1].client = "calling"
      BY <1>1
    <3> HIDE DEF status
    <3>2. QED
      BY <1>2, <3>1, ClientEntersTame
  <2>2. QED
    BY <1>1, <2>1, TameFollows DEF Follows
<1> HIDE DEF w1, body
<1>7. w1.tsx[1].server # "none" /\ Ending(w1) /\ Sound(w1)
  BY <1>1, <1>5 DEF Turns, Goes
<1>8. Goes(w, w2) /\ \A u \in Ends : w2.inv[u].state = w.inv[u].state
  <2>1. CASE w.inv["caller"].pending_cancel /\ w.inv["caller"].state = "CALLING"
    <3>1. Media(w1, p)
      BY <1>2, <1>7, NotesMedia
    <3> HIDE DEF p
    <3>2. Goes(w1, p) /\ Still(w1, p) /\ Begun(p)
      BY <1>6, <1>7, <3>1, MediaGoes, MediaFollows DEF Follows
    <3>3. /\ Runs(p) /\ p.tsx[1].server # "none"
          /\ \A u \in Ends : p.inv[u].state = w.inv[u].state
      BY <1>5, <1>7, <3>2, EndingParts DEF Runs, Goes, Still, Apart, Alike
    <3>4. /\ Goes(p, SendCancel(p, "caller"))
          /\ \A u \in Ends : SendCancel(p, "caller").inv[u].state = p.inv[u].state
      BY <1>2, <2>1, <3>3, SendCancelGoes
    <3>5. Goes(w, p)
      BY <1>2, <1>5, <3>2, GoesTrans
    <3>6. Goes(w, SendCancel(p, "caller"))
      BY <1>2, <3>4, <3>5, GoesTrans
    <3>7. QED
      BY <2>1, <3>3, <3>4, <3>6
  <2>2. CASE ~(w.inv["caller"].pending_cancel /\ w.inv["caller"].state = "CALLING")
    BY <1>5, <2>2
  <2>3. QED
    BY <2>1, <2>2
<1> HIDE DEF w2
<1>9. CASE Over(w, "caller") \/ status = 100
  BY <1>4, <1>8, <1>9
<1>10. CASE ~(Over(w, "caller") \/ status = 100)
  <2>1. /\ Ending(w2) /\ Sound(w2) /\ w2.inv["caller"].state \in {"CALLING", "EARLY"}
        /\ "EARLY" \in States
    BY <1>2, <1>3, <1>8, <1>10 DEF Goes, Over, States
  <2>2. Sound(r) /\ Sets(w2, r, "caller", "EARLY")
    BY <1>2, <2>1, StateSets
  <2> HIDE DEF r
  <2>3. \A i \in Indices(w2) : ~Bye(w2, i, "caller")
    BY <1>2, <2>1, NoBye
  <2>4. Ending(r)
    BY <1>2, <2>1, <2>2, <2>3, SetsEnding
  <2>5. Kept(w2, r)
    BY <2>1, <2>2, ApartKept DEF Sets, Ending, Shape
  <2>6. Goes(w2, r) /\ 1 \in 1..Len(r.tsx)
    BY <2>2, <2>4, <2>5, EndingParts DEF Goes
  <2>7. Goes(r, x)
    BY <1>2, <2>2, <2>4, <2>6, CheckSdpMedia, MediaGoes
  <2> HIDE DEF x
  <2>8. Goes(w, r)
    BY <1>2, <1>8, <2>6, GoesTrans
  <2>9. QED
    BY <1>2, <1>4, <1>10, <2>7, <2>8, GoesTrans
<1>11. QED
  BY <1>9, <1>10

-----------------------------------------------------------------------------
(* Requests that the dialog gives to the session *)

\* The invariant goes on, and request t is one that was received.
Takes(w, v, t) == Goes(w, v) /\ v.tsx[t].server # "none"

\* What is done at the server of a transaction that is neither a BYE nor the first.
LEMMA ServeGoes ==
  ASSUME NEW w, Ending(w), NEW t \in Indices(w), NEW v, Sound(v), NEW server, NEW status \in Nat,
         Serves(w, v, t, server, status), t # 1, w.tsx[t].method # "BYE",
         server # "none", server = "proceeding" => status < 200,
         status >= 200 => server \in {"completed", "terminated"}
  PROVE  Takes(w, v, t)
<1>1. Ending(v)
  BY ServesEnding
<1>2. Kept(w, v)
  BY ApartKept DEF Serves, Ending, Shape
<1>3. QED
  BY <1>1, <1>2 DEF Takes, Goes, Serves

\* A final response, after what concerns the media.
LEMMA RespondsGoes ==
  ASSUME NEW w, Sound(w), Ending(w), NEW t \in Indices(w), t # 1, w.tsx[t].method # "BYE",
         NEW m, Sound(m), Still(w, m), NEW status \in Nat, status >= 200, NEW body \in Nat
  PROVE  Takes(w, SendResponse(m, t, status, body), t)
<1> DEFINE v == SendResponse(m, t, status, body)
           server == IF m.tsx[t].method = "INVITE" THEN "completed" ELSE "terminated"
<1>1. Goes(w, m)
  BY StillGoes
<1>2. t \in Indices(m) /\ Ending(m) /\ m.tsx[t].method # "BYE"
  BY <1>1 DEF Still, Apart, Indices, Goes
<1>3. Sound(v) /\ Serves(m, v, t, server, status)
  BY <1>2, ResponseServes
<1>4. server \in {"completed", "terminated"}
  OBVIOUS
<1> HIDE DEF v, server
<1>5. Takes(m, v, t)
  BY <1>2, <1>3, <1>4, ServeGoes
<1>6. QED
  BY <1>1, <1>5, GoesTrans DEF Takes, v

\* The same of process_answer.
LEMMA RespondGoes ==
  ASSUME NEW w, Sound(w), Ending(w), NEW t \in Indices(w), t # 1, w.tsx[t].method # "BYE",
         NEW m, Sound(m), Still(w, m), NEW fits \in BOOLEAN
  PROVE  Takes(w, Respond(m, t, 200, fits), t)
<1>1. t \in 1..Len(m.tsx) /\ 200 \in Nat
  BY DEF Still, Apart, Indices
<1>2. Responds(m, t, 200, fits, Respond(m, t, 200, fits))
  BY <1>1, RespondEffect
<1>3. PICK x : \E body \in Nat, s \in {200, 500} :
         Media(m, x) /\ Respond(m, t, 200, fits) = SendResponse(x, t, s, body)
  BY <1>2 DEF Responds
<1>4. PICK body \in Nat, s \in {200, 500} :
         Media(m, x) /\ Respond(m, t, 200, fits) = SendResponse(x, t, s, body)
  BY <1>3
<1>5. Still(m, x) /\ Sound(x) /\ s \in Nat /\ s >= 200
  BY <1>4, MediaStill DEF Media
<1>6. Still(w, x)
  BY <1>5, ApartTrans DEF Still
<1>7. QED
  BY <1>4, <1>5, <1>6, RespondsGoes

\* The session claims a request that is not a BYE.
LEMMA IgnoreGoes ==
  ASSUME NEW w, Sound(w), Ending(w), NEW t \in Indices(w), t # 1, w.tsx[t].method # "BYE",
         w.tsx[t].server = "none"
  PROVE  Takes(w, Ignore(w, t), t)
<1> DEFINE v == Ignore(w, t)
<1>1. Sound(v) /\ Serves(w, v, t, "trying", w.tsx[t].status)
  BY MarkServes DEF Ignore
<1>2. w.tsx[t].status \in Nat /\ ~(w.tsx[t].status >= 200)
  BY DEF Ending, Codes
<1> HIDE DEF v
<1>3. Takes(w, v, t)
  BY <1>1, <1>2, ServeGoes
<1>4. QED
  BY <1>3 DEF v

\* A server sends a response and its end comes to a state, or the other way round.
LEMMA ServesOver ==
  ASSUME NEW w, NEW v, NEW a, NEW x, NEW u, NEW s, NEW t \in Indices(w), NEW server, NEW status,
         Serves(w, a, t, server, status), Sets(a, v, u, s), Sets(w, x, u, s)
  PROVE  Serves(x, v, t, server, status)
<1>1. Indices(a) = Indices(w) /\ Indices(x) = Indices(w) /\ Len(x.tsx) = Len(v.tsx)
      /\ t \in Indices(a) /\ v.acks = x.acks
  BY DEF Serves, Sets, Apart, Indices
<1>2. \A e \in Ends : /\ v.inv[e].remote_cseq = x.inv[e].remote_cseq
                      /\ v.inv[e].state = x.inv[e].state
  BY DEF Serves, Sets, Apart
<1>3. \A i \in Indices(w) : Alike(w.tsx[i], x.tsx[i]) /\ Alike(a.tsx[i], v.tsx[i])
  BY <1>1 DEF Sets, Apart
<1>4. \A i \in Indices(w) \ {t} : Alike(w.tsx[i], a.tsx[i])
  BY DEF Serves, Apart
<1>5. \A i \in Indices(w) : /\ a.tsx[i].method = w.tsx[i].method
                            /\ a.tsx[i].from = w.tsx[i].from /\ a.tsx[i].of = w.tsx[i].of
  BY DEF Serves, Apart
<1>6. \A i \in Indices(w) \ {t} : Alike(x.tsx[i], v.tsx[i])
  BY <1>3, <1>4 DEF Alike
<1>7. Apart(x, v, {}, {t})
  BY <1>1, <1>2, <1>3, <1>5, <1>6 DEF Apart, Alike
<1>8. QED
  BY <1>3, <1>7 DEF Serves, Alike

\* A transaction that is served before or after an end is done with the call.
LEMMA OverServes ==
  ASSUME NEW w, NEW v, NEW a, NEW x, NEW u \in Ends, NEW s, NEW t \in Indices(w), NEW server,
         NEW status, Serves(w, a, t, server, status), Sets(w, x, u, s),
         Serves(x, v, t, server, status)
  PROVE  Sets(a, v, u, s)
<1>1. Indices(a) = Indices(w) /\ Indices(x) = Indices(w) /\ Len(a.tsx) = Len(v.tsx)
      /\ t \in Indices(x) /\ v.acks = a.acks
  BY DEF Serves, Sets, Apart, Indices
<1>2. /\ \A e \in Ends : v.inv[e].remote_cseq = a.inv[e].remote_cseq
      /\ \A e \in Ends \ {u} : v.inv[e].state = a.inv[e].state
      /\ v.inv[u].state = s
  BY DEF Serves, Sets, Apart
<1>3. \A i \in Indices(w) : Alike(w.tsx[i], x.tsx[i])
  BY <1>1 DEF Sets, Apart
<1>4. \A i \in Indices(w) \ {t} : Alike(w.tsx[i], a.tsx[i]) /\ Alike(x.tsx[i], v.tsx[i])
  BY <1>1 DEF Serves, Apart
<1>5. \A i \in Indices(w) : /\ a.tsx[i].method = w.tsx[i].method
                            /\ a.tsx[i].from = w.tsx[i].from /\ a.tsx[i].of = w.tsx[i].of
                            /\ x.tsx[i].method = v.tsx[i].method
                            /\ x.tsx[i].from = v.tsx[i].from /\ x.tsx[i].of = v.tsx[i].of
  BY <1>1 DEF Serves, Apart
<1>6. \A i \in Indices(w) : Alike(a.tsx[i], v.tsx[i])
  <2>1. SUFFICES ASSUME NEW i \in Indices(w)
                 PROVE  Alike(a.tsx[i], v.tsx[i])
    OBVIOUS
  <2>2. CASE i = t
    BY <1>3, <1>5, <2>2 DEF Serves, Alike
  <2>3. CASE i # t
    BY <1>3, <1>4, <2>3 DEF Alike
  <2>4. QED
    BY <2>2, <2>3
<1>7. QED
  BY <1>1, <1>2, <1>6 DEF Sets, Apart, Alike

\* The callee rings.
LEMMA RxFirstInviteTakes ==
  ASSUME NEW w, Runs(w), NEW t \in Indices(w), w.tsx[t].method = "INVITE",
         w.tsx[t].server = "none", w.inv[Server(w, t)].state = "NULL"
  PROVE  Takes(w, RxFirstInvite(w, t), t)
<1> DEFINE sdp == w.tsx[1].sdp
           w1  == IF sdp = 0 THEN w
                  ELSE [w EXCEPT !.neg["callee"] = RemoteOffer(@, sdp, "long")]
           q   == [w1.inv["callee"] EXCEPT !.state = "INCOMING"]
           r   == [q EXCEPT !.invite_tsx = 1]
           y   == [w1 EXCEPT !.inv["callee"] = q]
           x   == [y EXCEPT !.inv["callee"] = r]
           v   == SendResponse(x, 1, 100, 0)
           z   == SendResponse(w1, 1, 100, 0)
<1>1. /\ Sound(w) /\ Ending(w) /\ Len(w.tsx) \in Nat /\ "callee" \in Ends /\ "caller" \in Ends
      /\ 1 \in 1..Len(w.tsx) /\ 1 \in Indices(w) /\ sdp \in Nat
      /\ w.neg["callee"] \in Negotiators(Nat) /\ w.inv["callee"].prov \in {"A", "B"}
      /\ Fits(w.neg["callee"], w.inv["callee"].prov)
  BY SoundParts, EndingParts DEF Runs, Begun
<1>2. t = 1 /\ Server(w, t) = "callee" /\ w.inv["callee"].state = "NULL"
  <2>0. Server(w, t) \in Ends /\ w.inv["caller"].state # "NULL"
    BY <1>1, EndingParts DEF Runs, Begun, Course
  <2>1. Server(w, t) = "callee"
    BY <2>0 DEF Ends
  <2>2. w.inv["callee"].state = "NULL"
    BY <2>1
  <2>3. \A i \in 2..Len(w.tsx) : w.tsx[i].method # "INVITE"
    BY <2>2 DEF Runs, Begun, Course
  <2>4. t = 1 \/ t \in 2..Len(w.tsx)
    BY <1>1 DEF Indices
  <2>5. QED
    BY <2>1, <2>2, <2>3, <2>4
<1>3. Media(w, w1)
  <2>1. CASE sdp = 0
    BY <1>1, <2>1, MediaRefl
  <2>2. CASE sdp # 0
    <3> DEFINE n == RemoteOffer(w.neg["callee"], sdp, "long")
    <3>1. n \in Negotiators(Nat) /\ Fits(n, w.inv["callee"].prov)
      BY <1>1, NegotiatorFits
    <3> HIDE DEF n
    <3>2. Media(w, [w EXCEPT !.neg["callee"] = n])
      BY <1>1, <3>1, PutNegMedia
    <3>3. w1 = [w EXCEPT !.neg["callee"] = n]
      BY <2>2 DEF n
    <3>4. QED
      BY <3>2, <3>3
  <2>3. QED
    BY <2>1, <2>2
<1>4. ASSUME y.inv["callee"] = q
      PROVE  RxFirstInvite(w, t) = v
  BY <1>2, <1>4 DEF RxFirstInvite
<1> HIDE DEF w1, sdp
<1>5. Goes(w, w1) /\ Still(w, w1) /\ Sound(w1) /\ Ending(w1) /\ 1 \in Indices(w1)
  BY <1>1, <1>3, MediaGoes DEF Goes, Still, Apart, Indices
<1>6. /\ w1.inv["callee"] \in Sessions(Nat, Nat) /\ 1 \in 0..Len(w1.tsx)
      /\ w1.inv["callee"].invite_tsx \in 0..Len(w1.tsx)
      /\ w1.inv["callee"].state = "NULL"
      /\ w1.tsx[1].server = "none"
  BY <1>1, <1>2, <1>5, SoundParts DEF Still, Apart, Alike, Indices
<1>7. /\ q \in Sessions(Nat, Nat) /\ q.prov = w1.inv["callee"].prov
      /\ q.invite_tsx = w1.inv["callee"].invite_tsx
      /\ q.remote_cseq = w1.inv["callee"].remote_cseq
      /\ r \in Sessions(Nat, Nat) /\ r.prov = q.prov
      /\ r.invite_tsx = 1 /\ r.state = "INCOMING" /\ r.remote_cseq = q.remote_cseq
  BY <1>6 DEF Sessions, States
<1> HIDE DEF q, r
<1>8. Sound(y) /\ Apart(w1, y, {"callee"}, {}) /\ y.inv["callee"] = q
  <2>1. /\ Sound(w1) /\ "callee" \in Ends /\ q \in Sessions(Nat, Nat)
        /\ q.prov = w1.inv["callee"].prov /\ q.invite_tsx \in 0..Len(w1.tsx)
        /\ q.remote_cseq = w1.inv["callee"].remote_cseq
    BY <1>1, <1>5, <1>6, <1>7
  <2>2. QED
    BY <2>1, OneInv
<1> HIDE DEF y
<1>9. Sound(x) /\ Apart(y, x, {"callee"}, {}) /\ x.inv["callee"] = r
  <2>1. /\ r.invite_tsx \in 0..Len(y.tsx) /\ r.prov = y.inv["callee"].prov
        /\ r.remote_cseq = y.inv["callee"].remote_cseq
    BY <1>6, <1>7, <1>8 DEF Apart
  <2>2. QED
    BY <1>1, <1>7, <1>8, <2>1, OneInv, ZenonT(60)
<1> HIDE DEF x
<1>10. Sets(w1, x, "callee", "INCOMING")
  BY <1>7, <1>8, <1>9, ApartTrans DEF Sets
<1>11. Sound(v) /\ Serves(x, v, 1, "proceeding", 100)
  <2>1. 1 \in Indices(x)
    BY <1>5, <1>10 DEF Sets, Apart, Indices
  <2>2. QED
    BY <1>9, <2>1, ResponseServes
<1>12. Sound(z) /\ Serves(w1, z, 1, "proceeding", 100)
  BY <1>5, ResponseServes
<1> HIDE DEF v, z
<1>13. Sets(z, v, "callee", "INCOMING")
  BY <1>1, <1>5, <1>10, <1>11, <1>12, OverServes
<1>14. Ending(z)
  <2>1. w1.tsx[1].server = "none" /\ w1.tsx[1].status \in Nat /\ ~(w1.tsx[1].status >= 200)
        /\ w1.tsx[1].method # "BYE"
    BY <1>5, <1>6, EndingParts DEF Ending, Codes
  <2>2. w1.inv["caller"].state \notin {"CONNECTING", "CONFIRMED"}
    BY <1>5, <2>1 DEF Ending, First
  <2>3. QED
    BY <1>5, <1>12, <2>1, <2>2, ServesEnding
<1>15. /\ z.tsx[1].server = "proceeding" /\ z.inv["callee"].state = "NULL"
  BY <1>1, <1>6, <1>12 DEF Serves, Apart
<1>16. Ending(v)
  <2>1. \A i \in Indices(z) : ~Bye(z, i, "callee")
    BY <1>1, <1>14, <1>15, NoBye
  <2>2. QED
    BY <1>1, <1>13, <1>14, <1>15, <2>1, SetsEnding
<1>17. Kept(w1, z) /\ Kept(z, v) /\ Goes(w1, z)
  <2>1. Kept(w1, z)
    BY <1>5, <1>12, ApartKept DEF Serves, Ending, Shape
  <2>2. Kept(z, v)
    BY <1>13, <1>14, ApartKept DEF Sets, Ending, Shape
  <2>3. QED
    BY <1>12, <1>14, <2>1, <2>2 DEF Goes
<1>18. Goes(z, v) /\ v.tsx[1].server = "proceeding"
  BY <1>11, <1>16, <1>17 DEF Goes, Serves
<1>19. Goes(w, z)
  BY <1>1, <1>5, <1>17, GoesTrans
<1>20. Goes(w, v)
  BY <1>1, <1>18, <1>19, GoesTrans
<1>21. QED
  BY <1>2, <1>4, <1>8, <1>18, <1>20 DEF Takes

\* A re-INVITE is answered at once.
LEMMA RxReinviteTakes ==
  ASSUME NEW w, Sound(w), Ending(w), NEW t \in Indices(w), w.tsx[t].method = "INVITE", t # 1,
         w.tsx[t].server = "none", NEW choice
  PROVE  Takes(w, RxReinvite(w, t, choice), t)
<1> DEFINE u == Server(w, t)
           i == w.inv[u].invite_tsx
           sdp == w.tsx[t].sdp
           r == [w.inv[u] EXCEPT !.invite_tsx = t]
           mine == [w EXCEPT !.inv[u] = r]
           asked == CheckSdpServer(mine, t, sdp, choice)
           n == ActiveOffer(mine.neg[u], w.inv[u].prov)
           offer == [mine EXCEPT !.neg[u] = n]
           withdrawn == [asked EXCEPT !.neg[u] = CancelOffer(@)]
           fits == choice = "answer"
<1>1. CASE w.inv[u].state # "CONFIRMED"
  <2>1. RxReinvite(w, t, choice) = Ignore(w, t)
    BY <1>1 DEF RxReinvite
  <2>2. QED
    BY <2>1, IgnoreGoes
<1>2. CASE w.inv[u].state = "CONFIRMED"
  <2>1. /\ u \in Ends /\ sdp \in Nat /\ t \in 1..Len(w.tsx)
        /\ w.inv[u] \in Sessions(Nat, Nat) /\ w.tsx[t].method # "BYE"
    BY SoundParts, EndingParts
  <2>2. RxReinvite(w, t, choice) =
           IF i # 0 THEN SendResponse(w, t, IF w.tsx[i].from = u THEN 491 ELSE 500, 0)
           ELSE IF w.neg[u].state # "DONE" THEN SendResponse(mine, t, 491, 0)
           ELSE IF sdp = 0 THEN Respond(offer, t, 200, TRUE)
           ELSE IF asked.neg[u].state # "WAIT_NEGO" THEN SendResponse(withdrawn, t, 488, 0)
           ELSE Respond(asked, t, 200, fits)
    BY <1>2 DEF RxReinvite
  <2>3. /\ r \in Sessions(Nat, Nat) /\ r.prov = w.inv[u].prov /\ r.state = w.inv[u].state
        /\ r.invite_tsx \in 0..Len(w.tsx) /\ r.remote_cseq = w.inv[u].remote_cseq
    BY <1>2, <2>1, SMTT(60) DEF Sessions
  <2>4. Sound(mine) /\ Still(w, mine) /\ mine.inv[u] = r
    <3> HIDE DEF r, u
    <3>1. Sound(mine) /\ Apart(w, mine, {u}, {}) /\ mine.inv[u] = r
      BY <2>1, <2>3, OneInv
    <3> HIDE DEF mine
    <3>2. QED
      BY <2>3, <3>1 DEF Still, Apart
  <2> HIDE DEF mine, r
  <2>5. /\ t \in 1..Len(mine.tsx) /\ mine.inv[u].prov = w.inv[u].prov
        /\ mine.neg[u] \in Negotiators(Nat) /\ mine.inv[u].prov \in {"A", "B"}
        /\ mine.neg[u].active_local.sdp \in Nat /\ Fits(mine.neg[u], mine.inv[u].prov)
    BY <2>1, <2>3, <2>4, SoundParts DEF Still, Apart
  <2>6. Media(mine, asked)
    BY <2>1, <2>4, <2>5, CheckSdpMedia
  <2>7. Media(mine, offer)
    <3>1. n \in Negotiators(Nat) /\ Fits(n, mine.inv[u].prov)
      BY <2>5, ActiveOfferFits
    <3> HIDE DEF n, u
    <3>2. QED
      BY <2>1, <2>4, <3>1, PutNegMedia
  <2> HIDE DEF asked, offer, u
  <2>8. Media(mine, withdrawn)
    <3>1. Sound(asked)
      BY <2>6 DEF Media
    <3>2. Media(asked, withdrawn)
      BY <2>1, <3>1, WithdrawMedia
    <3>3. QED
      BY <2>6, <3>2, MediaTrans
  <2> HIDE DEF withdrawn, n
  <2>9. \A m : Media(mine, m) => Sound(m) /\ Still(w, m)
    BY <2>4, MediaStill, ApartTrans, ZenonT(60) DEF Media, Still
  <2>10. /\ Sound(asked) /\ Still(w, asked) /\ Sound(offer) /\ Still(w, offer)
         /\ Sound(withdrawn) /\ Still(w, withdrawn)
    BY <2>6, <2>7, <2>8, <2>9
  <2>11. Still(w, w)
    BY DEF Still, Apart, Alike
  <2>12. /\ Takes(w, SendResponse(w, t, 491, 0), t) /\ Takes(w, SendResponse(w, t, 500, 0), t)
    <3>1. 491 \in Nat /\ 491 >= 200 /\ 500 \in Nat /\ 500 >= 200 /\ 0 \in Nat
      OBVIOUS
    <3>2. Takes(w, SendResponse(w, t, 491, 0), t)
      BY <2>1, <2>11, <3>1, RespondsGoes
    <3>3. Takes(w, SendResponse(w, t, 500, 0), t)
      BY <2>1, <2>11, <3>1, RespondsGoes
    <3>4. QED
      BY <3>2, <3>3
  <2>13. Takes(w, SendResponse(mine, t, 491, 0), t)
    <3>1. 491 \in Nat /\ 491 >= 200 /\ 0 \in Nat
      OBVIOUS
    <3>2. QED
      BY <2>1, <2>4, <3>1, RespondsGoes
  <2>14. Takes(w, SendResponse(withdrawn, t, 488, 0), t)
    <3>1. 488 \in Nat /\ 488 >= 200 /\ 0 \in Nat
      OBVIOUS
    <3>2. QED
      BY <2>1, <2>10, <3>1, RespondsGoes
  <2>15. Takes(w, Respond(offer, t, 200, TRUE), t) /\ Takes(w, Respond(asked, t, 200, fits), t)
    <3>1. fits \in BOOLEAN /\ TRUE \in BOOLEAN
      OBVIOUS
    <3> HIDE DEF fits
    <3>2. Takes(w, Respond(offer, t, 200, TRUE), t)
      BY <2>1, <2>10, <3>1, RespondGoes
    <3>3. Takes(w, Respond(asked, t, 200, fits), t)
      BY <2>1, <2>10, <3>1, RespondGoes
    <3>4. QED
      BY <3>2, <3>3
  <2> HIDE DEF fits, sdp, i
  <2>16. CASE i # 0
    <3>1. CASE w.tsx[i].from = u
      <4>1. RxReinvite(w, t, choice) = SendResponse(w, t, 491, 0)
        BY <2>2, <2>16, <3>1
      <4>2. QED
        BY <2>12, <4>1
    <3>2. CASE w.tsx[i].from # u
      <4>1. RxReinvite(w, t, choice) = SendResponse(w, t, 500, 0)
        BY <2>2, <2>16, <3>2
      <4>2. QED
        BY <2>12, <4>1
    <3>3. QED
      BY <3>1, <3>2
  <2>17. CASE i = 0
    <3>1. CASE w.neg[u].state # "DONE"
      BY <2>2, <2>13, <2>17, <3>1
    <3>2. CASE w.neg[u].state = "DONE" /\ sdp = 0
      BY <2>2, <2>15, <2>17, <3>2
    <3>3. CASE w.neg[u].state = "DONE" /\ sdp # 0 /\ asked.neg[u].state # "WAIT_NEGO"
      BY <2>2, <2>14, <2>17, <3>3
    <3>4. CASE w.neg[u].state = "DONE" /\ sdp # 0 /\ asked.neg[u].state = "WAIT_NEGO"
      BY <2>2, <2>15, <2>17, <3>4
    <3>5. QED
      BY <3>1, <3>2, <3>3, <3>4
  <2>18. QED
    BY <2>16, <2>17
<1>3. QED
  BY <1>1, <1>2

\* An UPDATE is answered at once.
LEMMA RxUpdateTakes ==
  ASSUME NEW w, Sound(w), Ending(w), NEW t \in Indices(w), w.tsx[t].method = "UPDATE",
         NEW choice
  PROVE  Takes(w, RxUpdate(w, t, choice), t)
<1> DEFINE u == Server(w, t)
           asked == CheckSdpServer(w, t, w.tsx[t].sdp, choice)
           fits == choice = "answer"
           agreed == Negotiate(asked, u, fits)
           withdrawn == [asked EXCEPT !.neg[u] = CancelOffer(@)]
           body == agreed.neg[u].active_local.sdp
<1>1. /\ u \in Ends /\ w.tsx[t].sdp \in Nat /\ t # 1 /\ t \in 1..Len(w.tsx)
      /\ w.tsx[t].method # "BYE"
  BY SoundParts, EndingParts
<1>2. RxUpdate(w, t, choice) \in
         { SendResponse(w, t, 500, 0), SendResponse(w, t, 491, 0), SendResponse(w, t, 200, 0),
           SendResponse(withdrawn, t, 488, 0), SendResponse(agreed, t, 200, body),
           SendResponse(agreed, t, 488, 0) }
  BY DEF RxUpdate
<1>3. Media(w, asked)
  BY <1>1, CheckSdpMedia
<1>10. fits \in BOOLEAN
  OBVIOUS
<1> HIDE DEF asked, u, fits
<1>4. Media(asked, agreed) /\ Media(asked, withdrawn)
  <2>1. Sound(asked)
    BY <1>3 DEF Media
  <2>2. QED
    BY <1>1, <1>10, <2>1, NegotiateMedia, WithdrawMedia
<1> HIDE DEF agreed, withdrawn
<1>5. /\ Sound(agreed) /\ Still(w, agreed) /\ Sound(withdrawn) /\ Still(w, withdrawn)
      /\ Still(w, w)
  <2>1. Media(w, agreed) /\ Media(w, withdrawn)
    BY <1>3, <1>4, MediaTrans
  <2>2. QED
    BY <2>1, MediaRefl, MediaStill DEF Media
<1>6. body \in Nat
  BY <1>1, <1>5, SoundParts
<1> HIDE DEF body
<1>7. \A v \in {SendResponse(w, t, 500, 0), SendResponse(w, t, 491, 0),
                SendResponse(w, t, 200, 0)} : Takes(w, v, t)
  BY <1>1, <1>5, RespondsGoes
<1>8. \A v \in {SendResponse(withdrawn, t, 488, 0), SendResponse(agreed, t, 200, body),
                SendResponse(agreed, t, 488, 0)} : Takes(w, v, t)
  BY <1>1, <1>5, <1>6, RespondsGoes
<1>9. QED
  BY <1>2, <1>7, <1>8

\* A BYE is claimed or answered.
LEMMA RxByeTakes ==
  ASSUME NEW w, Runs(w), NEW t \in Indices(w), w.tsx[t].method = "BYE",
         w.tsx[t].server = "none", w.tsx[t].client = "calling"
  PROVE  Takes(w, RxBye(w, t), t)
<1> DEFINE u == Server(w, t)
           i == w.inv[u].invite_tsx
           a == SendResponse(w, t, 200, 0)
           ended == Disconnect(a, u)
           x == Disconnect(w, u)
<1>1. /\ Sound(w) /\ Ending(w) /\ u \in Ends /\ t # 1 /\ t \in 1..Len(w.tsx)
      /\ w.tsx[1].server # "none" /\ Peer(u) = w.tsx[t].from /\ Peer(w.tsx[t].from) = u
      /\ w.tsx[t].status \in Nat /\ ~(w.tsx[t].status >= 200)
  BY EndingParts DEF Runs, Begun, Ending, Codes
<1>2. ASSUME w.inv[u].state \in {"NULL", "CALLING", "INCOMING"}
      PROVE  Takes(w, Ignore(w, t), t)
  <2> DEFINE v == Ignore(w, t)
  <2>1. Sound(v) /\ Serves(w, v, t, "trying", w.tsx[t].status)
    BY <1>1, MarkServes DEF Ignore
  <2> HIDE DEF v
  <2>2. Ending(v)
    BY <1>1, <2>1, ServesEnding
  <2>3. Kept(w, v)
    BY <1>1, <2>1, ApartKept DEF Serves, Ending, Shape
  <2>4. QED
    BY <2>1, <2>2, <2>3 DEF Takes, Goes, Serves, v
<1>3. Takes(w, ended, t) /\ ended.inv[u].state = "DISCONNECTED"
  <2>1. Sound(a) /\ Serves(w, a, t, "terminated", 200)
    <3>1. 200 \in Nat /\ 0 \in Nat
      OBVIOUS
    <3>2. QED
      BY <1>1, <3>1, ResponseServes
  <2> HIDE DEF a
  <2>2. Sound(ended) /\ Sets(a, ended, u, "DISCONNECTED")
    BY <1>1, <2>1, DisconnectSets
  <2> HIDE DEF ended
  <2>3. Excused(w, u)
    BY <1>1 DEF Excused, Calling, Bye
  <2>4. Goes(w, x) /\ Sets(w, x, u, "DISCONNECTED") /\ x.tsx = w.tsx
    <3> HIDE DEF u
    <3>1. QED
      BY <1>1, <2>3, OverGoes
  <2> HIDE DEF x
  <2>5. Serves(x, ended, t, "terminated", 200)
    BY <2>1, <2>2, <2>4, ServesOver
  <2>6. /\ Ending(x) /\ t \in Indices(x) /\ x.inv[Peer(x.tsx[t].from)].state = "DISCONNECTED"
        /\ x.tsx[t].server = "none" /\ x.tsx[t].method = "BYE"
    BY <1>1, <2>4 DEF Goes, Sets, Indices
  <2>7. Ending(ended)
    BY <1>1, <2>5, <2>6, ServesEnding
  <2>8. Kept(x, ended)
    BY <2>5, <2>6, ApartKept DEF Serves, Ending, Shape
  <2>9. Goes(x, ended)
    BY <2>2, <2>7, <2>8 DEF Goes
  <2>10. Goes(w, ended)
    BY <1>1, <2>4, <2>9, GoesTrans
  <2>11. QED
    BY <2>2, <2>5, <2>10 DEF Takes, Sets, Serves
<1> HIDE DEF ended, a
<1>4. CASE w.inv[u].state \in {"NULL", "CALLING", "INCOMING"}
  BY <1>2, <1>4 DEF RxBye
<1>5. CASE w.inv[u].state = "EARLY"
  <2>0. Sound(ended) /\ Ending(ended) /\ 1 \in Indices(ended) /\ 1 \in 1..Len(ended.tsx)
    BY <1>3, EndingParts DEF Takes, Goes
  <2>1. i = 1 /\ w.tsx[1].from = "caller"
    BY <1>1, <1>5 DEF Runs, Begun, Course, Ends
  <2>2. CASE u = "caller"
    <3> DEFINE v == [ended EXCEPT !.tsx[1].expires = TRUE]
    <3>1. RxBye(w, t) = v
      BY <1>5, <2>1, <2>2 DEF RxBye, ended, a
    <3>2. Goes(ended, v) /\ Still(ended, v)
      BY <2>0, MarksMedia, MediaGoes
    <3> HIDE DEF v, u
    <3>3. Goes(w, v)
      BY <1>1, <1>3, <3>2, GoesTrans DEF Takes
    <3>4. t \in Indices(ended)
      BY <1>1, <1>3, <2>0 DEF Takes, Goes, Kept, Indices, Ending, Shape
    <3>5. v.tsx[t].server # "none"
      BY <1>3, <3>2, <3>4 DEF Still, Apart, Alike, Takes
    <3>6. QED
      BY <3>1, <3>3, <3>5 DEF Takes
  <2>3. CASE u = "callee"
    <3> DEFINE v == SendResponse(ended, 1, 487, 0)
    <3>1. RxBye(w, t) = v
      BY <1>5, <2>1, <2>3 DEF RxBye, ended, a
    <3>2. Sound(v) /\ Serves(ended, v, 1, "completed", 487)
      <4>1. /\ 487 \in Nat /\ 0 \in Nat /\ ended.tsx[1].method = "INVITE" /\ ~(487 < 200)
            /\ Sound(ended) /\ 1 \in Indices(ended)
        BY <2>0, EndingParts
      <4> HIDE DEF u
      <4>2. QED
        BY <4>1, ResponseServes
    <3> HIDE DEF v
    <3>3. Ending(v)
      <4>1. /\ ended.inv["callee"].state = "DISCONNECTED" /\ ended.tsx[1].method # "BYE"
            /\ 487 \in Nat /\ 487 >= 300
        BY <1>3, <2>0, <2>3, EndingParts
      <4>2. QED
        BY <2>0, <3>2, <4>1, ServesEnding
    <3>4. Kept(ended, v)
      BY <2>0, <3>2, ApartKept DEF Serves, Ending, Shape
    <3>5. Goes(ended, v)
      BY <3>2, <3>3, <3>4 DEF Goes
    <3> HIDE DEF u
    <3>6. Goes(w, v)
      BY <1>1, <1>3, <3>5, GoesTrans DEF Takes
    <3>7. t \in Indices(ended)
      BY <1>1, <1>3, <2>0 DEF Takes, Goes, Kept, Indices, Ending, Shape
    <3>8. v.tsx[t].server # "none"
      BY <1>1, <1>3, <3>2, <3>7 DEF Serves, Apart, Alike, Takes
    <3>9. QED
      BY <3>1, <3>6, <3>8 DEF Takes
  <2>4. QED
    BY <1>1, <2>2, <2>3 DEF Ends
<1>6. CASE w.inv[u].state \notin {"NULL", "CALLING", "INCOMING", "EARLY"}
  <2>1. RxBye(w, t) = ended
    BY <1>6 DEF RxBye, ended, a
  <2>2. QED
    BY <1>3, <2>1
<1>7. QED
  BY <1>4, <1>5, <1>6

\* While the callee rings, the caller waits for it or is done with the call.
LEMMA RingsFor ==
  ASSUME NEW w, Runs(w), w.tsx[1].server = "proceeding"
  PROVE  w.tsx[1].client = "calling" \/ w.inv["caller"].state = "DISCONNECTED"
<1>1. w.inv["caller"].state \notin {"CONNECTING", "CONFIRMED"}
  BY DEF Runs, Ending, First
<1>2. w.inv["caller"].state \in States
  BY SoundParts, EndingParts DEF Runs, Begun, Sessions
<1>3. QED
  BY <1>1, <1>2 DEF Runs, Begun, Course, States

\* The callee refuses the first INVITE and is done with the call.
LEMMA RefuseGoes ==
  ASSUME NEW w, Sound(w), Ending(w), NEW status \in Nat, status >= 300,
         w.tsx[1].client = "calling" \/ w.inv["caller"].state = "DISCONNECTED"
  PROVE  LET v == Disconnect(SendResponse(w, 1, status, 0), "callee")
         IN  Goes(w, v) /\ \A t \in Indices(w) \ {1} : v.tsx[t].server = w.tsx[t].server
<1> DEFINE a == SendResponse(w, 1, status, 0)
           v == Disconnect(a, "callee")
<1>1. 1 \in Indices(w) /\ "callee" \in Ends /\ w.tsx[1].method = "INVITE" /\ ~(status < 200)
      /\ 0 \in Nat /\ Len(w.tsx) \in Nat
  BY EndingParts
<1>2. Sound(a) /\ Serves(w, a, 1, "completed", status)
  BY <1>1, ResponseServes
<1> HIDE DEF a
<1>3. Sound(v) /\ Sets(a, v, "callee", "DISCONNECTED")
  BY <1>1, <1>2, DisconnectSets
<1> HIDE DEF v
<1>4. Indices(a) = Indices(w) /\ Alike(a.tsx[1], v.tsx[1])
  BY <1>1, <1>2, <1>3 DEF Serves, Sets, Apart, Indices
<1>5. Apart(w, v, {"callee"}, {1})
  <2>1. Apart(w, a, {"callee"}, {1})
    BY <1>2 DEF Serves, Apart
  <2>2. Apart(a, v, {"callee"}, {1})
    BY <1>3 DEF Sets, Apart
  <2>3. QED
    BY <2>1, <2>2, ApartTrans
<1>6. /\ v.inv["callee"].state = "DISCONNECTED" /\ v.tsx[1].server = "completed"
      /\ v.tsx[1].status = status /\ v.tsx[1].client = w.tsx[1].client
      /\ v.tsx[1].code = w.tsx[1].code
  BY <1>2, <1>3, <1>4 DEF Sets, Serves, Alike
<1>7. Ending(v)
  BY <1>5, <1>6, RefuseEnding
<1>8. Kept(w, v)
  BY <1>1, <1>5, <1>6, ApartKept
<1>9. QED
  BY <1>3, <1>5, <1>7, <1>8 DEF Goes, Apart, Alike, v, a

\* A CANCEL is answered, and the INVITE then.
LEMMA RxCancelTakes ==
  ASSUME NEW w, Runs(w), NEW t \in Indices(w), w.tsx[t].method = "CANCEL",
         w.tsx[t].server = "none"
  PROVE  Takes(w, RxCancel(w, t), t)
<1> DEFINE status == IF w.tsx[1].server = "terminated" THEN 481 ELSE 200
           a == SendResponse(w, t, status, 0)
           v == Disconnect(SendResponse(a, 1, 487, 0), "callee")
<1>1. /\ Sound(w) /\ Ending(w) /\ t # 1 /\ t \in 1..Len(w.tsx) /\ w.tsx[t].of = 1
      /\ w.tsx[t].method # "BYE" /\ w.tsx[t].method # "INVITE"
      /\ Server(w, t) = "callee" /\ "callee" \in Ends /\ "caller" \in Ends
  BY EndingParts DEF Runs, Begun, Course, Ending, Shape
<1>2. RxCancel(w, t) = IF w.inv["callee"].state \in {"INCOMING", "EARLY"}
                          /\ w.tsx[1].server = "proceeding" THEN v ELSE a
  BY <1>1 DEF RxCancel
<1>3. status \in Nat /\ status >= 200 /\ 0 \in Nat /\ ~(status < 200)
  OBVIOUS
<1> HIDE DEF status
<1>4. Sound(a) /\ Serves(w, a, t, "terminated", status)
  BY <1>1, <1>3, ResponseServes
<1> HIDE DEF a
<1>5. Takes(w, a, t)
  BY <1>1, <1>3, <1>4, ServeGoes
<1>6. CASE w.inv["callee"].state \in {"INCOMING", "EARLY"} /\ w.tsx[1].server = "proceeding"
  <2>1. w.tsx[1].client = "calling" \/ w.inv["caller"].state = "DISCONNECTED"
    BY <1>6, RingsFor
  <2>2. a.tsx[1].client = "calling" \/ a.inv["caller"].state = "DISCONNECTED"
    BY <1>1, <1>4, <2>1, EndingParts DEF Serves, Apart, Alike
  <2>3. t \in Indices(a) /\ Ending(a) /\ 487 \in Nat /\ 487 >= 300
    BY <1>4, <1>5 DEF Serves, Apart, Indices, Takes, Goes
  <2>4. Goes(a, v) /\ v.tsx[t].server = a.tsx[t].server
    BY <1>1, <1>4, <2>2, <2>3, RefuseGoes
  <2> HIDE DEF v
  <2>5. QED
    BY <1>1, <1>2, <1>5, <1>6, <2>4, GoesTrans DEF Takes
<1>7. CASE ~(w.inv["callee"].state \in {"INCOMING", "EARLY"} /\ w.tsx[1].server = "proceeding")
  BY <1>2, <1>5, <1>7
<1>8. QED
  BY <1>6, <1>7

\* A server transaction that was answered ends.
LEMMA MarkGoes ==
  ASSUME NEW w, Sound(w), Ending(w), NEW t \in Indices(w), w.tsx[t].server = "completed"
  PROVE  LET v == [w EXCEPT !.tsx[t].server = "terminated"]
         IN  Goes(w, v) /\ v.inv = w.inv
<1> DEFINE v == [w EXCEPT !.tsx[t].server = "terminated"]
           status == w.tsx[t].status
<1>1. /\ Sound(v) /\ Serves(w, v, t, "terminated", status) /\ v.inv = w.inv
  BY MarkServes
<1> HIDE DEF v
<1>2. w.tsx[t].method # "BYE"
  BY EndingParts DEF Ending, Byes, ByeOf, Bye
<1>3. status \in Nat
  BY DEF Ending, Codes
<1>4. t = 1 => /\ w.tsx[1].client = "calling" /\ status >= 300 =>
                     w.inv["callee"].state = "DISCONNECTED"
               /\ w.tsx[1].status >= 300 => status >= 300
  BY DEF Ending, First, Refused
<1>5. Ending(v)
  <2> HIDE DEF status
  <2>1. QED
    BY <1>1, <1>2, <1>3, <1>4, ServesEnding
<1>6. Kept(w, v)
  BY <1>1, ApartKept DEF Serves, Ending, Shape
<1>7. QED
  BY <1>1, <1>5, <1>6 DEF Goes, v

\* The server transaction ends, and the session forgets it.
LEMMA ServerEndsGoes ==
  ASSUME NEW w, Sound(w), Ending(w), NEW t \in Indices(w), w.tsx[t].server = "completed"
  PROVE  Goes(w, ServerEnds(w, t))
<1> DEFINE m == [w EXCEPT !.tsx[t].server = "terminated"]
           u == Server(w, t)
<1>1. Goes(w, m) /\ u \in Ends
  BY MarkGoes, EndingParts
<1> HIDE DEF m, u
<1>2. Goes(m, Forget(m, u, t))
  BY <1>1, ForgetGoes DEF Goes
<1>3. QED
  BY <1>1, <1>2, GoesTrans DEF ServerEnds, m, u

\* The ACK arrives.
LEMMA RxAckGoes ==
  ASSUME NEW w, Sound(w), Ending(w), NEW t \in Indices(w), NEW sdp \in Nat, NEW choice
  PROVE  Goes(w, RxAck(w, t, sdp, choice))
<1> DEFINE u  == Server(w, t)
           w1 == IF Over(w, u) THEN w ELSE CheckSdpServer(w, t, sdp, choice)
           w2 == IF w.inv[u].state = "CONFIRMED" THEN Withdraw(w1, u) ELSE w1
           m  == [w2 EXCEPT !.tsx[t].server = "terminated"]
           w3 == Forget(m, u, t)
<1>1. u \in Ends /\ Media(w, w) /\ t \in 1..Len(w.tsx) /\ Goes(w, w)
  BY EndingParts, MediaRefl, GoesRefl
<1>2. RxAck(w, t, sdp, choice) =
         IF w.inv[u].invite_tsx # t \/ w.tsx[t].server # "completed" THEN w
         ELSE IF w.inv[u].state = "CONNECTING" THEN Confirm(w3, u) ELSE w3
  BY DEF RxAck
<1>3. CASE w.inv[u].invite_tsx # t \/ w.tsx[t].server # "completed"
  BY <1>1, <1>2, <1>3
<1>4. CASE w.inv[u].invite_tsx = t /\ w.tsx[t].server = "completed"
  <2>2. Media(w, w1)
    BY <1>1, CheckSdpMedia
  <2> HIDE DEF w1, u
  <2>3. Media(w1, w2)
    <3>1. Sound(w1)
      BY <2>2 DEF Media
    <3>2. Media(w1, w1) /\ Media(w1, Withdraw(w1, u))
      BY <1>1, <3>1, WithdrawMedia, MediaRefl
    <3>3. CASE w.inv[u].state = "CONFIRMED"
      BY <3>2, <3>3
    <3>4. CASE w.inv[u].state # "CONFIRMED"
      BY <3>2, <3>4
    <3>5. QED
      BY <3>3, <3>4
  <2> HIDE DEF w2
  <2>4. Goes(w, w2) /\ Still(w, w2) /\ Sound(w2)
    BY <2>2, <2>3, MediaTrans, MediaGoes
  <2>5. /\ Ending(w2) /\ t \in Indices(w2) /\ w2.inv[u].state = w.inv[u].state
        /\ w2.tsx[t].server = "completed"
    BY <1>1, <1>4, <2>4 DEF Goes, Still, Apart, Alike, Indices
  <2>6. Goes(w2, m) /\ m.inv = w2.inv
    BY <2>4, <2>5, MarkGoes
  <2> HIDE DEF m
  <2>7. Goes(m, w3) /\ Still(m, w3)
    BY <1>1, <2>6, ForgetGoes DEF Goes
  <2> HIDE DEF w3
  <2>8. Goes(w, w3) /\ w3.inv[u].state = w.inv[u].state
    <3>1. Goes(w, m)
      BY <2>4, <2>6, GoesTrans
    <3>2. Goes(w, w3)
      BY <2>7, <3>1, GoesTrans
    <3>3. QED
      BY <1>1, <2>5, <2>6, <2>7, <3>2 DEF Still, Apart
  <2>9. w.inv[u].state = "CONNECTING" => Goes(w3, Confirm(w3, u))
    BY <1>1, <2>8, ConfirmGoes DEF Goes
  <2>10. QED
    BY <1>2, <1>4, <2>8, <2>9, GoesTrans
<1>5. QED
  BY <1>3, <1>4

\* No ACK comes.
LEMMA OnNoAckGoes ==
  ASSUME NEW w, Sound(w), Ending(w), NEW t \in Indices(w), w.tsx[t].server = "completed"
  PROVE  Goes(w, OnNoAck(w, t))
<1> DEFINE u == Server(w, t)
           v == SendBye(w, u)
<1>1. u \in Ends /\ Len(w.tsx) \in Nat
  BY EndingParts
<1>2. CASE ~(w.inv[u].state = "CONNECTING" /\ w.inv[u].invite_tsx = t)
  BY <1>2, ServerEndsGoes DEF OnNoAck
<1>3. CASE w.inv[u].state = "CONNECTING" /\ w.inv[u].invite_tsx = t
  <2>1. OnNoAck(w, t) = ServerEnds(v, t)
    BY <1>3 DEF OnNoAck
  <2> HIDE DEF u
  <2>2. w.tsx[1].server # "none"
    BY <1>1, <1>3, HasInvite
  <2>3. Goes(w, v) /\ Asks(w, v, u, "BYE", 0)
    BY <1>1, <1>3, <2>2, ByeGoes
  <2> HIDE DEF v
  <2>4. Sound(v) /\ Ending(v) /\ t \in Indices(v) /\ v.tsx[t].server = "completed"
    BY <1>1, <2>3 DEF Goes, Asks, Alike, Indices
  <2>5. Goes(v, ServerEnds(v, t))
    BY <2>4, ServerEndsGoes
  <2>6. QED
    BY <2>1, <2>3, <2>5, GoesTrans
<1>4. QED
  BY <1>2, <1>3

\* A request is refused by the dialog, or there is no dialog.
LEMMA RefusedTakes ==
  ASSUME NEW w, Sound(w), Ending(w), NEW t \in Indices(w), t # 1, w.tsx[t].server = "none",
         NEW status \in Nat, status >= 300,
         w.tsx[t].method = "BYE" => \/ w.inv[Server(w, t)].state = "DISCONNECTED"
                                    \/ Unanswered(w, w.tsx[t].from)
  PROVE  Takes(w, ServerEnds(SendResponse(w, t, status, 0), t), t)
<1> DEFINE server == IF w.tsx[t].method = "INVITE" THEN "completed" ELSE "terminated"
           a == SendResponse(w, t, status, 0)
           m == [a EXCEPT !.tsx[t].server = "terminated"]
           u == Server(a, t)
           v == Forget(m, u, t)
<1>1. Sound(a) /\ Serves(w, a, t, server, status)
  <2>1. 0 \in Nat /\ ~(status < 200)
    OBVIOUS
  <2>2. QED
    BY <2>1, ResponseServes
<1> HIDE DEF a, server
<1>2. t \in Indices(a) /\ a.tsx[t].status = status
  BY <1>1 DEF Serves, Apart, Indices
<1>3. Sound(m) /\ Serves(a, m, t, "terminated", status)
  BY <1>1, <1>2, MarkServes
<1> HIDE DEF m
<1>4. Serves(w, m, t, "terminated", status)
  BY <1>1, <1>3, ApartTrans DEF Serves
<1>5. Ending(m)
  <2>1. Server(w, t) = Peer(w.tsx[t].from) /\ "terminated" # "trying" /\ "terminated" # "none"
        /\ "terminated" # "proceeding" /\ "terminated" \in {"completed", "terminated"}
    BY EndingParts
  <2>2. QED
    BY <1>4, <2>1, ServesEnding
<1>6. Kept(w, m)
  BY <1>4, ApartKept DEF Serves, Ending, Shape
<1>7. Goes(w, m) /\ m.tsx[t].server = "terminated" /\ t \in Indices(m)
  BY <1>3, <1>4, <1>5, <1>6 DEF Goes, Serves, Apart, Indices
<1>8. u \in Ends
  BY <1>1, <1>2, SoundParts DEF Indices
<1> HIDE DEF u
<1>9. Goes(m, v) /\ Still(m, v)
  BY <1>3, <1>5, <1>8, ForgetGoes
<1> HIDE DEF v
<1>10. Goes(w, v)
  BY <1>7, <1>9, GoesTrans
<1>11. v.tsx[t].server = "terminated"
  BY <1>7, <1>9 DEF Still, Apart, Alike
<1>12. QED
  BY <1>10, <1>11 DEF Takes, ServerEnds, v, u, m, a

\* A request that the dialog takes.
LEMMA RxRequestTakes ==
  ASSUME NEW w, Runs(w), NEW t \in Indices(w), w.tsx[t].server = "none",
         w.tsx[t].client = "calling", NEW choice
  PROVE  Takes(w, RxRequest(w, t, choice), t)
<1>1. /\ Sound(w) /\ Ending(w) /\ w.tsx[t].method \in {"INVITE", "UPDATE", "BYE", "CANCEL"}
  BY SoundParts DEF Runs, Begun, Indices, Transactions
<1>2. CASE w.tsx[t].method = "INVITE"
  <2>1. CASE w.inv[Server(w, t)].state = "NULL"
    BY <1>2, <2>1, RxFirstInviteTakes DEF RxRequest
  <2>2. CASE w.inv[Server(w, t)].state # "NULL"
    <3>1. t # 1
      BY <1>1, <2>2, HasInvite, EndingParts
    <3>2. QED
      BY <1>1, <1>2, <2>2, <3>1, RxReinviteTakes DEF RxRequest
  <2>3. QED
    BY <2>1, <2>2
<1>3. CASE w.tsx[t].method = "UPDATE"
  BY <1>1, <1>3, RxUpdateTakes DEF RxRequest
<1>4. CASE w.tsx[t].method = "BYE"
  BY <1>1, <1>4, RxByeTakes DEF RxRequest
<1>5. CASE w.tsx[t].method = "CANCEL"
  BY <1>1, <1>5, RxCancelTakes DEF RxRequest
<1>6. QED
  BY <1>1, <1>2, <1>3, <1>4, <1>5


-----------------------------------------------------------------------------
(* The steps *)

\* What is kept of the messages that were received.
LEMMA KeptReceived ==
  ASSUME NEW w, Ending(w), Received(w), NEW v, Sound(v), Kept(w, v)
  PROVE  Received(v)
<1>1. Len(w.tsx) \in Nat /\ Len(v.tsx) \in Nat /\ Len(v.tsx) >= Len(w.tsx)
  BY EndingParts, SoundParts DEF Kept
<1>2. Indices(w) \subseteq Indices(v)
  BY <1>1 DEF Indices
<1>3. \A u \in Ends : v.inv[u].remote_cseq # 0 =>
         /\ v.inv[u].remote_cseq \in Indices(v)
         /\ v.tsx[v.inv[u].remote_cseq].from # u
         /\ v.tsx[v.inv[u].remote_cseq].server # "none"
  BY <1>2, ZenonT(60) DEF Received, Kept
<1>4. \A ack \in v.acks : ack.t \in Indices(v) /\ v.tsx[ack.t].server # "none"
  BY <1>2 DEF Received, Kept
<1>5. QED
  BY <1>3, <1>4 DEF Received

\* A transaction that is tidied, or that is not.
LEMMA TidyAlike ==
  ASSUME NEW x \in Transactions(Nat, Nat)
  PROVE  LET y == Tidy(x)
         IN  \/ Alike(x, y)
             \/ /\ y.client = "terminated" /\ y.server = "terminated"
                /\ x.client = "terminated" /\ x.server = "terminated"
                /\ y.method = x.method /\ y.from = x.from /\ y.of = x.of /\ y.code = x.code
                /\ y.status = 0
<1> DEFINE a == [x EXCEPT !.sdp = 0, !.body = 0]
           b == [a EXCEPT !.done = FALSE, !.answered = FALSE]
           c == [b EXCEPT !.expires = FALSE, !.status = 0]
<1>1. /\ a \in Transactions(Nat, Nat)
      /\ a.method = x.method /\ a.from = x.from /\ a.of = x.of
      /\ a.client = x.client /\ a.server = x.server /\ a.code = x.code
  BY DEF Transactions
<1>2. [x EXCEPT !.sdp = 0, !.body = 0, !.done = FALSE, !.answered = FALSE,
                !.expires = FALSE, !.status = 0] = c
  OBVIOUS
<1> HIDE DEF a
<1>3. /\ b \in Transactions(Nat, Nat)
      /\ b.method = x.method /\ b.from = x.from /\ b.of = x.of
      /\ b.client = x.client /\ b.server = x.server /\ b.code = x.code
  BY <1>1 DEF Transactions
<1> HIDE DEF b
<1>4. /\ c.method = x.method /\ c.from = x.from /\ c.of = x.of
      /\ c.client = x.client /\ c.server = x.server /\ c.code = x.code /\ c.status = 0
  BY <1>3 DEF Transactions
<1> HIDE DEF c
<1>5. CASE x.client = "terminated" /\ x.server = "terminated"
  <2>1. Tidy(x) = c
    BY <1>2, <1>5 DEF Tidy
  <2>2. QED
    BY <1>4, <1>5, <2>1
<1>6. CASE ~(x.client = "terminated" /\ x.server = "terminated")
  <2>1. Tidy(x) = x
    BY <1>6 DEF Tidy
  <2>2. QED
    BY <2>1 DEF Alike
<1>7. QED
  BY <1>5, <1>6

\* Tidying keeps the invariant.
LEMMA TidiedEnding ==
  ASSUME NEW w, Sound(w), Ending(w), Received(w)
  PROVE  /\ Ending(Tidied(w)) /\ Received(Tidied(w))
         /\ Sound(Tidied(w)) /\ Kept(w, Tidied(w))
<1> DEFINE q == [t \in 1..Len(w.tsx) |-> Tidy(w.tsx[t])]
           v == [w EXCEPT !.tsx = q]
<1>1. /\ w \in Worlds /\ Len(w.tsx) \in Nat
      /\ \A t \in 1..Len(w.tsx) : w.tsx[t] \in Transactions(Nat, Nat)
  BY SoundParts
<1>2. Tidied(w) = v
  BY DEF Tidied
<1>3. v.tsx = q /\ v.inv = w.inv /\ v.acks = w.acks
  BY <1>1 DEF Worlds
<1>4. Sound(v)
  <2>1. Tame(w, Tidied(w))
    BY TidiedTame
  <2>2. Sound(Tidied(w))
    BY <2>1 DEF Tame
  <2> HIDE DEF v
  <2>3. QED
    BY <1>2, <2>2
<1>5. \A t \in Indices(w) :
         \/ Alike(w.tsx[t], q[t])
         \/ /\ q[t].client = "terminated" /\ q[t].server = "terminated"
            /\ w.tsx[t].client = "terminated" /\ w.tsx[t].server = "terminated"
            /\ q[t].method = w.tsx[t].method /\ q[t].from = w.tsx[t].from
            /\ q[t].of = w.tsx[t].of /\ q[t].code = w.tsx[t].code
            /\ q[t].status = 0
  BY <1>1, TidyAlike DEF Indices
<1>6. Len(q) = Len(w.tsx)
  BY <1>1
<1> HIDE DEF q, v
<1>7. Len(v.tsx) = Len(w.tsx) /\ \A u \in Ends : v.inv[u].state = w.inv[u].state
  BY <1>3, <1>6
<1>8. \A t \in Indices(w) :
         \/ Alike(w.tsx[t], v.tsx[t])
         \/ /\ v.tsx[t].client = "terminated" /\ v.tsx[t].server = "terminated"
            /\ w.tsx[t].client = "terminated" /\ w.tsx[t].server = "terminated"
            /\ v.tsx[t].method = w.tsx[t].method /\ v.tsx[t].from = w.tsx[t].from
            /\ v.tsx[t].of = w.tsx[t].of /\ v.tsx[t].code = w.tsx[t].code
            /\ v.tsx[t].status = 0
  BY <1>3, <1>5
<1>9. Ending(v)
  BY <1>7, <1>8, TidyEnding
<1>10. Kept(w, v)
  BY <1>1, <1>3, <1>7, <1>8 DEF Kept, Alike
<1>11. Received(v)
  BY <1>4, <1>10, KeptReceived
<1>12. QED
  BY <1>2, <1>4, <1>9, <1>10, <1>11

\* What an action leaves after w.
Lasting(w) ==
    /\ EndInv(World')
    /\ \A t \in Indices(w) : t \in Indices(World') /\ World'.tsx[t].method = w.tsx[t].method

\* So a world in which the invariant holds is one that an action may leave.
LEMMA Arrives ==
  ASSUME NEW w, Sound(w), Ending(w), Received(w), Becomes(w)
  PROVE  Lasting(w)
<1>1. World' = Tidied(w)
  BY Becoming
<1>2. Ending(World') /\ Received(World')
  BY <1>1, TidiedEnding
<1>3. Len(World'.tsx) # 0
  BY <1>2 DEF Ending, Shape
<1>4. EndInv(World')
  BY <1>2, <1>3 DEF EndInv
<1>5. \A t \in Indices(w) :
         t \in Indices(World') /\ World'.tsx[t].method = w.tsx[t].method
  <2>1. Kept(w, Tidied(w)) /\ Sound(Tidied(w))
    BY TidiedEnding
  <2>2. Indices(w) \subseteq Indices(Tidied(w))
    BY <2>1, SoundParts DEF Kept, Indices
  <2>3. QED
    BY <1>1, <2>1, <2>2 DEF Kept
<1>6. QED
  BY <1>4, <1>5 DEF Lasting

\* What is left after a handler was there before it.
LEMMA LastsFrom ==
  ASSUME NEW w, NEW v, Sound(w), Sound(v), Kept(w, v), Lasting(v)
  PROVE  Lasting(w)
<1>1. Indices(w) \subseteq Indices(v)
  BY SoundParts DEF Kept, Indices
<1>2. QED
  BY <1>1 DEF Kept, Lasting

\* And so is what a handler makes of one.
LEMMA GoesOn ==
  ASSUME NEW w, Sound(w), Ending(w), Received(w), NEW v, Goes(w, v), Becomes(v)
  PROVE  Lasting(w)
<1>1. Sound(v) /\ Ending(v) /\ Kept(w, v)
  BY DEF Goes
<1>2. Received(v)
  BY <1>1, KeptReceived
<1>3. Lasting(v)
  BY <1>1, <1>2, Arrives
<1>4. QED
  BY <1>1, <1>3, LastsFrom

\* The invariants of a call that was begun.
LEMMA Running ==
  ASSUME IInv, EndInv(World), Len(World.tsx) > 0
  PROVE  /\ Runs(World) /\ Sound(World) /\ Begun(World) /\ Ending(World) /\ Received(World)
         /\ Indices(World) = 1..Len(tsx)
<1>1. Begun(World) /\ Sound(World)
  BY DEF IInv, Begun
<1>2. Len(World.tsx) # 0
  BY <1>1, SoundParts
<1>3. QED
  BY <1>1, <1>2, WorldIs DEF EndInv, Runs, Indices

\* ... and of one that has a transaction.
LEMMA Going ==
  ASSUME IInv, EndInv(World), NEW t \in 1..Len(tsx)
  PROVE  /\ Runs(World) /\ Sound(World) /\ Begun(World) /\ Ending(World) /\ Received(World)
         /\ t \in Indices(World) /\ t \in Nat
         /\ tsx[t].of \in Nat /\ tsx[t].code \in Nat /\ tsx[t].status \in Nat
         /\ tsx[t].body \in Nat /\ Server(World, t) \in Ends
         /\ tsx[t].method \in {"INVITE", "UPDATE", "BYE", "CANCEL"}
<1>1. Len(World.tsx) > 0
  BY Underway DEF Begun
<1>2. QED
  BY <1>1, Running, Underway

\* A provisional response.
LEMMA ProgressEnds ==
  ASSUME IInv, EndInv(World), NEW t \in 1..Len(tsx), NEW choice, Progress(t, choice)
  PROVE  Lasting(World)
<1>1. /\ Runs(World) /\ Sound(World) /\ Ending(World) /\ Received(World)
      /\ t \in Indices(World)
  BY Going
<1>2. /\ World.tsx[t].server = "proceeding" /\ World.tsx[t].client = "calling"
      /\ Becomes(OnProgress(World, t, choice))
  BY WorldIs DEF Progress, Waits
<1>3. Goes(World, OnProgress(World, t, choice))
  BY <1>1, <1>2, OnProgressGoes
<1>4. QED
  BY <1>1, <1>2, <1>3, GoesOn

\* A final response.
LEMMA FinalEnds ==
  ASSUME IInv, EndInv(World), NEW t \in 1..Len(tsx), NEW choice, Final(t, choice)
  PROVE  Lasting(World)
<1> DEFINE code == tsx[t].status
           ok   == OnInviteOk(World, t, choice)
           no   == OnInviteFailure(World, t, "completed", code)
           upd  == OnUpdate(World, t, "completed", code, tsx[t].body, choice)
           bye  == OnBye(World, t, code)
           can  == OnCancel(World, t, code)
<1>1. /\ Runs(World) /\ Sound(World) /\ Ending(World) /\ Received(World)
      /\ t \in Indices(World) /\ code \in Nat /\ tsx[t].body \in Nat
      /\ tsx[t].method \in {"INVITE", "UPDATE", "BYE", "CANCEL"}
  BY Going
<1>2. Becomes(CASE tsx[t].method = "INVITE" -> IF code < 300 THEN ok ELSE no
                [] tsx[t].method = "UPDATE" -> upd
                [] tsx[t].method = "BYE"    -> bye
                [] OTHER                    -> can)
  BY DEF Final
<1>3. /\ World.tsx[t] = tsx[t] /\ World.tsx[t].client = "calling"
      /\ code = World.tsx[t].status /\ code >= 200
  BY WorldIs DEF Final, Waits
<1>4. CASE tsx[t].method = "INVITE" /\ code < 300
  <2>1. World.tsx[t].method = "INVITE" /\ World.tsx[t].status \in 200..299
    <3>1. World.tsx[t].status = code /\ World.tsx[t].method = "INVITE"
      BY <1>3, <1>4
    <3>2. code \in Nat /\ code >= 200 /\ code < 300
      BY <1>1, <1>3, <1>4
    <3> HIDE DEF code
    <3>3. code \in 200..299
      BY <3>2
    <3>4. QED
      BY <3>1, <3>3
  <2>2. Goes(World, ok)
    BY <1>1, <1>3, <2>1, OnInviteOkGoes
  <2>3. Becomes(ok)
    BY <1>2, <1>4
  <2> HIDE DEF ok
  <2>4. QED
    BY <1>1, <2>2, <2>3, GoesOn
<1>5. CASE tsx[t].method = "INVITE" /\ ~(code < 300)
  <2>1. World.tsx[t].method = "INVITE" /\ code >= 300
    <3>1. World.tsx[t].method = "INVITE"
      BY <1>3, <1>5
    <3> HIDE DEF code
    <3>2. QED
      BY <1>1, <1>5, <3>1
  <2>2. World.tsx[t].client = "calling" => code = 408 \/ (code = World.tsx[t].status /\ code >= 300)
    BY <1>3, <2>1
  <2>3. World.tsx[t].client # "calling" => code = World.tsx[t].code
    BY <1>3
  <2>4. Becomes(no)
    BY <1>2, <1>5
  <2> HIDE DEF code
  <2>5. Goes(World, no)
    BY <1>1, <2>1, <2>2, <2>3, OnInviteFailureGoes
  <2> HIDE DEF no
  <2>6. QED
    BY <1>1, <2>4, <2>5, GoesOn
<1>6. CASE tsx[t].method = "UPDATE"
  <2>1. /\ World.tsx[t].method # "INVITE"
        /\ World.tsx[t].method = "UPDATE" \/ World.tsx[t].client # "calling"
        /\ World.tsx[t].client # "calling" => code = World.tsx[t].code
    BY <1>3, <1>6
  <2>2. Becomes(upd)
    BY <1>2, <1>6
  <2> HIDE DEF code
  <2>3. Goes(World, upd)
    BY <1>1, <2>1, OnUpdateGoes
  <2> HIDE DEF upd
  <2>4. QED
    BY <1>1, <2>2, <2>3, GoesOn
<1>7. CASE tsx[t].method = "BYE"
  <2>1. /\ World.tsx[t].method = "BYE" /\ World.tsx[t].client = "calling"
        /\ code = 408 \/ (code = World.tsx[t].status /\ code >= 200)
    BY <1>3, <1>7
  <2>2. Becomes(bye)
    BY <1>2, <1>7
  <2> HIDE DEF code
  <2>3. Goes(World, bye)
    BY <1>1, <2>1, OnByeGoes
  <2> HIDE DEF bye
  <2>4. QED
    BY <1>1, <2>2, <2>3, GoesOn
<1>8. CASE tsx[t].method = "CANCEL"
  <2>1. World.tsx[t].method = "CANCEL" /\ World.tsx[t].client = "calling"
    BY <1>3, <1>8
  <2>2. Becomes(can)
    BY <1>2, <1>8
  <2> HIDE DEF code
  <2>3. Goes(World, can)
    BY <1>1, <2>1, OnCancelGoes
  <2> HIDE DEF can
  <2>4. QED
    BY <1>1, <2>2, <2>3, GoesOn
<1>9. QED
  BY <1>1, <1>4, <1>5, <1>6, <1>7, <1>8

\* Timers D and K.
LEMMA ClientEndsEnds ==
  ASSUME IInv, EndInv(World), NEW t \in 1..Len(tsx), ClientEnds(t)
  PROVE  Lasting(World)
<1> DEFINE code == tsx[t].code
           no   == OnInviteFailure(World, t, "terminated", code)
           upd  == OnUpdate(World, t, "terminated", code, 0, "decline")
<1>1. /\ Runs(World) /\ Sound(World) /\ Ending(World) /\ Received(World)
      /\ t \in Indices(World) /\ code \in Nat /\ 0 \in Nat
  BY Going
<1>2. Becomes(IF tsx[t].method = "INVITE" THEN no ELSE upd)
  BY DEF ClientEnds
<1>3. /\ World.tsx[t] = tsx[t] /\ World.tsx[t].client = "completed" /\ code = World.tsx[t].code
  BY WorldIs DEF ClientEnds
<1>4. /\ World.tsx[t].client = "calling" =>
            code = 408 \/ (code = World.tsx[t].status /\ code >= 300)
      /\ World.tsx[t].client # "calling" => code = World.tsx[t].code
  BY <1>3
<1> HIDE DEF code
<1>5. CASE tsx[t].method = "INVITE"
  <2>1. World.tsx[t].method = "INVITE"
    BY <1>3, <1>5
  <2>2. Goes(World, no)
    BY <1>1, <1>4, <2>1, OnInviteFailureGoes
  <2>3. Becomes(no)
    BY <1>2, <1>5
  <2> HIDE DEF no
  <2>4. QED
    BY <1>1, <2>2, <2>3, GoesOn
<1>6. CASE tsx[t].method # "INVITE"
  <2>1. Becomes(upd)
    BY <1>2, <1>6
  <2>2. /\ World.tsx[t].method # "INVITE"
        /\ World.tsx[t].method = "UPDATE" \/ World.tsx[t].client # "calling"
    BY <1>3, <1>6
  <2>3. Goes(World, upd)
    BY <1>1, <1>4, <2>2, OnUpdateGoes
  <2> HIDE DEF upd
  <2>4. QED
    BY <1>1, <2>1, <2>3, GoesOn
<1>7. QED
  BY <1>5, <1>6

\* Timers B and F, and the timeout of an INVITE that is cancelled.
LEMMA TimeoutEnds ==
  ASSUME IInv, EndInv(World), NEW t \in 1..Len(tsx), Timeout(t)
  PROVE  Lasting(World)
<1> DEFINE no  == OnInviteFailure(World, t, "terminated", 408)
           upd == OnUpdate(World, t, "terminated", 408, 0, "decline")
           bye == OnBye(World, t, 408)
           can == OnCancel(World, t, 408)
<1>1. /\ Runs(World) /\ Sound(World) /\ Ending(World) /\ Received(World)
      /\ t \in Indices(World) /\ 0 \in Nat
      /\ tsx[t].method \in {"INVITE", "UPDATE", "BYE", "CANCEL"}
  BY Going
<1>2. Becomes(CASE tsx[t].method = "INVITE" -> no
                [] tsx[t].method = "UPDATE" -> upd
                [] tsx[t].method = "BYE"    -> bye
                [] OTHER                    -> can)
  BY DEF Timeout
<1>3. World.tsx[t] = tsx[t] /\ World.tsx[t].client = "calling"
  BY WorldIs DEF Timeout, Waits
<1>4. PICK code \in Nat : code = 408
  OBVIOUS
<1>5. /\ World.tsx[t].client = "calling" =>
            code = 408 \/ (code = World.tsx[t].status /\ code >= 300)
      /\ World.tsx[t].client # "calling" => code = World.tsx[t].code
  BY <1>3, <1>4
<1>6. CASE tsx[t].method = "INVITE"
  <2>1. World.tsx[t].method = "INVITE"
    BY <1>3, <1>6
  <2>2. Goes(World, OnInviteFailure(World, t, "terminated", code))
    BY <1>1, <1>5, <2>1, OnInviteFailureGoes
  <2>3. Becomes(no)
    BY <1>2, <1>6
  <2>4. Goes(World, no)
    BY <1>4, <2>2
  <2> HIDE DEF no
  <2>5. QED
    BY <1>1, <2>3, <2>4, GoesOn
<1>7. CASE tsx[t].method = "UPDATE"
  <2>1. /\ World.tsx[t].method # "INVITE"
        /\ World.tsx[t].method = "UPDATE" \/ World.tsx[t].client # "calling"
        /\ World.tsx[t].client # "calling" => code = World.tsx[t].code
    BY <1>3, <1>7
  <2>2. Goes(World, OnUpdate(World, t, "terminated", code, 0, "decline"))
    BY <1>1, <2>1, OnUpdateGoes
  <2>3. Becomes(upd)
    BY <1>2, <1>7
  <2>4. Goes(World, upd)
    BY <1>4, <2>2
  <2> HIDE DEF upd
  <2>5. QED
    BY <1>1, <2>3, <2>4, GoesOn
<1>8. CASE tsx[t].method = "BYE"
  <2>1. /\ World.tsx[t].method = "BYE" /\ World.tsx[t].client = "calling"
        /\ code = 408 \/ (code = World.tsx[t].status /\ code >= 200)
    BY <1>3, <1>4, <1>8
  <2>2. Goes(World, OnBye(World, t, code))
    BY <1>1, <2>1, OnByeGoes
  <2>3. Becomes(bye)
    BY <1>2, <1>8
  <2>4. Goes(World, bye)
    BY <1>4, <2>2
  <2> HIDE DEF bye
  <2>5. QED
    BY <1>1, <2>3, <2>4, GoesOn
<1>9. CASE tsx[t].method = "CANCEL"
  <2>1. World.tsx[t].method = "CANCEL" /\ World.tsx[t].client = "calling"
    BY <1>3, <1>9
  <2>2. Goes(World, OnCancel(World, t, code))
    BY <1>1, <2>1, OnCancelGoes
  <2>3. Becomes(can)
    BY <1>2, <1>9
  <2>4. Goes(World, can)
    BY <1>4, <2>2
  <2> HIDE DEF can
  <2>5. QED
    BY <1>1, <2>3, <2>4, GoesOn
<1>10. QED
  BY <1>1, <1>6, <1>7, <1>8, <1>9

\* A refusal is acknowledged.
LEMMA ReceiveNackEnds ==
  ASSUME IInv, EndInv(World), NEW t \in 1..Len(tsx), ReceiveNack(t)
  PROVE  Lasting(World)
<1>1. Sound(World) /\ Ending(World) /\ Received(World) /\ t \in Indices(World)
  BY Going
<1>2. World.tsx[t].server = "completed" /\ Becomes(ServerEnds(World, t))
  BY WorldIs DEF ReceiveNack
<1>3. Goes(World, ServerEnds(World, t))
  BY <1>1, <1>2, ServerEndsGoes
<1>4. QED
  BY <1>1, <1>2, <1>3, GoesOn

\* No ACK comes.
LEMMA NoAckEnds ==
  ASSUME IInv, EndInv(World), NEW t \in 1..Len(tsx), NoAck(t)
  PROVE  Lasting(World)
<1>1. Sound(World) /\ Ending(World) /\ Received(World) /\ t \in Indices(World)
  BY Going
<1>2. World.tsx[t].server = "completed" /\ Becomes(OnNoAck(World, t))
  BY WorldIs DEF NoAck
<1>3. Goes(World, OnNoAck(World, t))
  BY <1>1, <1>2, OnNoAckGoes
<1>4. QED
  BY <1>1, <1>2, <1>3, GoesOn

\* A 2xx response comes again.
LEMMA AgainEnds ==
  ASSUME IInv, EndInv(World), NEW t \in 1..Len(tsx), Again(t)
  PROVE  Lasting(World)
<1> DEFINE u == Client(World, t)
<1>1. /\ Begun(World) /\ Sound(World) /\ Ending(World) /\ Received(World)
      /\ t \in Indices(World) /\ t \in 1..Len(World.tsx) /\ u \in Ends
      /\ World.tsx[t].from = u
      /\ t = 1 => u = "caller"
      /\ t # 1 => t \in 2..Len(World.tsx)
  BY Going, Underway, Sides
<1>2. /\ World.tsx[t].method = "INVITE" /\ World.tsx[t].client = "terminated"
      /\ World.tsx[t].server # "none" /\ Becomes(SendAck(World, t, "answer"))
  BY WorldIs DEF Again
<1> HIDE DEF u
<1>3. World.inv[u].state \notin Ringing \cup {"NULL"}
  <2>1. CASE t = 1
    <3>1. u = "caller" /\ World.tsx[1].client = "terminated" /\ Len(World.tsx) > 0
      BY <1>1, <1>2, <2>1 DEF Begun
    <3>2. World.inv["caller"].state \notin {"NULL", "INCOMING"}
      BY <1>1, <3>1 DEF Begun, Course
    <3>3. World.inv["caller"].state \notin {"CALLING", "EARLY"}
      BY <1>1, <3>1 DEF Begun, Course
    <3>4. QED
      BY <3>1, <3>2, <3>3 DEF Ringing
  <2>2. CASE t # 1
    BY <1>1, <1>2, <2>2 DEF Begun, Course
  <2>3. QED
    BY <2>1, <2>2
<1>4. World.inv[World.tsx[t].from].state \in {"CONNECTING", "CONFIRMED", "DISCONNECTED"}
  <2>1. World.inv[u] \in Sessions(Nat, Nat)
    BY <1>1, SoundParts
  <2>2. World.inv[u].state \in States
    BY <2>1 DEF Sessions
  <2>3. QED
    BY <1>1, <1>3, <2>2 DEF States, Ringing
<1>5. Goes(World, SendAck(World, t, "answer"))
  BY <1>1, <1>2, <1>4, SendAckGoes
<1>6. QED
  BY <1>1, <1>2, <1>5, GoesOn

\* An ACK is lost.
LEMMA LoseAckEnds ==
  ASSUME IInv, EndInv(World), NEW ack \in acks, LoseAck(ack)
  PROVE  Lasting(World)
<1>1. /\ Sound(World) /\ ack \in World.acks /\ ack.t \in 1..Len(World.tsx)
  BY WorldIs DEF IInv, Sound, Typed
<1>2. Ending(World) /\ Received(World)
  <2>1. ack.t \in 1..Len(tsx)
    BY <1>1, WorldIs
  <2>2. QED
    BY <2>1, Going
<1>3. /\ World'.inv = World.inv /\ World'.tsx = World.tsx /\ World'.acks \subseteq World.acks
  BY DEF World, LoseAck
<1>4. PICK v : v = World'
  OBVIOUS
<1>5. v.inv = World.inv /\ v.tsx = World.tsx /\ v.acks \subseteq World.acks
  BY <1>3, <1>4
<1>6. Ending(v)
  <2>1. /\ Len(v.tsx) = Len(World.tsx)
        /\ \A u \in Ends : v.inv[u].state = World.inv[u].state
        /\ \A t \in Indices(World) : Alike(World.tsx[t], v.tsx[t])
    BY <1>5 DEF Alike
  <2>2. QED
    BY <1>2, <2>1, SameEnding
<1>7. Received(v)
  BY <1>2, <1>5 DEF Received, Indices
<1>8. Len(v.tsx) # 0
  BY <1>6 DEF Ending, Shape
<1>9. EndInv(v)
  BY <1>6, <1>7, <1>8 DEF EndInv
<1>10. \A t \in Indices(World) :
          t \in Indices(World') /\ World'.tsx[t].method = World.tsx[t].method
  <2>1. World'.tsx = World.tsx
    BY <1>3
  <2>2. Indices(World') = Indices(World)
    BY <1>4, <1>5 DEF Indices
  <2>3. QED
    BY <2>1, <2>2
<1>11. QED
  BY <1>4, <1>9, <1>10 DEF Lasting

\* The ACK for a 2xx response.
LEMMA ReceiveAckEnds ==
  ASSUME IInv, EndInv(World), NEW ack \in acks, NEW choice, ReceiveAck(ack, choice)
  PROVE  Lasting(World)
<1> DEFINE u == Server(World, ack.t)
           A == World.acks \ {ack}
           y == [World EXCEPT !.acks = A]
           w == [y EXCEPT !.inv[u].remote_cseq = ack.t]
           x == RxAck(w, ack.t, ack.sdp, choice)
<1>1. /\ Sound(World) /\ ack \in World.acks /\ ack.t \in 1..Len(World.tsx)
      /\ World.acks \in SUBSET [t : Nat, sdp : Nat]
      /\ \A a \in World.acks : a.t \in 1..Len(World.tsx)
  BY WorldIs DEF IInv, Sound, Typed, Worlds
<1>2. ack.t \in Nat /\ ack.sdp \in Nat
  BY <1>1
<1>3. A \in SUBSET [t : Nat, sdp : Nat] /\ \A a \in A : a.t \in 1..Len(World.tsx)
  BY <1>1
<1>4. ASSUME y.inv = World.inv
      PROVE  Becomes(x)
  <2>1. [World EXCEPT !.acks = @ \ {ack}, !.inv[u].remote_cseq = ack.t] = w
    BY <1>4
  <2>2. Becomes(RxAck([World EXCEPT !.acks = @ \ {ack}, !.inv[u].remote_cseq = ack.t],
                      ack.t, ack.sdp, choice))
    BY DEF ReceiveAck
  <2> HIDE DEF u, w
  <2>3. QED
    BY <2>1, <2>2
<1>5. Ending(World) /\ Received(World) /\ ack.t \in Indices(World) /\ u \in Ends
  <2>1. ack.t \in 1..Len(tsx)
    BY <1>1, WorldIs
  <2>2. QED
    BY <2>1, Going
<1>6. World.tsx[ack.t].server # "none" /\ World.tsx[ack.t].from # u
  BY <1>1, <1>5, EndingParts DEF Received
<1> HIDE DEF u, A
<1>7. Tame(World, y) /\ y.inv = World.inv /\ y.tsx = World.tsx /\ y.acks = A
  <2>1. Tame(World, y) /\ y.inv = World.inv /\ y.tsx = World.tsx
    BY <1>1, <1>3, PutAcksTame
  <2>2. y.acks = A
    BY DEF World
  <2>3. QED
    BY <2>1, <2>2
<1> HIDE DEF y
<1>8. Sound(y)
  BY <1>7 DEF Tame
<1>9. /\ Tame(y, w) /\ w.tsx = y.tsx /\ w.acks = y.acks /\ w.inv[u].remote_cseq = ack.t
      /\ \A e \in Ends \ {u} : w.inv[e] = y.inv[e]
      /\ \A e \in Ends : w.inv[e].state = y.inv[e].state
  BY <1>2, <1>5, <1>8, CSeqTame
<1> HIDE DEF w
<1>10. Sound(w)
  BY <1>9 DEF Tame
<1>11. Ending(w)
  <2>1. /\ Len(w.tsx) = Len(World.tsx)
        /\ \A e \in Ends : w.inv[e].state = World.inv[e].state
        /\ \A t \in Indices(World) : Alike(World.tsx[t], w.tsx[t])
    BY <1>7, <1>9 DEF Alike
  <2>2. QED
    BY <1>5, <2>1, SameEnding
<1>12. Received(w)
  <2>1. w.tsx = World.tsx /\ Indices(w) = Indices(World)
    BY <1>7, <1>9 DEF Indices
  <2>2. \A e \in Ends : w.inv[e].remote_cseq # 0 =>
           /\ w.inv[e].remote_cseq \in Indices(w)
           /\ w.tsx[w.inv[e].remote_cseq].from # e
           /\ w.tsx[w.inv[e].remote_cseq].server # "none"
    <3>1. SUFFICES ASSUME NEW e \in Ends, w.inv[e].remote_cseq # 0
                   PROVE  /\ w.inv[e].remote_cseq \in Indices(w)
                          /\ w.tsx[w.inv[e].remote_cseq].from # e
                          /\ w.tsx[w.inv[e].remote_cseq].server # "none"
      OBVIOUS
    <3>2. CASE e = u
      BY <1>5, <1>6, <1>9, <2>1, <3>2
    <3>3. CASE e # u
      <4>1. w.inv[e] = World.inv[e]
        BY <1>7, <1>9, <3>3
      <4>2. QED
        BY <1>5, <2>1, <3>1, <4>1 DEF Received
    <3>4. QED
      BY <3>2, <3>3
  <2>3. \A a \in w.acks : a.t \in Indices(w) /\ w.tsx[a.t].server # "none"
    BY <1>5, <1>7, <1>9, <2>1 DEF Received, A
  <2>4. QED
    BY <2>2, <2>3 DEF Received
<1>13. ack.t \in Indices(w)
  BY <1>5, <1>7, <1>9 DEF Indices
<1>14. Goes(w, x)
  BY <1>2, <1>10, <1>11, <1>13, RxAckGoes
<1>15. Becomes(x)
  BY <1>4, <1>7
<1> HIDE DEF x
<1>16. Lasting(w)
  BY <1>10, <1>11, <1>12, <1>14, <1>15, GoesOn
<1>17. w.tsx = World.tsx /\ Indices(w) = Indices(World)
  BY <1>7, <1>9 DEF Indices
<1>18. QED
  BY <1>16, <1>17 DEF Lasting

\* A request that others overtook is not the first one, and a BYE that others
\* overtook was sent again.
LEMMA OvertakenTakes ==
  ASSUME NEW w, Sound(w), Ending(w), Received(w), NEW t \in Indices(w),
         w.tsx[t].server = "none", w.tsx[t].client = "calling",
         t <= w.inv[Server(w, t)].remote_cseq
  PROVE  Takes(w, ServerEnds(SendResponse(w, t, 500, 0), t), t)
<1> DEFINE u == Server(w, t)
           r == w.inv[u].remote_cseq
<1>1. /\ u \in Ends /\ Peer(u) = w.tsx[t].from /\ w.tsx[t].from \in Ends
      /\ Peer(w.tsx[t].from) = u /\ u # w.tsx[t].from /\ t \in Nat /\ t >= 1
      /\ t # 1 => w.tsx[1].server # "none"
  BY EndingParts DEF Indices
<1>2. r \in Indices(w) /\ w.tsx[r].from # u /\ w.tsx[r].server # "none" /\ r \in Nat
  <2>1. w.inv[u] \in Sessions(Nat, Nat)
    BY <1>1, SoundParts
  <2>2. r \in Nat
    BY <2>1 DEF Sessions
  <2>3. r # 0
    <3>1. t <= r
      OBVIOUS
    <3> HIDE DEF r
    <3>2. QED
      BY <1>1, <2>2, <3>1
  <2> HIDE DEF u
  <2>4. QED
    BY <1>1, <2>2, <2>3 DEF Received
<1>3. r # t /\ r > t
  <2>1. t <= r /\ r # t
    BY <1>2
  <2> HIDE DEF r
  <2>2. QED
    BY <1>1, <1>2, <2>1
<1>4. w.tsx[r].from = w.tsx[t].from
  <2>1. w.tsx[r].from \in Ends
    BY <1>2, EndingParts
  <2> HIDE DEF r, u
  <2>2. QED
    BY <1>1, <1>2, <2>1 DEF Ends
<1>5. t # 1
  <2>1. SUFFICES ASSUME t = 1
                 PROVE  FALSE
    OBVIOUS
  <2>2. Len(w.tsx) > 1
    <3>1. Len(w.tsx) \in Nat /\ r \in 1..Len(w.tsx) /\ r > 1
      BY <1>2, <1>3, <2>1, SoundParts DEF Indices
    <3> HIDE DEF r
    <3>2. QED
      BY <3>1
  <2>3. QED
    BY <2>1, <2>2 DEF Ending, First
<1> HIDE DEF r
<1>6. w.tsx[t].method = "BYE" => \/ w.inv[u].state = "DISCONNECTED"
                                 \/ Unanswered(w, w.tsx[t].from)
  <2>1. SUFFICES ASSUME w.tsx[t].method = "BYE"
                 PROVE  w.inv[u].state = "DISCONNECTED" \/ Unanswered(w, w.tsx[t].from)
    OBVIOUS
  <2>2. PICK e \in Ends : e = w.tsx[t].from
    BY <1>1
  <2>3. Bye(w, t, e)
    BY <2>1, <2>2 DEF Bye
  <2>4. ByeOf(w, t, e)
    BY <2>3 DEF Ending, Byes
  <2>5. Bye(w, r, e)
    BY <1>2, <1>3, <1>4, <2>2, <2>4 DEF ByeOf, Bye
  <2>6. ByeOf(w, r, e)
    BY <1>2, <2>5 DEF Ending, Byes
  <2>7. CASE w.tsx[r].server = "trying"
    BY <1>2, <2>2, <2>5, <2>7 DEF Unanswered
  <2>8. CASE w.tsx[r].server = "terminated"
    BY <1>1, <2>2, <2>6, <2>8 DEF ByeOf
  <2>9. QED
    BY <1>2, <2>6, <2>7, <2>8 DEF ByeOf
<1>7. PICK status \in Nat : status = 500
  OBVIOUS
<1>8. status >= 300
  BY <1>7
<1>9. Takes(w, ServerEnds(SendResponse(w, t, status, 0), t), t)
  BY <1>5, <1>6, <1>8, RefusedTakes
<1>10. QED
  BY <1>7, <1>9

\* An end that is done with the call has received the INVITE, and no BYE concerns it.
LEMMA GoneTakes ==
  ASSUME NEW w, Sound(w), Ending(w), NEW t \in Indices(w),
         w.tsx[t].server = "none", w.inv[Server(w, t)].state = "DISCONNECTED"
  PROVE  Takes(w, ServerEnds(SendResponse(w, t, 481, 0), t), t)
<1>1. t # 1
  <2>1. SUFFICES ASSUME t = 1
                 PROVE  FALSE
    OBVIOUS
  <2>2. Server(w, t) = "callee"
    BY <2>1, EndingParts
  <2>3. QED
    BY <2>1, <2>2 DEF Ending, First
<1>2. PICK status \in Nat : status = 481
  OBVIOUS
<1>3. status >= 300
  BY <1>2
<1>4. Takes(w, ServerEnds(SendResponse(w, t, status, 0), t), t)
  BY <1>1, <1>3, RefusedTakes
<1>5. QED
  BY <1>2, <1>4

\* pjsip_dlg_on_rx_request.
LEMMA ReceiveEnds ==
  ASSUME IInv, EndInv(World), NEW t \in 1..Len(tsx), NEW choice, Receive(t, choice)
  PROVE  Lasting(World)
<1> DEFINE u    == Server(World, t)
           cseq == IF tsx[t].method = "CANCEL" THEN tsx[t].of ELSE t
           w    == [World EXCEPT !.inv[u].remote_cseq = cseq]
           late == ServerEnds(SendResponse(World, t, 500, 0), t)
           gone == ServerEnds(SendResponse(World, t, 481, 0), t)
           x    == RxRequest(w, t, choice)
<1>1. /\ Runs(World) /\ Sound(World) /\ Begun(World) /\ Ending(World) /\ Received(World)
      /\ t \in Indices(World) /\ t \in Nat /\ u \in Ends /\ cseq \in Nat
  BY Going
<1>2. World.tsx[t].server = "none" /\ World.tsx[t].client = "calling" /\ World.tsx[t] = tsx[t]
  BY WorldIs DEF Receive, Waits
<1>3. \/ Becomes(late) /\ t <= World.inv[u].remote_cseq
      \/ Becomes(x)
      \/ Becomes(gone) /\ World.inv[u].state = "DISCONNECTED"
  BY WorldIs DEF Receive, MayBeGone
<1>4. CASE Becomes(late) /\ t <= World.inv[u].remote_cseq
  <2>1. Takes(World, late, t)
    BY <1>1, <1>2, <1>4, OvertakenTakes
  <2> HIDE DEF late
  <2>2. QED
    BY <1>1, <1>4, <2>1, GoesOn DEF Takes
<1>5. CASE Becomes(gone) /\ World.inv[u].state = "DISCONNECTED"
  <2>1. Takes(World, gone, t)
    BY <1>1, <1>2, <1>5, GoneTakes
  <2> HIDE DEF gone
  <2>2. QED
    BY <1>1, <1>5, <2>1, GoesOn DEF Takes
<1>6. CASE Becomes(x)
  <2>1. /\ cseq \in Indices(World) /\ World.tsx[cseq].from # u
        /\ cseq # t => World.tsx[cseq].server # "none"
    <3>1. CASE tsx[t].method # "CANCEL"
      <4>1. cseq = t
        BY <3>1
      <4>2. QED
        BY <1>1, <4>1, EndingParts
    <3>2. CASE tsx[t].method = "CANCEL"
      <4>1. cseq = tsx[t].of
        BY <3>2
      <4>2. World.tsx[t].of = 1
        BY <1>1, <1>2, <3>2 DEF Ending, Shape
      <4>3. World.tsx[t].from = "caller"
        BY <1>1, <1>2, <3>2 DEF Begun, Course, Indices
      <4>4. cseq = 1
        BY <1>2, <4>1, <4>2
      <4>5. /\ 1 \in Indices(World) /\ World.tsx[1].from = "caller" /\ u = Peer("caller")
            /\ Peer("caller") = "callee"
            /\ t # 1 => World.tsx[1].server # "none"
        BY <1>1, <4>3, EndingParts
      <4> HIDE DEF cseq, u
      <4>6. QED
        BY <4>4, <4>5
    <3>3. QED
      BY <3>1, <3>2
  <2> HIDE DEF u, cseq
  <2>2. /\ Tame(World, w) /\ w.tsx = World.tsx /\ w.acks = World.acks
        /\ w.inv[u].remote_cseq = cseq /\ \A e \in Ends \ {u} : w.inv[e] = World.inv[e]
        /\ \A e \in Ends : w.inv[e].state = World.inv[e].state
    BY <1>1, CSeqTame
  <2> HIDE DEF w
  <2>3. Begun(w)
    BY <1>1, <2>2, TameFollows DEF Follows
  <2>4. Ending(w)
    <3>1. /\ Len(w.tsx) = Len(World.tsx)
          /\ \A e \in Ends : w.inv[e].state = World.inv[e].state
          /\ \A i \in Indices(World) : Alike(World.tsx[i], w.tsx[i])
      BY <2>2 DEF Alike
    <3>2. QED
      BY <1>1, <3>1, SameEnding
  <2>5. Indices(w) = Indices(World)
    BY <2>2 DEF Indices
  <2>6. Takes(w, x, t)
    <3>1. /\ Runs(w) /\ t \in Indices(w)
          /\ w.tsx[t].server = "none" /\ w.tsx[t].client = "calling"
      BY <1>1, <1>2, <2>2, <2>3, <2>4, <2>5 DEF Runs
    <3>2. QED
      BY <3>1, RxRequestTakes
  <2> HIDE DEF x
  <2>7. Sound(x) /\ Ending(x) /\ Kept(w, x) /\ x.tsx[t].server # "none"
    BY <2>6 DEF Takes, Goes
  <2>8. Indices(World) \subseteq Indices(x)
    <3>1. Len(w.tsx) \in Nat /\ Len(x.tsx) \in Nat /\ Len(x.tsx) >= Len(w.tsx)
      BY <2>3, <2>7, SoundParts DEF Kept, Begun
    <3>2. QED
      BY <2>5, <3>1 DEF Indices
  <2>9. \A e \in Ends : x.inv[e].remote_cseq # 0 =>
           /\ x.inv[e].remote_cseq \in Indices(x)
           /\ x.tsx[x.inv[e].remote_cseq].from # e
           /\ x.tsx[x.inv[e].remote_cseq].server # "none"
    <3>1. SUFFICES ASSUME NEW e \in Ends, x.inv[e].remote_cseq # 0
                   PROVE  /\ x.inv[e].remote_cseq \in Indices(x)
                          /\ x.tsx[x.inv[e].remote_cseq].from # e
                          /\ x.tsx[x.inv[e].remote_cseq].server # "none"
      OBVIOUS
    <3>2. x.inv[e].remote_cseq = w.inv[e].remote_cseq
      BY <2>7 DEF Kept
    <3>3. CASE e = u
      <4>1. x.inv[e].remote_cseq = cseq
        BY <2>2, <3>2, <3>3
      <4>2. x.tsx[cseq].from = World.tsx[cseq].from
        BY <2>1, <2>2, <2>5, <2>7 DEF Kept
      <4>3. x.tsx[cseq].server # "none"
        BY <2>1, <2>2, <2>5, <2>7 DEF Kept
      <4>4. QED
        BY <2>1, <2>8, <3>3, <4>1, <4>2, <4>3
    <3>4. CASE e # u
      <4> DEFINE r == World.inv[e].remote_cseq
      <4>1. x.inv[e].remote_cseq = r
        BY <2>2, <3>2, <3>4
      <4>2. r \in Indices(World) /\ World.tsx[r].from # e /\ World.tsx[r].server # "none"
        BY <1>1, <3>1, <4>1 DEF Received
      <4> HIDE DEF r
      <4>3. x.tsx[r].from # e /\ x.tsx[r].server # "none"
        BY <2>2, <2>5, <2>7, <4>2 DEF Kept
      <4>4. QED
        BY <2>8, <4>1, <4>2, <4>3
    <3>5. QED
      BY <3>3, <3>4
  <2>10. \A ack \in x.acks : ack.t \in Indices(x) /\ x.tsx[ack.t].server # "none"
    BY <1>1, <2>2, <2>5, <2>7, <2>8 DEF Received, Kept
  <2>11. Received(x)
    BY <2>9, <2>10 DEF Received
  <2>12. Lasting(x)
    BY <1>6, <2>7, <2>11, Arrives
  <2>13. Sound(w)
    BY <2>3 DEF Begun
  <2>14. Lasting(w)
    BY <2>7, <2>12, <2>13, LastsFrom
  <2>15. QED
    BY <2>2, <2>5, <2>14 DEF Lasting
<1>7. QED
  BY <1>3, <1>4, <1>5, <1>6

\* pjsip_inv_end_session.
LEMMA EndSessionEnds ==
  ASSUME IInv, EndInv(World), NEW u \in Ends, EndSession(u)
  PROVE  Lasting(World)
<1> DEFINE w == [World EXCEPT !.inv[u].hungup = TRUE]
           p == [w EXCEPT !.inv[u].pending_cancel = TRUE]
<1>1. World.inv[u].state \notin {"NULL", "DISCONNECTED"}
  BY WorldIs DEF EndSession
<1>2. /\ Sound(World) /\ Begun(World) /\ Runs(World) /\ Ending(World) /\ Received(World)
  <2>1. Begun(World)
    BY <1>1, HasBegun DEF IInv
  <2>2. Len(World.tsx) > 0
    BY <2>1 DEF Begun
  <2>3. QED
    BY <2>2, Running
<1>3. CASE /\ inv[u].state \in {"CALLING", "EARLY"} /\ u = "caller"
           /\ Becomes(IF tsx[inv[u].invite_tsx].code < 100 THEN p ELSE SendCancel(w, u))
  <2>1. Media(World, w)
    BY <1>2, NotesMedia
  <2> HIDE DEF w
  <2>2. /\ Sound(w) /\ Begun(w)
        /\ w.inv["caller"].state \in {"CALLING", "EARLY"}
    BY <1>2, <1>3, <2>1, WorldIs, MediaFollows DEF Media, Follows
  <2>3. Goes(World, w) /\ Still(World, w)
    BY <1>2, <2>1, MediaGoes
  <2>4. Ending(w) /\ Runs(w)
    BY <2>2, <2>3 DEF Goes, Runs
  <2>5. Goes(World, p)
    <3>1. Media(w, p)
      BY <2>2, NotesMedia
    <3> HIDE DEF p
    <3>2. Goes(w, p)
      BY <2>4, <3>1, MediaGoes
    <3>3. QED
      BY <1>2, <2>3, <3>2, GoesTrans
  <2>6. CASE tsx[inv[u].invite_tsx].code < 100
    <3>1. Becomes(p)
      BY <1>3, <2>6
    <3> HIDE DEF p
    <3>2. QED
      BY <1>2, <2>5, <3>1, GoesOn
  <2>7. CASE ~(tsx[inv[u].invite_tsx].code < 100)
    <3>1. Becomes(SendCancel(w, "caller"))
      BY <1>3, <2>7
    <3>2. World.inv["caller"].invite_tsx = 1 /\ World.tsx[1].client = "calling"
      BY <1>2, <1>3, WorldIs DEF Begun, Course
    <3>3. 1 \in Indices(World) /\ World.tsx[1].code \in Nat
      <4>1. 1 \in Indices(World) /\ 1 \in 1..Len(World.tsx)
        BY <1>2, EndingParts
      <4>2. World.tsx[1] \in Transactions(Nat, Nat)
        BY <1>2, <4>1, SoundParts
      <4>3. QED
        BY <4>1, <4>2 DEF Transactions
    <3>4. ~(World.tsx[1].code < 100)
      BY <1>3, <2>7, <3>2, WorldIs
    <3>5. World.tsx[1].code >= 100
      BY <3>3, <3>4
    <3>6. World.tsx[1].server # "none"
      BY <1>2, <3>2, <3>3, <3>5 DEF Ending, Codes
    <3>7. w.tsx[1].server # "none"
      BY <2>3, <3>3, <3>6 DEF Still, Apart, Alike
    <3>8. Goes(w, SendCancel(w, "caller"))
      BY <2>2, <2>4, <3>7, SendCancelGoes
    <3>9. Goes(World, SendCancel(w, "caller"))
      BY <1>2, <2>3, <3>8, GoesTrans
    <3>10. QED
      BY <1>2, <3>1, <3>9, GoesOn
  <2>8. QED
    BY <2>6, <2>7
<1>4. CASE inv[u].state \in {"CONNECTING", "CONFIRMED"} /\ Becomes(SendBye(World, u))
  <2>1. World.inv[u].state \in {"CONNECTING", "CONFIRMED"}
    BY <1>4, WorldIs
  <2>2. World.tsx[1].server # "none"
    BY <1>2, <2>1, HasInvite
  <2>3. Goes(World, SendBye(World, u))
    BY <1>2, <2>1, <2>2, ByeGoes
  <2>4. QED
    BY <1>2, <1>4, <2>3, GoesOn
<1>5. QED
  BY <1>3, <1>4 DEF EndSession

\* The callee answers, with what its application gives.
LEMMA AcceptGoes ==
  ASSUME NEW w, Runs(w), w.inv["callee"].state \in {"INCOMING", "EARLY"},
         NEW v, Media(w, v), NEW status \in Nat, status < 300, NEW s,
         \/ status < 200 /\ s = "EARLY"
         \/ status >= 200 /\ s = "CONNECTING"
  PROVE  Goes(w, SetState(Accept(v, 1, status), "callee", s))
<1>1. Begun(w) /\ Sound(w) /\ Ending(w) /\ Course(w)
  BY DEF Runs, Begun
<1>2. w.tsx[1].server = "proceeding"
  BY <1>1 DEF Course
<1>3. ~Calling(w, "callee") /\ \A t \in Indices(w) : ~Bye(w, t, "callee")
  <2>1. /\ "callee" \in Ends
        /\ w.inv["callee"].state \notin {"CONNECTING", "CONFIRMED", "DISCONNECTED"}
    BY DEF Ends
  <2>2. QED
    BY <1>1, <2>1, NoBye
<1>4. Goes(w, v) /\ Still(w, v) /\ Sound(v)
  BY <1>1, MediaGoes
<1>5. PICK x : \E body \in Nat :
         Media(w, x) /\ Accept(v, 1, status) = SendResponse(x, 1, status, body)
  <2>1. Sound(v) /\ 1 \in 1..Len(v.tsx)
    BY <1>1, <1>4, EndingParts DEF Goes
  <2>2. PICK fits \in BOOLEAN : fits = TRUE
    OBVIOUS
  <2>3. Accept(v, 1, status) = Respond(v, 1, status, fits)
    BY <2>2 DEF Accept
  <2>4. Responds(v, 1, status, fits, Respond(v, 1, status, fits))
    BY <2>1, RespondEffect
  <2>5. PICK y : \E body \in Nat, k \in {status, 500} :
           /\ Media(v, y) /\ Respond(v, 1, status, fits) = SendResponse(y, 1, k, body)
           /\ fits = TRUE => k = status
    BY <2>4 DEF Responds
  <2>6. PICK body \in Nat, k \in {status, 500} :
           /\ Media(v, y) /\ Respond(v, 1, status, fits) = SendResponse(y, 1, k, body)
           /\ fits = TRUE => k = status
    BY <2>5
  <2>7. Media(w, y) /\ Accept(v, 1, status) = SendResponse(y, 1, status, body)
    BY <2>2, <2>3, <2>6, MediaTrans
  <2>8. QED
    BY <2>7
<1>6. PICK body \in Nat : Media(w, x) /\ Accept(v, 1, status) = SendResponse(x, 1, status, body)
  BY <1>5
<1> DEFINE r == SendResponse(x, 1, status, body)
           z == SetState(r, "callee", s)
           server == IF status < 200 THEN "proceeding"
                     ELSE IF x.tsx[1].method = "INVITE" THEN "completed" ELSE "terminated"
<1>7. Goes(w, x) /\ Still(w, x) /\ Sound(x) /\ Ending(x)
  BY <1>1, <1>6, MediaGoes DEF Goes
<1>8. 1 \in Indices(x) /\ 1 \in Indices(w) /\ x.tsx[1].method = "INVITE" /\ Indices(x) = Indices(w)
  BY <1>1, <1>7, EndingParts DEF Still, Apart, Indices
<1>9. x.tsx[1].server = "proceeding" /\ \A u \in Ends : x.inv[u].state = w.inv[u].state
  BY <1>2, <1>7, <1>8 DEF Still, Apart, Alike
<1>10. Sound(r) /\ Serves(x, r, 1, server, status)
  BY <1>7, <1>8, ResponseServes
<1>11. server \in {"proceeding", "completed"} /\ (status >= 200 => server = "completed")
       /\ (server = "proceeding" => status < 200)
  BY <1>8
<1> HIDE DEF r, server
<1>12. Ending(r)
  <2>1. /\ server # "none"
        /\ server = "proceeding" => status < 200
        /\ status >= 200 => server \in {"completed", "terminated"}
    BY <1>11
  <2>2. x.inv["caller"].state \notin {"CONNECTING", "CONFIRMED"}
    BY <1>7, <1>9 DEF Ending, First
  <2>3. x.tsx[1].status < 200 /\ x.tsx[1].status \in Nat
    BY <1>7, <1>8, <1>9 DEF Ending, Codes
  <2>4. ~(status >= 300) /\ ~(x.tsx[1].status >= 300)
    BY <2>3
  <2>5. x.tsx[1].method # "BYE"
    BY <1>8
  <2>6. QED
    BY <1>7, <1>8, <1>10, <2>1, <2>2, <2>4, <2>5, ServesEnding
<1>13. "callee" \in Ends /\ s \in States
  BY DEF Ends, States
<1>14. Sound(z) /\ Sets(r, z, "callee", s)
  BY <1>10, <1>13, StateSets
<1> HIDE DEF z
<1>15. /\ r.tsx[1].server = server /\ Indices(r) = Indices(x)
       /\ \A u \in Ends : r.inv[u].state = w.inv[u].state
       /\ \A t \in Indices(x) : /\ r.tsx[t].method = x.tsx[t].method
                                /\ r.tsx[t].from = x.tsx[t].from
  BY <1>9, <1>10 DEF Serves, Apart, Indices
<1>16. Ending(z)
  <2>1. s # "DISCONNECTED" /\ r.inv["callee"].state # "DISCONNECTED" /\ r.tsx[1].server # "none"
    BY <1>11, <1>13, <1>15
  <2>2. s \in {"CONNECTING", "CONFIRMED"} \/ \A t \in Indices(r) : ~Bye(r, t, "callee")
    <3>1. \A t \in Indices(w) : /\ r.tsx[t].method = w.tsx[t].method
                                /\ r.tsx[t].from = w.tsx[t].from
      BY <1>7, <1>8, <1>15 DEF Still, Apart, Alike
    <3>2. QED
      BY <1>3, <1>8, <1>15, <3>1 DEF Bye
  <2>3. "callee" # "caller"
    OBVIOUS
  <2>4. QED
    BY <1>12, <1>13, <1>14, <2>1, <2>2, <2>3, SetsEnding
<1>17. Kept(x, r) /\ Kept(r, z)
  <2>1. Len(x.tsx) \in Nat /\ Len(r.tsx) \in Nat
    BY <1>7, <1>10, SoundParts
  <2>2. Apart(x, r, {}, {1}) /\ \A t \in {1} : x.tsx[t].server # "none" => r.tsx[t].server # "none"
    BY <1>10, <1>11, <1>15 DEF Serves
  <2>3. Kept(x, r)
    BY <2>1, <2>2, ApartKept
  <2>4. Apart(r, z, {"callee"}, {})
    BY <1>14 DEF Sets
  <2>5. Kept(r, z)
    BY <2>1, <2>4, ApartKept
  <2>6. QED
    BY <2>3, <2>5
<1>18. Goes(x, r) /\ Goes(r, z)
  BY <1>10, <1>12, <1>14, <1>16, <1>17 DEF Goes
<1>19. Goes(x, z)
  BY <1>7, <1>18, GoesTrans
<1>20. Goes(w, z)
  BY <1>1, <1>7, <1>19, GoesTrans
<1>21. QED
  BY <1>6, <1>20 DEF z, r

\* pjsip_inv_answer.
LEMMA AnswerEnds ==
  ASSUME IInv, EndInv(World), NEW status \in {183, 200, 486}, NEW give \in BOOLEAN,
         Answer(status, give)
  PROVE  Lasting(World)
<1> DEFINE t     == inv["callee"].invite_tsx
           given == IF ~give THEN World
                    ELSE IF neg["callee"].state = "REMOTE_OFFER"
                         THEN AnswerOffer(World, "callee") ELSE Offered(World, "callee")
<1>1. World.inv["callee"].state \in {"INCOMING", "EARLY"} /\ "callee" \in Ends
  BY WorldIs DEF Answer, Ends
<1>2. Sound(World) /\ Begun(World) /\ Runs(World) /\ Ending(World) /\ Received(World)
  <2>1. Begun(World)
    BY <1>1, HasBegun DEF IInv
  <2>2. Len(World.tsx) > 0
    BY <2>1 DEF Begun
  <2>3. QED
    BY <2>2, Running
<1>3. t = 1 /\ World.tsx[1].server = "proceeding"
  BY <1>1, WorldIs DEF IInv, Course
<1>4. Becomes(CASE status = 183 -> SetState(Accept(given, t, 183), "callee", "EARLY")
                [] status = 200 -> SetState(Accept(given, t, 200), "callee", "CONNECTING")
                [] OTHER        -> Disconnect(SendResponse(World, t, status, 0), "callee"))
  BY DEF Answer, Offered, Accept
<1>5. Media(World, given)
  BY <1>1, <1>2, GivenMedia
<1> HIDE DEF given, t
<1>6. CASE status = 183
  <2>1. Becomes(SetState(Accept(given, 1, status), "callee", "EARLY"))
    BY <1>3, <1>4, <1>6
  <2>2. status \in Nat /\ status < 300 /\ status < 200
    BY <1>6
  <2>3. Goes(World, SetState(Accept(given, 1, status), "callee", "EARLY"))
    BY <1>1, <1>2, <1>5, <2>2, AcceptGoes
  <2>4. QED
    BY <1>2, <2>1, <2>3, GoesOn
<1>7. CASE status = 200
  <2>1. Becomes(SetState(Accept(given, 1, status), "callee", "CONNECTING"))
    BY <1>3, <1>4, <1>7
  <2>2. status \in Nat /\ status < 300 /\ status >= 200
    BY <1>7
  <2>3. Goes(World, SetState(Accept(given, 1, status), "callee", "CONNECTING"))
    BY <1>1, <1>2, <1>5, <2>2, AcceptGoes
  <2>4. QED
    BY <1>2, <2>1, <2>3, GoesOn
<1>8. CASE status = 486
  <2>1. Becomes(Disconnect(SendResponse(World, 1, status, 0), "callee"))
    BY <1>3, <1>4, <1>8
  <2>2. status \in Nat /\ status >= 300
    BY <1>8
  <2>3. World.tsx[1].client = "calling" \/ World.inv["caller"].state = "DISCONNECTED"
    BY <1>2, <1>3, RingsFor
  <2>4. Goes(World, Disconnect(SendResponse(World, 1, status, 0), "callee"))
    BY <1>2, <2>2, <2>3, RefuseGoes
  <2>5. QED
    BY <1>2, <2>1, <2>4, GoesOn
<1>9. QED
  BY <1>6, <1>7, <1>8

\* An end that waits before it offers has no request that is not answered.
LEMMA OffersGo ==
  ASSUME IInv, EndInv(World), Len(World.tsx) > 0, Patient, NEW u \in Ends, MayOffer(u),
         World.tsx[1].server # "none",
         NEW made, Media(World, made), NEW sdp \in Nat, NEW method \in {"INVITE", "UPDATE"}
  PROVE  Goes(World, SendRequest(made, u, method, sdp, 0))
<1>1. Sound(World) /\ Ending(World)
  BY Running
<1>2. Goes(World, made) /\ Still(World, made) /\ Sound(made) /\ Ending(made)
  BY <1>1, MediaGoes DEF Goes
<1>3. ~Calling(World, u)
  <2>1. \A t \in 1..Len(World.tsx) : World.tsx[t].from = u => World.tsx[t].client = "terminated"
    BY WorldIs DEF MayOffer
  <2>2. QED
    BY <2>1 DEF Calling, Bye, Indices
<1>4. ~Calling(made, u)
  BY <1>2, <1>3 DEF Calling, Bye, Still, Apart, Alike, Indices
<1>5. made.tsx[1].server # "none"
  BY <1>1, <1>2, EndingParts DEF Still, Apart, Alike
<1>6. 0 \in 0..Len(made.tsx) /\ method # "CANCEL" /\ method # "BYE"
      /\ method \in {"INVITE", "UPDATE", "BYE", "CANCEL"}
  BY <1>2, EndingParts
<1>7. Goes(made, SendRequest(made, u, method, sdp, 0))
  BY <1>2, <1>4, <1>5, <1>6, RequestGoes
<1>8. QED
  BY <1>1, <1>2, <1>7, GoesTrans

\* pjsip_inv_reinvite.
LEMMA ReinviteEnds ==
  ASSUME IInv, EndInv(World), Patient, NEW u \in Ends, NEW offer \in BOOLEAN, Reinvite(u, offer)
  PROVE  Lasting(World)
<1> DEFINE w     == World
           state == neg[u].state
           next  == w.sdps + 1
           pool  == inv[u].prov
           made  == IF ~offer \/ state \in {"LOCAL_OFFER", "WAIT_NEGO"} THEN w
                    ELSE IF state = "REMOTE_OFFER" THEN AnswerOffer(w, u)
                    ELSE [w EXCEPT !.sdps = next, !.neg[u] = LocalOffer(@, next, pool)]
           n     == made.neg[u]
           sdp   == IF n.state = "LOCAL_OFFER" \/ HasLocalAnswer(n) THEN n.local.sdp ELSE 0
           v     == SendRequest(made, u, "INVITE", sdp, 0)
<1>1. Becomes(v) /\ MayOffer(u)
  BY DEF Reinvite
<1>2. /\ World.inv[u].state = "CONFIRMED" /\ Sound(World) /\ Len(World.tsx) > 0
      /\ Ending(World) /\ Received(World)
  <2>1. World.inv[u].state = "CONFIRMED"
    BY WorldIs DEF Reinvite
  <2>2. Begun(World)
    BY <2>1, HasBegun DEF IInv
  <2>3. Len(World.tsx) > 0
    BY <2>2 DEF Begun
  <2>4. QED
    BY <2>1, <2>3, Running
<1>3. next \in Nat /\ pool \in {"long", World.inv[u].prov}
  BY <1>2, WorldIs, SoundParts
<1> HIDE DEF next, pool
<1>4. /\ Media(World, World) /\ Media(World, AnswerOffer(World, u))
      /\ Media(World, [World EXCEPT !.sdps = next, !.neg[u] = LocalOffer(@, next, pool)])
  BY <1>2, <1>3, MakeOfferMedia, MediaRefl, AnswerOfferMedia
<1>5. Media(World, made)
  BY <1>4
<1> HIDE DEF made
<1>6. sdp \in Nat
  BY <1>2, <1>5, SoundParts DEF Media
<1> HIDE DEF sdp
<1>7. World.tsx[1].server # "none"
  BY <1>2, HasInvite
<1>8. Goes(World, v)
  BY <1>1, <1>2, <1>5, <1>6, <1>7, OffersGo
<1> HIDE DEF v
<1>9. QED
  BY <1>1, <1>2, <1>8, GoesOn

\* pjsip_inv_update, or the session timer.  The caller of a call that rings has its
\* INVITE, and waits.
LEMMA UpdateEnds ==
  ASSUME IInv, EndInv(World), Patient, NEW u \in Ends, NEW offer \in BOOLEAN, Update(u, offer)
  PROVE  Lasting(World)
<1> DEFINE w    == World
           next == w.sdps + 1
           made == [w EXCEPT !.sdps = next, !.neg[u] = LocalOffer(@, next, w.inv[u].prov)]
           v    == SendRequest(made, u, "UPDATE", next, 0)
           x    == SendRequest(w, u, "UPDATE", 0, 0)
<1>1. Becomes(IF offer THEN v ELSE x) /\ MayOffer(u)
  BY DEF Update
<1>2. World.inv[u].state \in {"EARLY", "CONNECTING", "CONFIRMED"}
  BY WorldIs DEF Update
<1>3. /\ Begun(World) /\ Sound(World) /\ Len(World.tsx) > 0 /\ Ending(World) /\ Received(World)
  <2>1. Begun(World)
    BY <1>2, HasBegun DEF IInv
  <2>2. Len(World.tsx) > 0
    BY <2>1 DEF Begun
  <2>3. QED
    BY <2>1, <2>2, Running
<1>4. /\ next \in Nat /\ 0 \in Nat /\ World.inv[u].prov \in {"long", World.inv[u].prov}
  BY <1>3, SoundParts
<1> HIDE DEF next
<1>5. Media(World, made) /\ Media(World, World)
  BY <1>3, <1>4, MakeOfferMedia, MediaRefl
<1> HIDE DEF made
<1>6. World.tsx[1].server # "none"
  <2>1. CASE u = "caller" /\ World.inv[u].state = "EARLY"
    <3>1. World.tsx[1].client = "calling" /\ World.tsx[1].from = "caller"
      BY <1>3, <2>1 DEF Begun, Course
    <3>2. 1 \in 1..Len(tsx)
      BY <1>3, EndingParts, WorldIs
    <3>3. World.tsx[1].client = "terminated"
      BY <1>1, <2>1, <3>1, <3>2, WorldIs DEF MayOffer
    <3>4. QED
      BY <3>1, <3>3
  <2>2. CASE ~(u = "caller" /\ World.inv[u].state = "EARLY")
    <3>1. \/ World.inv[u].state \in {"CONNECTING", "CONFIRMED"}
          \/ u = "callee" /\ World.inv[u].state # "NULL"
      BY <1>2, <2>2 DEF Ends
    <3>2. QED
      BY <1>3, <3>1, HasInvite
  <2>3. QED
    BY <2>1, <2>2
<1>7. Goes(World, v)
  BY <1>1, <1>3, <1>4, <1>5, <1>6, OffersGo
<1>8. Goes(World, x)
  BY <1>1, <1>3, <1>4, <1>5, <1>6, OffersGo
<1> HIDE DEF v, x
<1>9. Goes(World, IF offer THEN v ELSE x)
  BY <1>7, <1>8
<1>10. QED
  BY <1>1, <1>3, <1>9, GoesOn

\* pjsip_inv_invite, after an offer is made or not.
LEMMA FirstGoes ==
  ASSUME NEW w, Sound(w), Len(w.tsx) = 0, w.acks = {},
         \A u \in Ends : w.inv[u].state = "NULL" /\ w.inv[u].remote_cseq = 0,
         NEW v, Media(w, v), NEW sdp \in Nat
  PROVE  LET x == SetState(SendRequest(v, "caller", "INVITE", sdp, 0), "caller", "CALLING")
         IN  Sound(x) /\ Ending(x) /\ Received(x)
<1> DEFINE r == SendRequest(v, "caller", "INVITE", sdp, 0)
           x == SetState(r, "caller", "CALLING")
<1>1. /\ Sound(v) /\ Len(v.tsx) = 0 /\ 0 \in 0..Len(v.tsx) /\ "caller" \in Ends
      /\ v.acks = {} /\ \A u \in Ends : v.inv[u].state = "NULL" /\ v.inv[u].remote_cseq = 0
  BY DEF Media, Ends
<1>2. Sound(r) /\ Asks(v, r, "caller", "INVITE", 0)
  BY <1>1, RequestAsks
<1> HIDE DEF r
<1>3. /\ Len(r.tsx) = 1 /\ r.acks = {}
      /\ \A u \in Ends : r.inv[u].state = "NULL" /\ r.inv[u].remote_cseq = 0
      /\ r.tsx[1].method = "INVITE" /\ r.tsx[1].from = "caller"
      /\ r.tsx[1].client = "calling" /\ r.tsx[1].code = 0
      /\ r.tsx[1].server = "none" /\ r.tsx[1].status = 0
  <2>1. Len(v.tsx) + 1 = 1
    BY <1>1
  <2>2. QED
    BY <1>1, <1>2, <2>1 DEF Asks
<1>4. "CALLING" \in States
  BY DEF States
<1>5. Sound(x) /\ Sets(r, x, "caller", "CALLING")
  BY <1>1, <1>2, <1>4, StateSets
<1> HIDE DEF x
<1>6. /\ Len(x.tsx) = 1 /\ x.acks = {} /\ Indices(x) = {1} /\ 1 \in Indices(r)
      /\ \A u \in Ends : x.inv[u].remote_cseq = 0
      /\ x.inv["caller"].state = "CALLING" /\ x.inv["callee"].state = "NULL"
  BY <1>3, <1>5 DEF Sets, Apart, Indices, Ends
<1>7. /\ x.tsx[1].method = "INVITE" /\ x.tsx[1].from = "caller"
      /\ x.tsx[1].client = "calling" /\ x.tsx[1].code = 0
      /\ x.tsx[1].server = "none" /\ x.tsx[1].status = 0
  BY <1>3, <1>5, <1>6 DEF Sets, Apart, Alike
<1>8. Shape(x) /\ Codes(x)
  BY <1>1, <1>6, <1>7 DEF Shape, Codes
<1>9. First(x)
  BY <1>6, <1>7 DEF First, Refused
<1>10. Byes(x)
  BY <1>6, <1>7 DEF Byes, Bye
<1>11. Together(x)
  BY <1>6 DEF Together, Ends
<1>12. Received(x)
  BY <1>6 DEF Received
<1>13. QED
  BY <1>5, <1>8, <1>9, <1>10, <1>11, <1>12 DEF Ending, x, r

\* pjsip_inv_create_uac and pjsip_inv_invite.
LEMMA InviteEnds ==
  ASSUME IInv, EndInv(World), NEW offer \in BOOLEAN, Invite(offer)
  PROVE  Lasting(World)
<1> DEFINE made == IF offer THEN [World EXCEPT !.sdps = 1,
                                               !.neg["caller"] = LocalOffer(@, 1, "long")]
                            ELSE World
           sdp  == made.neg["caller"].local.sdp
           v    == SetState(SendRequest(made, "caller", "INVITE", sdp, 0), "caller", "CALLING")
<1>1. Becomes(v)
  BY DEF Invite
<1>2. /\ World.inv["caller"].state = "NULL" /\ "caller" \in Ends
      /\ Sound(World) /\ Course(World)
  BY WorldIs DEF Invite, IInv, Ends
<1>3. Media(World, made)
  BY <1>2, MakeOfferMedia, MediaRefl
<1> HIDE DEF made
<1>4. sdp \in Nat
  BY <1>2, <1>3, SoundParts DEF Media
<1> HIDE DEF sdp
<1>5. /\ Len(World.tsx) = 0 /\ World.acks = {}
      /\ \A u \in Ends : World.inv[u].state = "NULL" /\ World.inv[u].remote_cseq = 0
  BY <1>2 DEF Course, EndInv
<1>6. Sound(v) /\ Ending(v) /\ Received(v)
  BY <1>2, <1>3, <1>4, <1>5, FirstGoes
<1> HIDE DEF v
<1>7. Lasting(v)
  BY <1>1, <1>6, Arrives
<1>8. Indices(World) = {}
  BY <1>5 DEF Indices
<1>9. QED
  BY <1>7, <1>8 DEF Lasting

\* The application.
LEMMA ApplicationEnds ==
  ASSUME IInv, EndInv(World), Patient, Application
  PROVE  Lasting(World)
BY InviteEnds, ReinviteEnds, UpdateEnds, AnswerEnds, EndSessionEnds DEF Application

\* The network and the timers.
LEMMA NetworkEnds ==
  ASSUME IInv, EndInv(World), Network
  PROVE  Lasting(World)
<1>1. CASE \E ack \in acks : LoseAck(ack) \/ \E choice \in Choices : ReceiveAck(ack, choice)
  BY <1>1, LoseAckEnds, ReceiveAckEnds
<1>2. CASE \E t \in 1..Len(tsx), choice \in Choices :
              Receive(t, choice) \/ Progress(t, choice) \/ Final(t, choice)
  BY <1>2, ReceiveEnds, ProgressEnds, FinalEnds
<1>3. CASE \E t \in 1..Len(tsx) :
              ClientEnds(t) \/ Timeout(t) \/ ReceiveNack(t) \/ Again(t) \/ NoAck(t)
  BY <1>3, ClientEndsEnds, TimeoutEnds, ReceiveNackEnds, AgainEnds, NoAckEnds
<1>4. QED
  BY <1>1, <1>2, <1>3 DEF Network

-----------------------------------------------------------------------------
(* The theorem *)

\* Every step of a patient call keeps the invariant.
LEMMA NextEnds ==
  ASSUME IInv, EndInv(World), Patient, [Next]_vars
  PROVE  Lasting(World)
<1>1. CASE UNCHANGED vars
  <2>1. World' = World
    BY <1>1 DEF vars, World
  <2>2. QED
    BY <2>1 DEF Lasting
<1>2. CASE Next
  BY <1>2, ApplicationEnds, NetworkEnds DEF Next
<1>3. QED
  BY <1>1, <1>2

\* There is no call at first.
LEMMA InitEnds ==
  ASSUME Init
  PROVE  EndInv(World)
<1>1. Len(World.tsx) = 0 /\ World.acks = {} /\ World.inv = [u \in Ends |-> NoSession]
  BY WorldIs DEF Init
<1>2. NoSession.state = "NULL" /\ NoSession.remote_cseq = 0
  BY DEF NoSession
<1>3. QED
  BY <1>1, <1>2 DEF EndInv

\* When nothing is under way, nothing is left to rely on but a timeout.
LEMMA QuietEnds ==
  ASSUME EndInv(World)
  PROVE  CallsEndTogether
<1>1. SUFFICES ASSUME Quiet, NEW u \in Ends, inv[u].state = "DISCONNECTED"
               PROVE  \/ inv[Peer(u)].state \notin {"CALLING", "CONNECTING", "CONFIRMED"}
                      \/ \E t \in 1..Len(tsx) : tsx[t].from = u /\ tsx[t].code = 408
  BY DEF CallsEndTogether
<1>2. Ending(World)
  <2>1. World.inv[u].state # "NULL"
    BY <1>1, WorldIs
  <2>2. QED
    BY <2>1 DEF EndInv
<1>3. \A t \in Indices(World) : World.tsx[t].client = "calling" =>
                                   World.tsx[t].server = "proceeding"
  BY <1>1, WorldIs DEF Quiet, Indices
<1>4. \A x \in Ends, t \in Indices(World) : Bye(World, t, x) =>
         World.tsx[t].client # "calling" /\ ByeOf(World, t, x)
  BY <1>2, <1>3 DEF Ending, Byes, ByeOf
<1>5. Excused(World, u)
  BY <1>1, <1>2, WorldIs DEF Ending, Together
<1>6. Peer(u) \in Ends
  BY <1>2, EndingParts DEF Ends
<1>7. ~Leaving(World, u) /\ ~Calling(World, Peer(u))
  BY <1>4, <1>6 DEF Leaving, Calling
<1>8. ~Refused(World)
  <2>1. 1 \in Indices(World)
    BY <1>2, EndingParts
  <2>2. SUFFICES ASSUME World.tsx[1].client = "calling", World.tsx[1].status >= 300
                 PROVE  FALSE
    BY DEF Refused
  <2>3. World.tsx[1].status \in Nat /\ World.tsx[1].status < 200
    BY <1>2, <1>3, <2>1, <2>2 DEF Ending, Codes
  <2>4. QED
    BY <2>2, <2>3
<1>9. Unanswered(World, u) => GaveUp(World, u)
  BY <1>4 DEF Unanswered, ByeOf, Bye, GaveUp
<1>10. GaveUp(World, u) \/ World.inv[Peer(u)].state = "DISCONNECTED"
  BY <1>5, <1>7, <1>8, <1>9 DEF Excused
<1>11. QED
  BY <1>10, WorldIs DEF GaveUp, Indices

\* The ends of a call end it together, for any Budget and with session timers and
\* late timers or without, if the applications are patient: when nothing is under
\* way any more, an end that is done with the call is the only one only if it gave
\* up waiting for an answer (on_tsx_state of each session state).
THEOREM EndsTogether ==
  ASSUME Patient
  PROVE  Spec => []CallsEndTogether
<1>1. Init => EndInv(World)
  BY InitEnds
<1>2. IInv /\ EndInv(World) /\ [Next]_vars => EndInv(World)'
  BY NextEnds DEF Lasting
<1>3. EndInv(World) => CallsEndTogether
  BY QuietEnds
<1>4. QED
  BY <1>1, <1>2, <1>3, Invariant, PTL DEF Spec

=============================================================================
