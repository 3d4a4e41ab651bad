------------------------- MODULE SipTransportProofs -------------------------
(***************************************************************************)
(* For any number of threads, transports and addresses: the table finds    *)
(* transports whose memory is there, and an unused transport does not stay *)
(* behind as long as pj_assert(pj_atomic_get(tp->ref_cnt) > 0) holds in    *)
(* pjsip_transport_dec_ref.                                                *)
(*                                                                         *)
(* It does hold, as the second part shows: the reference count of a        *)
(* transport is the number of its objects and of the threads that have     *)
(* counted a reference which no object has yet, or that an object no       *)
(* longer has.  So pjsip_transport_dec_ref finds the reference that it     *)
(* asserts, and no unused transport stays behind.  With one thread, a      *)
(* transport that an object holds is there, and the idle timer runs        *)
(* exactly when none does.  Every field has its type.                      *)
(***************************************************************************)
EXTENDS SipTransport, SequenceTheorems, FiniteSetTheorems, TLAPS

Busy(th) == thread[th] \notin {Idle, Absent}

\* A transport whose counts may be negative.
Record == [state : States, key : Addrs, ref : Int, users : Int,
           is_shutdown : BOOLEAN, is_destroying : BOOLEAN,
           id : BOOLEAN, armed : BOOLEAN]

Typed ==
    /\ tp \in [Transports -> Record]
    /\ table \in [Addrs -> Transports \cup {None}]
    /\ thread \in [Threads -> [tp : Transports \cup {None}, todo : Seq(Steps)]]
    /\ \A th \in Threads : Busy(th) =>
          /\ thread[th].tp \in Transports /\ thread[th].todo # <<>>
          /\ tp[thread[th].tp].state # "unborn"
    /\ \A t \in Transports : tp[t].state = "unborn" =>
          ~tp[t].is_destroying /\ ~tp[t].armed /\ tp[t].users = 0

\* The end of a destruction comes right after its beginning, and nowhere else.
Paired(s) ==
    /\ \A i \in 1..Len(s) : s[i] = "destroy" => i < Len(s) /\ s[i + 1] = "free"
    /\ \A i \in 2..Len(s) : s[i] = "free" => s[i - 1] = "destroy"

Ordered ==
    \A th \in Threads : Busy(th) =>
       /\ Paired(thread[th].todo)
       /\ Head(thread[th].todo) = "free" => tp[thread[th].tp].is_destroying

\* Who has begun to destroy a transport will end it.
Leaving ==
    \A t \in Transports : Open(t) /\ tp[t].is_destroying =>
       \E th \in Threads : thread[th].tp = t /\ Has(th, "free")

-----------------------------------------------------------------------------
(* The steps of a thread *)

\* What a step may put before the steps that remain.
Pushed == {<<>>, <<"verify">>, <<"rearm">>, <<"unlock">>,
           <<"inc", "dec", "unlock">>, <<"lock", "destroy", "free">>}

Occurs(x, s) == \E i \in 1..Len(s) : s[i] = x

\* A list of steps is its first and the others.
LEMMA FirstAndRest ==
  ASSUME NEW s \in Seq(Steps), s # <<>>
  PROVE  /\ Head(s) \in Steps /\ Head(s) = s[1]
         /\ Tail(s) \in Seq(Steps) /\ Len(s) \in Nat \ {0}
         /\ Len(Tail(s)) = Len(s) - 1
         /\ \A i \in 1..Len(s) - 1 : Tail(s)[i] = s[i + 1]
  BY HeadTailProperties, EmptySeq, LenProperties

\* A step that is not first stays, and no other comes, when the first is done.
LEMMA RestOccurs ==
  ASSUME NEW s \in Seq(Steps), s # <<>>, NEW x
  PROVE  Occurs(x, s) <=> x = Head(s) \/ Occurs(x, Tail(s))
<1>1. ASSUME NEW i \in 1..Len(s), s[i] = x, i # 1
      PROVE  i - 1 \in 1..Len(Tail(s)) /\ Tail(s)[i - 1] = x
  BY <1>1, FirstAndRest
<1>2. ASSUME NEW i \in 1..Len(Tail(s)), Tail(s)[i] = x
      PROVE  i + 1 \in 1..Len(s) /\ s[i + 1] = x
  BY <1>2, FirstAndRest
<1>3. Head(s) = s[1] /\ 1 \in 1..Len(s)
  BY FirstAndRest
<1>4. QED
  BY <1>1, <1>2, <1>3 DEF Occurs

\* What a step pushes is a list of steps, and begins no destruction unfinished.
LEMMA PushedSteps ==
  ASSUME NEW p \in Pushed
  PROVE  /\ p \in Seq(Steps) /\ Len(p) \in 0..3
         /\ \A i \in 1..Len(p) : p[i] = "destroy" => i + 1 \in 1..Len(p) /\ p[i + 1] = "free"
         /\ \A i \in 1..Len(p) : p[i] = "free" => i - 1 \in 1..Len(p) /\ p[i - 1] = "destroy"
<1>1. CASE p = <<>>
  BY <1>1, EmptySeq
<1>2. CASE p = <<"verify">>
  BY <1>2 DEF Steps
<1>3. CASE p = <<"rearm">>
  BY <1>3 DEF Steps
<1>4. CASE p = <<"unlock">>
  BY <1>4 DEF Steps
<1>5. CASE p = <<"inc", "dec", "unlock">>
  BY <1>5 DEF Steps
<1>6. CASE p = <<"lock", "destroy", "free">>
  BY <1>6 DEF Steps
<1>7. QED
  BY <1>1, <1>2, <1>3, <1>4, <1>5, <1>6 DEF Pushed

\* What a step pushes comes before what remains.
LEMMA Remaining ==
  ASSUME NEW r \in Seq(Steps), NEW p \in Pushed
  PROVE  /\ p \o r \in Seq(Steps)
         /\ Len(p \o r) = Len(p) + Len(r)
         /\ \A i \in 1..Len(p) + Len(r) :
               (p \o r)[i] = IF i <= Len(p) THEN p[i] ELSE r[i - Len(p)]
  BY PushedSteps, ConcatProperties

\* A step that is not first is still to do after a step, and so is what was
\* pushed.
LEMMA StillOccurs ==
  ASSUME NEW s \in Seq(Steps), s # <<>>, NEW p \in Pushed, NEW x,
         Occurs(x, p) \/ (Occurs(x, s) /\ x # Head(s))
  PROVE  Occurs(x, p \o Tail(s))
<1> DEFINE r == Tail(s)
<1>1. r \in Seq(Steps) /\ Len(r) \in Nat /\ Len(p) \in Nat
  BY FirstAndRest, PushedSteps, LenProperties
<1>2. CASE Occurs(x, p)
  <2>1. PICK i \in 1..Len(p) : p[i] = x
    BY <1>2 DEF Occurs
  <2>2. i \in 1..Len(p \o r) /\ (p \o r)[i] = x
    BY <1>1, <2>1, Remaining
  <2>3. QED
    BY <2>2 DEF Occurs
<1>3. CASE Occurs(x, s) /\ x # Head(s)
  <2>1. PICK i \in 1..Len(r) : r[i] = x
    BY <1>3, RestOccurs DEF Occurs
  <2>2. i + Len(p) \in 1..Len(p \o r) /\ (p \o r)[i + Len(p)] = x
    BY <1>1, <2>1, Remaining
  <2>3. QED
    BY <2>2 DEF Occurs
<1>4. QED
  BY <1>2, <1>3

\* Destructions stay whole.
LEMMA StillPaired ==
  ASSUME NEW s \in Seq(Steps), s # <<>>, Paired(s), NEW p \in Pushed,
         Head(s) = "destroy" => p = <<>>
  PROVE  /\ Paired(p \o Tail(s))
         /\ p \o Tail(s) # <<>> /\ Head(p \o Tail(s)) = "free" => Head(s) = "destroy"
<1> DEFINE r == Tail(s)
           q == p \o r
<1>1. /\ r \in Seq(Steps) /\ Len(r) \in Nat /\ Len(p) \in Nat /\ Len(s) = Len(r) + 1
      /\ Head(s) = s[1] /\ \A i \in 1..Len(r) : r[i] = s[i + 1]
  BY FirstAndRest, PushedSteps, LenProperties
<1>2. /\ q \in Seq(Steps) /\ Len(q) = Len(p) + Len(r)
      /\ \A i \in 1..Len(q) : q[i] = IF i <= Len(p) THEN p[i] ELSE r[i - Len(p)]
  BY <1>1, Remaining
<1>3. ASSUME NEW i \in 1..Len(q), q[i] = "destroy"
      PROVE  i < Len(q) /\ q[i + 1] = "free"
  <2>1. CASE i <= Len(p)
    BY <1>1, <1>2, <1>3, <2>1, PushedSteps
  <2>2. CASE i > Len(p)
    <3> DEFINE j == i - Len(p)
    <3>1. j \in 1..Len(r) /\ r[j] = "destroy"
      BY <1>1, <1>2, <1>3, <2>2
    <3>2. j + 1 \in 1..Len(s) /\ s[j + 1] = "destroy"
      BY <1>1, <3>1
    <3>3. j + 1 < Len(s) /\ s[j + 1 + 1] = "free"
      BY <3>2 DEF Paired
    <3>4. j + 1 \in 1..Len(r) /\ r[j + 1] = "free"
      BY <1>1, <3>1, <3>3
    <3>5. QED
      BY <1>1, <1>2, <2>2, <3>4
  <2>3. QED
    BY <1>1, <2>1, <2>2
<1>4. ASSUME NEW i \in 1..Len(q), q[i] = "free"
      PROVE  (i = 1 /\ Head(s) = "destroy") \/ (i > 1 /\ q[i - 1] = "destroy")
  <2>1. CASE i <= Len(p)
    BY <1>1, <1>2, <1>4, <2>1, PushedSteps
  <2>2. CASE i > Len(p)
    <3> DEFINE j == i - Len(p)
    <3>1. j \in 1..Len(r) /\ s[j + 1] = "free"
      BY <1>1, <1>2, <1>4, <2>2
    <3>2. s[j] = "destroy"
      <4>1. j + 1 \in 2..Len(s) /\ j + 1 - 1 = j
        BY <1>1, <3>1
      <4>2. QED
        BY <3>1, <4>1 DEF Paired
    <3>3. CASE j = 1
      <4>1. Len(p) = 0
        BY <1>1, <3>2, <3>3, EmptySeq
      <4>2. QED
        BY <1>1, <3>2, <3>3, <4>1
    <3>4. CASE j # 1
      <4>1. j - 1 \in 1..Len(r) /\ r[j - 1] = "destroy"
        BY <1>1, <3>1, <3>2, <3>4
      <4>2. QED
        BY <1>1, <1>2, <2>2, <3>4, <4>1
    <3>5. QED
      BY <3>3, <3>4
  <2>3. QED
    BY <1>1, <2>1, <2>2
<1>5. ASSUME NEW i \in 2..Len(q), q[i] = "free"
      PROVE  q[i - 1] = "destroy"
  BY <1>2, <1>4, <1>5
<1>6. ASSUME q # <<>>, Head(q) = "free"
      PROVE  Head(s) = "destroy"
  <2>1. 1 \in 1..Len(q) /\ q[1] = "free"
    BY <1>2, <1>6, FirstAndRest
  <2>2. QED
    BY <1>4, <2>1
<1>7. QED
  BY <1>3, <1>5, <1>6 DEF Paired

-----------------------------------------------------------------------------
(* What a step does to the threads *)

\* The lists that functions begin with.
Begun == {<<"inc", "unlock", "own">>, <<"test">>, <<"inc", "own">>, <<"dec">>,
          <<"inc", "lock", "shutdown", "dec">>, <<"lock", "shutdown">>,
          <<"fired", "test">>}

\* No function begins in a destruction.
LEMMA BegunSteps ==
  ASSUME NEW b \in Begun
  PROVE  b \in Seq(Steps) /\ b # <<>> /\ Paired(b) /\ Head(b) # "free"
<1>1. CASE b = <<"inc", "unlock", "own">>
  BY <1>1 DEF Steps, Paired
<1>2. CASE b = <<"test">>
  BY <1>2 DEF Steps, Paired
<1>3. CASE b = <<"inc", "own">>
  BY <1>3 DEF Steps, Paired
<1>4. CASE b = <<"dec">>
  BY <1>4 DEF Steps, Paired
<1>5. CASE b = <<"inc", "lock", "shutdown", "dec">>
  BY <1>5 DEF Steps, Paired
<1>6. CASE b = <<"lock", "shutdown">>
  BY <1>6 DEF Steps, Paired
<1>7. CASE b = <<"fired", "test">>
  BY <1>7 DEF Steps, Paired
<1>8. QED
  BY <1>1, <1>2, <1>3, <1>4, <1>5, <1>6, <1>7 DEF Begun

Task == [tp : Transports \cup {None}, todo : Seq(Steps)]

\* A thread ends a step: it goes on with what it pushed and what remained, at
\* the same transport, or rests.
LEMMA ThenGoesOn ==
  ASSUME Typed, NEW th \in Threads, Busy(th), NEW p \in Pushed, Then(th, p)
  PROVE  LET q == p \o Tail(thread[th].todo)
         IN  /\ thread' \in [Threads -> Task]
             /\ \A o \in Threads \ {th} : thread'[o] = thread[o]
             /\ q = <<>> => thread'[th] = Idle
             /\ q # <<>> => thread'[th] = [tp |-> thread[th].tp, todo |-> q]
<1> DEFINE q == p \o Tail(thread[th].todo)
<1>1. /\ thread \in [Threads -> Task] /\ thread[th].tp \in Transports
      /\ thread[th].todo \in Seq(Steps) /\ thread[th].todo # <<>>
  BY DEF Typed, Task
<1>2. q \in Seq(Steps)
  BY <1>1, FirstAndRest, Remaining
<1>3. Idle \in Task
  BY EmptySeq DEF Idle, Task
<1>4. thread' = [thread EXCEPT ![th] = IF q = <<>> THEN Idle ELSE [@ EXCEPT !.todo = q]]
  BY DEF Then
<1>5. [thread[th] EXCEPT !.todo = q] = [tp |-> thread[th].tp, todo |-> q]
  <2> DEFINE v == thread[th]
  <2>1. v = [tp |-> v.tp, todo |-> v.todo]
    BY <1>1 DEF Task
  <2>2. [v EXCEPT !.todo = q] = [tp |-> v.tp, todo |-> q]
    <3> HIDE DEF q, v
    <3>1. QED
      BY <2>1
  <2>3. QED
    BY <2>2
<1>6. [thread[th] EXCEPT !.todo = q] \in Task
  BY <1>1, <1>2, <1>5 DEF Task
<1> HIDE DEF q
<1>7. QED
  BY <1>1, <1>3, <1>4, <1>5, <1>6 DEF q

\* A thread begins a function.
LEMMA BeginBegins ==
  ASSUME Typed, NEW th \in Threads, NEW t \in Transports, NEW b \in Begun,
         Begin(th, t, b)
  PROVE  /\ thread' \in [Threads -> Task]
         /\ \A o \in Threads \ {th} : thread'[o] = thread[o]
         /\ thread'[th] = [tp |-> t, todo |-> b]
<1>1. [tp |-> t, todo |-> b] \in Task
  BY BegunSteps DEF Task
<1>2. QED
  BY <1>1 DEF Begin, Typed, Task

\* What a thread still had to do, besides the step it has done, it still has.
LEMMA StillHas ==
  ASSUME Typed, NEW th \in Threads, Busy(th), NEW p \in Pushed, Then(th, p), NEW x,
         Occurs(x, p) \/ (Has(th, x) /\ x # Head(thread[th].todo))
  PROVE  thread'[th].tp = thread[th].tp /\ Has(th, x)'
<1> DEFINE s == thread[th].todo
           q == p \o Tail(s)
<1>1. s \in Seq(Steps) /\ s # <<>>
  BY DEF Typed
<1>2. Occurs(x, q)
  BY <1>1, StillOccurs DEF Has, Occurs
<1>3. q # <<>>
  BY <1>2, EmptySeq DEF Occurs
<1>4. thread'[th] = [tp |-> thread[th].tp, todo |-> q]
  BY <1>3, ThenGoesOn
<1>5. QED
  BY <1>2, <1>4 DEF Has, Occurs

-----------------------------------------------------------------------------
(* What a step does to the transports *)

\* Thread th, in a function, does a step and has p to do first after it.
Advance(th, p) ==
    LET t == thread[th].tp
        step == Head(thread[th].todo)
    IN  /\ Busy(th) /\ Open(t)
        /\ Then(th, p) /\ (step = "destroy" => p = <<>>)
        /\ tp' \in [Transports -> Record]
        /\ \A u \in Transports \ {t} : tp'[u] = tp[u]
        /\ tp'[t].key = tp[t].key
        /\ tp'[t].state \in IF step = "free" THEN {"dead"} ELSE {tp[t].state, "used"}
        /\ tp'[t].is_destroying = (step = "destroy" \/ tp[t].is_destroying)
        /\ IF step = "destroy" THEN Unregister(t) ELSE table' = table

\* Reference counts are counts.
Counted == \A t \in Transports : tp[t].ref \in Nat

\* A step that leaves its transport used, and without a reference, leaves its
\* timer running or pushes what will see to it, has begun to destroy it, or is
\* of no consequence.
Settles(th, p) ==
    LET step == Head(thread[th].todo)
        old == tp[thread[th].tp]
        new == tp'[thread[th].tp]
    IN  /\ new.ref \in Nat
        /\ new.state = "used" /\ new.ref = 0 =>
              \/ new.armed \/ new.is_destroying
              \/ Occurs("rearm", p) \/ Occurs("free", p)
              \/ /\ step \notin {"rearm", "test", "free"}
                 /\ old.state = "used" /\ old.ref = 0 /\ new.armed = old.armed

\* What is left to see of each step: what becomes of its transport.
LEMMA AdvanceIf ==
  ASSUME Typed, NEW th \in Threads, Busy(th), Mine(th).state # "dead",
         NEW p \in Pushed, Then(th, p), Head(thread[th].todo) = "destroy" => p = <<>>,
         NEW r \in Record, Becomes(th, r), r.key = Mine(th).key,
         r.state \in IF Head(thread[th].todo) = "free" THEN {"dead"} ELSE {Mine(th).state, "used"},
         r.is_destroying = (Head(thread[th].todo) = "destroy" \/ Mine(th).is_destroying),
         IF Head(thread[th].todo) = "destroy" THEN Unregister(thread[th].tp) ELSE table' = table
  PROVE  Advance(th, p)
<1>1. thread[th].tp \in Transports /\ Mine(th).state \notin {"dead", "unborn"} /\ Mine(th) \in Record
  BY DEF Typed, Mine
<1>2. tp \in [Transports -> Record]
  BY DEF Typed
<1>3. Open(thread[th].tp)
  BY <1>1 DEF Open, Mine, Record, States
<1>4. QED
  BY <1>1, <1>2, <1>3 DEF Advance, Becomes, Mine

\* The steps of functions advance them, and settle what they leave.
LEMMA WorkAdvances ==
  ASSUME Typed, NEW th \in Threads, Work(th), ~Lost(th)
  PROVE  \E p \in Pushed : Advance(th, p) /\ (Counted /\ CountIsPositive => Settles(th, p))
<1> DEFINE r == Mine(th)
<1>1. ASSUME Busy(th)
      PROVE  /\ r \in Record /\ (tp' = tp => Becomes(th, r)) /\ (Counted => r.ref \in Nat)
             /\ \A new : Becomes(th, new) => tp'[thread[th].tp] = new
  BY <1>1 DEF Typed, Mine, Becomes, Counted
<1>2. ASSUME NEW step, At(th, step)
      PROVE  Busy(th) /\ r \in Record /\ r.state # "dead" /\ Head(thread[th].todo) = step
  BY <1>1, <1>2 DEF At, Busy, Mine
<1> HIDE DEF r
<1>3. CASE Inc(th)
  <2> DEFINE new == [r EXCEPT !.ref = @ + 1, !.state = "used"]
             p == IF r.ref = 0 THEN <<"verify">> ELSE <<>>
  <2>1. /\ Busy(th) /\ r \in Record /\ r.state # "dead" /\ Head(thread[th].todo) = "inc"
        /\ Becomes(th, new) /\ Then(th, p) /\ UNCHANGED table
    BY <1>1, <1>2, <1>3 DEF Inc, r
  <2>2. new \in Record /\ new.key = r.key /\ new.state = "used" /\ new.is_destroying = r.is_destroying
    <3> DEFINE n == r.ref + 1
    <3>1. n \in Int
      BY <2>1 DEF Record
    <3>2. [r EXCEPT !.ref = n, !.state = "used"] \in Record
      <4> HIDE DEF n
      <4>1. QED
        BY <2>1, <3>1 DEF Record, States
    <3>3. QED
      BY <2>1, <3>2 DEF Record
  <2>3. p \in Pushed
    BY DEF Pushed
  <2> HIDE DEF new, p
  <2>4. Advance(th, p)
    BY <2>1, <2>2, <2>3, AdvanceIf DEF r, Record
  <2>5. ASSUME Counted, CountIsPositive
        PROVE  Settles(th, p)
    <3> DEFINE n == r.ref + 1
    <3>1. n \in Nat \ {0} /\ tp'[thread[th].tp] = new
      BY <1>1, <2>1, <2>5
    <3>2. [r EXCEPT !.ref = n, !.state = "used"].ref = n
      <4> HIDE DEF n
      <4>1. QED
        BY <2>1 DEF Record
    <3>3. new.ref \in Nat \ {0}
      BY <3>1, <3>2 DEF new
    <3>4. QED
      BY <3>1, <3>3 DEF Settles
  <2>6. QED
    BY <2>3, <2>4, <2>5
<1>4. CASE Verify(th)
  <2> DEFINE new == IF r.ref = 1 THEN Stopped(r) ELSE r
             p == <<>>
  <2>1. /\ Busy(th) /\ r \in Record /\ r.state # "dead" /\ Head(thread[th].todo) = "verify"
        /\ Becomes(th, new) /\ Then(th, p) /\ UNCHANGED table
    BY <1>1, <1>2, <1>4 DEF Verify, r
  <2>2. new \in Record /\ new.key = r.key /\ new.state = r.state /\ new.is_destroying = r.is_destroying
    BY <2>1 DEF Record, States, Stopped
  <2>3. p \in Pushed
    BY DEF Pushed
  <2> HIDE DEF new, p
  <2>4. Advance(th, p)
    BY <2>1, <2>2, <2>3, AdvanceIf DEF r, Record
  <2>5. ASSUME Counted, CountIsPositive
        PROVE  Settles(th, p)
    <3>1. new.ref = r.ref /\ (r.ref = 0 => new = r)
      BY <2>1 DEF new, Stopped, Record
    <3>2. tp'[thread[th].tp] = new /\ new.ref \in Nat /\ r = tp[thread[th].tp]
      BY <1>1, <2>1, <2>5, <3>1 DEF r, Mine
    <3>3. QED
      BY <2>1, <3>1, <3>2 DEF Settles
  <2>6. QED
    BY <2>3, <2>4, <2>5
<1>5. CASE Dec(th)
  <2> DEFINE new == [r EXCEPT !.ref = @ - 1]
             p == IF r.ref = 1 THEN <<"rearm">> ELSE <<>>
  <2>1. /\ Busy(th) /\ r \in Record /\ r.state # "dead" /\ Head(thread[th].todo) = "dec"
        /\ Becomes(th, new) /\ Then(th, p) /\ UNCHANGED table
    BY <1>1, <1>2, <1>5 DEF Dec, r
  <2>2. new \in Record /\ new.key = r.key /\ new.state = r.state /\ new.is_destroying = r.is_destroying
    BY <2>1 DEF Record, States
  <2>3. p \in Pushed
    BY DEF Pushed
  <2> HIDE DEF new, p
  <2>4. Advance(th, p)
    BY <2>1, <2>2, <2>3, AdvanceIf DEF r, Record
  <2>5. ASSUME Counted, CountIsPositive
        PROVE  Settles(th, p)
    BY <1>1, <1>5, <2>1, <2>2, <2>5 DEF Settles, Dec, Record, Occurs, Mine, r, new, p, CountIsPositive, At
  <2>6. QED
    BY <2>3, <2>4, <2>5
<1>6. CASE Rearm(th)
  <2> DEFINE new == IF Unused(r) THEN [r EXCEPT !.id = TRUE, !.armed = TRUE] ELSE r
             p == <<>>
  <2>1. /\ Busy(th) /\ r \in Record /\ r.state # "dead" /\ Head(thread[th].todo) = "rearm"
        /\ Becomes(th, new) /\ Then(th, p) /\ UNCHANGED table
    BY <1>1, <1>2, <1>6 DEF Rearm, r
  <2>2. new \in Record /\ new.key = r.key /\ new.state = r.state /\ new.is_destroying = r.is_destroying
    BY <2>1 DEF Record, States
  <2>3. p \in Pushed
    BY DEF Pushed
  <2> HIDE DEF new, p
  <2>4. Advance(th, p)
    BY <2>1, <2>2, <2>3, AdvanceIf DEF r, Record
  <2>5. ASSUME Counted, CountIsPositive
        PROVE  Settles(th, p)
    BY <1>1, <1>6, <2>1, <2>2, <2>5 DEF Settles, Rearm, Record, Occurs, Mine, r, new, p, Unused
  <2>6. QED
    BY <2>3, <2>4, <2>5
<1>7. CASE Own(th)
  <2> DEFINE new == [r EXCEPT !.users = @ + 1]
             p == <<>>
  <2>1. /\ Busy(th) /\ r \in Record /\ r.state # "dead" /\ Head(thread[th].todo) = "own"
        /\ Becomes(th, new) /\ Then(th, p) /\ UNCHANGED table
    BY <1>1, <1>2, <1>7 DEF Own, r
  <2>2. new \in Record /\ new.key = r.key /\ new.state = r.state /\ new.is_destroying = r.is_destroying
    BY <2>1 DEF Record, States
  <2>3. p \in Pushed
    BY DEF Pushed
  <2> HIDE DEF new, p
  <2>4. Advance(th, p)
    BY <2>1, <2>2, <2>3, AdvanceIf DEF r, Record
  <2>5. ASSUME Counted, CountIsPositive
        PROVE  Settles(th, p)
    BY <1>1, <1>7, <2>1, <2>2, <2>5 DEF Settles, Own, Record, Occurs, Mine, r, new, p
  <2>6. QED
    BY <2>3, <2>4, <2>5
<1>8. CASE Lock(th)
  <2> DEFINE new == r
             p == <<>>
  <2>1. /\ Busy(th) /\ r \in Record /\ r.state # "dead" /\ Head(thread[th].todo) = "lock"
        /\ Becomes(th, new) /\ Then(th, p) /\ UNCHANGED table
    BY <1>1, <1>2, <1>8 DEF Lock, r
  <2>2. new \in Record /\ new.key = r.key /\ new.state = r.state /\ new.is_destroying = r.is_destroying
    BY <2>1 DEF Record, States
  <2>3. p \in Pushed
    BY DEF Pushed
  <2> HIDE DEF new, p
  <2>4. Advance(th, p)
    BY <2>1, <2>2, <2>3, AdvanceIf DEF r, Record
  <2>5. ASSUME Counted, CountIsPositive
        PROVE  Settles(th, p)
    BY <1>1, <1>8, <2>1, <2>2, <2>5 DEF Settles, Lock, Record, Occurs, Mine, r, new, p
  <2>6. QED
    BY <2>3, <2>4, <2>5
<1>9. CASE Shutdown(th)
  <2> DEFINE new == [r EXCEPT !.is_shutdown = TRUE]
             p == IF r.is_shutdown \/ r.ref > 0 THEN <<"unlock">> ELSE <<"inc", "dec", "unlock">>
  <2>1. /\ Busy(th) /\ r \in Record /\ r.state # "dead" /\ Head(thread[th].todo) = "shutdown"
        /\ Becomes(th, new) /\ Then(th, p) /\ UNCHANGED table
    BY <1>1, <1>2, <1>9 DEF Shutdown, r
  <2>2. new \in Record /\ new.key = r.key /\ new.state = r.state /\ new.is_destroying = r.is_destroying
    BY <2>1 DEF Record, States
  <2>3. p \in Pushed
    BY DEF Pushed
  <2> HIDE DEF new, p
  <2>4. Advance(th, p)
    BY <2>1, <2>2, <2>3, AdvanceIf DEF r, Record
  <2>5. ASSUME Counted, CountIsPositive
        PROVE  Settles(th, p)
    BY <1>1, <1>9, <2>1, <2>2, <2>5 DEF Settles, Shutdown, Record, Occurs, Mine, r, new, p
  <2>6. QED
    BY <2>3, <2>4, <2>5
<1>10. CASE Unlock(th)
  <2> DEFINE new == r
             p == <<>>
  <2>1. /\ Busy(th) /\ r \in Record /\ r.state # "dead" /\ Head(thread[th].todo) = "unlock"
        /\ Becomes(th, new) /\ Then(th, p) /\ UNCHANGED table
    BY <1>1, <1>2, <1>10 DEF Unlock, r
  <2>2. new \in Record /\ new.key = r.key /\ new.state = r.state /\ new.is_destroying = r.is_destroying
    BY <2>1 DEF Record, States
  <2>3. p \in Pushed
    BY DEF Pushed
  <2> HIDE DEF new, p
  <2>4. Advance(th, p)
    BY <2>1, <2>2, <2>3, AdvanceIf DEF r, Record
  <2>5. ASSUME Counted, CountIsPositive
        PROVE  Settles(th, p)
    BY <1>1, <1>10, <2>1, <2>2, <2>5 DEF Settles, Unlock, Record, Occurs, Mine, r, new, p
  <2>6. QED
    BY <2>3, <2>4, <2>5
<1>11. CASE Fired(th)
  <2> DEFINE new == [r EXCEPT !.id = FALSE]
             p == <<>>
  <2>1. /\ Busy(th) /\ r \in Record /\ r.state # "dead" /\ Head(thread[th].todo) = "fired"
        /\ Becomes(th, new) /\ Then(th, p) /\ UNCHANGED table
    BY <1>1, <1>2, <1>11 DEF Fired, r
  <2>2. new \in Record /\ new.key = r.key /\ new.state = r.state /\ new.is_destroying = r.is_destroying
    BY <2>1 DEF Record, States
  <2>3. p \in Pushed
    BY DEF Pushed
  <2> HIDE DEF new, p
  <2>4. Advance(th, p)
    BY <2>1, <2>2, <2>3, AdvanceIf DEF r, Record
  <2>5. ASSUME Counted, CountIsPositive
        PROVE  Settles(th, p)
    BY <1>1, <1>11, <2>1, <2>2, <2>5 DEF Settles, Fired, Record, Occurs, Mine, r, new, p
  <2>6. QED
    BY <2>3, <2>4, <2>5
<1>12. CASE Test(th)
  <2> DEFINE new == r
             p == IF r.ref = 0 THEN <<"lock", "destroy", "free">> ELSE <<>>
  <2>1. /\ Busy(th) /\ r \in Record /\ r.state # "dead" /\ Head(thread[th].todo) = "test"
        /\ Becomes(th, new) /\ Then(th, p) /\ UNCHANGED table
    BY <1>1, <1>2, <1>12 DEF Test, r
  <2>2. new \in Record /\ new.key = r.key /\ new.state = r.state /\ new.is_destroying = r.is_destroying
    BY <2>1 DEF Record, States
  <2>3. p \in Pushed
    BY DEF Pushed
  <2> HIDE DEF new, p
  <2>4. Advance(th, p)
    BY <2>1, <2>2, <2>3, AdvanceIf DEF r, Record
  <2>5. ASSUME Counted, CountIsPositive
        PROVE  Settles(th, p)
    BY <1>1, <1>12, <2>1, <2>2, <2>5 DEF Settles, Test, Record, Occurs, Mine, r, new, p
  <2>6. QED
    BY <2>3, <2>4, <2>5
<1>13. CASE Destroy(th)
  <2> DEFINE new == [Stopped(r) EXCEPT !.is_destroying = TRUE]
             p == <<>>
  <2>1. /\ Busy(th) /\ r \in Record /\ r.state # "dead" /\ Head(thread[th].todo) = "destroy"
        /\ Becomes(th, new) /\ Then(th, p) /\ Unregister(thread[th].tp)
    BY <1>1, <1>2, <1>13 DEF Destroy, r
  <2>2. new \in Record /\ new.key = r.key /\ new.state = r.state /\ new.is_destroying = TRUE
    BY <2>1 DEF Record, States, Stopped
  <2>3. p \in Pushed
    BY DEF Pushed
  <2> HIDE DEF new, p
  <2>4. Advance(th, p)
    BY <2>1, <2>2, <2>3, AdvanceIf DEF r, Record, p
  <2>5. ASSUME Counted, CountIsPositive
        PROVE  Settles(th, p)
    BY <1>1, <1>13, <2>1, <2>2, <2>5 DEF Settles, Destroy, Record, Occurs, Mine, r, new, p, Stopped
  <2>6. QED
    BY <2>3, <2>4, <2>5
<1>14. CASE Free(th)
  <2> DEFINE new == [r EXCEPT !.state = "dead"]
             p == <<>>
  <2>1. /\ Busy(th) /\ r \in Record /\ r.state # "dead" /\ Head(thread[th].todo) = "free"
        /\ Becomes(th, new) /\ Then(th, p) /\ UNCHANGED table
    BY <1>1, <1>2, <1>14 DEF Free, r
  <2>2. new \in Record /\ new.key = r.key /\ new.state = "dead" /\ new.is_destroying = r.is_destroying
    BY <2>1 DEF Record, States
  <2>3. p \in Pushed
    BY DEF Pushed
  <2> HIDE DEF new, p
  <2>4. Advance(th, p)
    BY <2>1, <2>2, <2>3, AdvanceIf DEF r, Record
  <2>5. ASSUME Counted, CountIsPositive
        PROVE  Settles(th, p)
    BY <1>1, <1>14, <2>1, <2>2, <2>5 DEF Settles, Free, Record, Occurs, Mine, r, new, p
  <2>6. QED
    BY <2>3, <2>4, <2>5
<1>15. QED
  BY <1>3, <1>4, <1>5, <1>6, <1>7, <1>8, <1>9, <1>10, <1>11, <1>12, <1>13, <1>14 DEF Work

\* Transport u stays as it is but for its users and its timer, is created, or
\* could not be.
Kept(u) == /\ tp'[u].state = tp[u].state /\ tp'[u].is_destroying = tp[u].is_destroying
           /\ tp[u].state = "unborn" => tp'[u] = tp[u]

Created(u) == /\ tp[u].state = "unborn" /\ ~tp'[u].is_destroying
              /\ tp'[u].state = "new"

Failed(u) == tp[u].state = "unborn" /\ tp'[u].state = "dead"

\* Thread th, at rest, may begin a function at a transport that was created.
Starts(th) ==
    /\ \/ UNCHANGED thread
       \/ \E t \in Transports, b \in Begun :
             thread[th] = Idle /\ Begin(th, t, b) /\ tp'[t].state # "unborn"
    /\ tp' \in [Transports -> Record]
    /\ \A u \in Transports :
          /\ tp'[u].key = tp[u].key /\ tp'[u].ref = tp[u].ref
          /\ Kept(u) \/ Created(u) \/ Failed(u)
          /\ tp[u].armed /\ ~tp'[u].armed => thread[th] = Idle /\ Begin(th, u, <<"fired", "test">>)
    /\ table' \in [Addrs -> Transports \cup {None}]
    /\ \A a \in Addrs :
          \/ table'[a] = table[a]
          \/ \E u \in Transports : table'[a] = u /\ Created(u) /\ tp'[u].key = a
          \/ table'[a] = None /\ \E u \in Transports : Failed(u)

\* A new transport has its place in the table, and no other field changes.
LEMMA CreateCreates ==
  ASSUME Typed, NEW t \in Transports, NEW a \in Addrs, Create(t, a)
  PROVE  /\ tp' \in [Transports -> Record]
         /\ \A u \in Transports :
               /\ tp'[u].key = tp[u].key /\ tp'[u].ref = tp[u].ref
               /\ Kept(u) \/ Created(u)
               /\ tp[u].armed => tp'[u].armed
         /\ table' \in [Addrs -> Transports \cup {None}]
         /\ \A b \in Addrs : table'[b] = table[b]
                             \/ (table'[b] = t /\ Created(t) /\ tp'[t].key = b)
         /\ tp'[t].state = "new"
<1>1. /\ tp[t] \in Record /\ tp \in [Transports -> Record]
      /\ tp[t].state = "unborn" /\ tp[t].key = a /\ ~tp[t].is_destroying
  BY DEF Typed, Create
<1>2. tp' = [tp EXCEPT ![t] = [tp[t] EXCEPT !.state = "new"]]
  BY DEF Create
<1>3. [tp[t] EXCEPT !.state = "new"] \in Record
  BY <1>1 DEF Record, States
<1>4. tp' \in [Transports -> Record] /\ \A u \in Transports \ {t} : tp'[u] = tp[u]
  BY <1>1, <1>2, <1>3
<1>5. /\ tp'[t].state = "new" /\ tp'[t].key = a /\ ~tp'[t].is_destroying
      /\ tp'[t].ref = tp[t].ref /\ tp'[t].armed = tp[t].armed
  BY <1>1, <1>2 DEF Record
<1>6. table' = [table EXCEPT ![a] = t] /\ table \in [Addrs -> Transports \cup {None}]
  BY DEF Create, Typed
<1>7. QED
  BY <1>1, <1>4, <1>5, <1>6 DEF Kept, Created

\* A thread that takes up a transport changes at most its users and its timer.
LEMMA TakesUp ==
  ASSUME Typed, NEW th \in Threads, NEW t \in Transports, NEW b \in Begun,
         thread[th] = Idle, Begin(th, t, b), tp[t].state # "unborn", UNCHANGED table,
         NEW r \in Record, tp' = [tp EXCEPT ![t] = r], r.key = tp[t].key,
         r.state = tp[t].state, r.is_destroying = tp[t].is_destroying, r.ref = tp[t].ref,
         tp[t].armed => r.armed \/ b = <<"fired", "test">>
  PROVE  Starts(th)
  BY DEF Starts, Kept, Typed

\* The same without a change.
LEMMA LooksUp ==
  ASSUME Typed, NEW th \in Threads, NEW t \in Transports, NEW b \in Begun,
         thread[th] = Idle, Begin(th, t, b), tp[t].state # "unborn",
         UNCHANGED <<tp, table>>
  PROVE  Starts(th)
  BY DEF Starts, Kept, Typed

\* Calls, and the timer, start functions.
LEMMA CallsStart ==
  ASSUME Typed, TableAlive, NEW th \in Threads,
         Calls(th) \/ \E t \in Transports : Expire(th, t)
  PROVE  Starts(th)
<1>1. ASSUME NEW a \in Addrs, Acquire(th, a)
      PROVE  Starts(th)
  <2>1. thread[th] = Idle
    BY <1>1 DEF Acquire, Resting
  <2>2. <<"inc", "unlock", "own">> \in Begun
    BY DEF Begun
  <2>3. CASE /\ Found(a) /\ Begin(th, table[a], <<"inc", "unlock", "own">>)
             /\ UNCHANGED <<tp, table>>
    <3>1. table[a] \in Transports /\ tp[table[a]].state # "unborn"
      BY <2>3 DEF Typed, Found, TableAlive, Open
    <3>2. QED
      BY <2>1, <2>2, <2>3, <3>1, LooksUp
  <2>4. ASSUME NEW t \in Transports, Create(t, a), Begin(th, t, <<"inc", "unlock", "own">>)
        PROVE  Starts(th)
    BY <2>1, <2>2, <2>4, CreateCreates DEF Starts
  <2>5. QED
    BY <1>1, <2>3, <2>4 DEF Acquire
<1>2. ASSUME NEW a \in Addrs, AcquireFails(th, a)
      PROVE  Starts(th)
  <2>1. PICK t \in Transports :
           /\ tp[t].state = "unborn" /\ tp[t].key = a
           /\ tp' = [tp EXCEPT ![t].state = "dead", ![t].is_destroying = TRUE]
    BY <1>2 DEF AcquireFails
  <2>2. tp[t] \in Record /\ tp \in [Transports -> Record]
    BY DEF Typed
  <2>3. tp' = [tp EXCEPT ![t] = [tp[t] EXCEPT !.state = "dead", !.is_destroying = TRUE]]
    BY <2>1, <2>2
  <2>4. [tp[t] EXCEPT !.state = "dead", !.is_destroying = TRUE] \in Record
    BY <2>2 DEF Record, States
  <2>5. tp' \in [Transports -> Record] /\ \A u \in Transports \ {t} : tp'[u] = tp[u]
    BY <2>2, <2>3, <2>4
  <2>6. /\ tp'[t].state = "dead" /\ tp'[t].key = tp[t].key
        /\ tp'[t].ref = tp[t].ref /\ tp'[t].armed = tp[t].armed
    BY <2>2, <2>3 DEF Record
  <2>7. UNCHANGED thread /\ table' = [table EXCEPT ![a] = None]
    BY <1>2 DEF AcquireFails
  <2>8. \A u \in Transports :
           /\ tp'[u].key = tp[u].key /\ tp'[u].ref = tp[u].ref
           /\ Kept(u) \/ Failed(u)
           /\ tp[u].armed => tp'[u].armed
    BY <2>1, <2>5, <2>6 DEF Kept, Failed
  <2>9. QED
    BY <2>1, <2>5, <2>6, <2>7, <2>8 DEF Starts, Failed, Typed
<1>3. ASSUME NEW a \in Addrs, Accept(th, a)
      PROVE  Starts(th)
  <2>1. PICK t \in Transports : Create(t, a) /\ (UNCHANGED thread \/ Begin(th, t, <<"test">>))
    BY <1>3 DEF Accept
  <2>2. thread[th] = Idle /\ <<"test">> \in Begun
    BY <1>3 DEF Accept, Resting, Begun
  <2>3. QED
    BY <2>1, <2>2, CreateCreates DEF Starts
<1>4. ASSUME NEW t \in Transports, AddRef(th, t)
      PROVE  Starts(th)
  <2>1. tp[t].state # "unborn" /\ <<"inc", "own">> \in Begun /\ thread[th] = Idle
    BY <1>4 DEF AddRef, Open, Typed, Begun, Resting
  <2>2. QED
    BY <1>4, <2>1, LooksUp DEF AddRef
<1>5. ASSUME NEW t \in Transports, DecRef(th, t)
      PROVE  Starts(th)
  <2>1. tp[t].state # "unborn" /\ <<"dec">> \in Begun /\ thread[th] = Idle /\ tp[t] \in Record
    BY <1>5 DEF DecRef, Typed, Begun, Resting
  <2> DEFINE n == tp[t].users - 1
             r == [tp[t] EXCEPT !.users = n]
  <2>2. n \in Int
    BY <2>1 DEF Record
  <2>3. tp' = [tp EXCEPT ![t] = r] /\ Begin(th, t, <<"dec">>) /\ UNCHANGED table
    BY <1>5 DEF DecRef
  <2> HIDE DEF n
  <2>4. /\ r \in Record /\ r.key = tp[t].key /\ r.state = tp[t].state
        /\ r.is_destroying = tp[t].is_destroying /\ r.ref = tp[t].ref /\ r.armed = tp[t].armed
    BY <2>1, <2>2 DEF Record
  <2> HIDE DEF r
  <2>5. QED
    BY <2>1, <2>3, <2>4, TakesUp
<1>6. ASSUME NEW t \in Transports, Disconnect(th, t)
      PROVE  Starts(th)
  <2>1. tp[t].state # "unborn" /\ Broken \in Begun /\ thread[th] = Idle
    BY <1>6 DEF Disconnect, Open, Broken, Begun, Resting
  <2>2. QED
    BY <1>6, <2>1, LooksUp DEF Disconnect
<1>7. ASSUME NEW t \in Transports, Close(th, t)
      PROVE  Starts(th)
  <2>1. tp[t].state # "unborn" /\ <<"lock", "shutdown">> \in Begun /\ thread[th] = Idle
    BY <1>7 DEF Close, Typed, Begun, Resting
  <2>2. QED
    BY <1>7, <2>1, LooksUp DEF Close
<1>8. ASSUME NEW t \in Transports, Expire(th, t)
      PROVE  Starts(th)
  <2>1. tp[t].state # "unborn" /\ <<"fired", "test">> \in Begun /\ thread[th] = Idle /\ tp[t] \in Record
    BY <1>8 DEF Expire, Typed, Begun, Resting
  <2> DEFINE r == [tp[t] EXCEPT !.armed = FALSE]
  <2>2. tp' = [tp EXCEPT ![t] = r] /\ Begin(th, t, <<"fired", "test">>) /\ UNCHANGED table
    BY <1>8 DEF Expire
  <2>3. /\ r \in Record /\ r.key = tp[t].key /\ r.state = tp[t].state
        /\ r.is_destroying = tp[t].is_destroying /\ r.ref = tp[t].ref
    BY <2>1 DEF Record
  <2> HIDE DEF r
  <2>4. QED
    BY <2>1, <2>2, <2>3, TakesUp
<1>9. QED
  BY <1>1, <1>2, <1>3, <1>4, <1>5, <1>6, <1>7, <1>8 DEF Calls

-----------------------------------------------------------------------------
(* The table finds what is there *)

Safe == Typed /\ Ordered /\ TableAlive

LEMMA InitSafe == Init => Safe
<1> SUFFICES ASSUME Init PROVE Safe
  OBVIOUS
<1>1. ASSUME NEW t \in Transports
      PROVE  tp[t] \in Record /\ tp[t].state = "unborn"
             /\ ~tp[t].is_destroying /\ ~tp[t].armed /\ tp[t].users = 0
  <2>1. PICK a \in Addrs : tp[t] = [state |-> "unborn", key |-> a, ref |-> 0, users |-> 0,
                                    is_shutdown |-> FALSE, is_destroying |-> FALSE,
                                    id |-> FALSE, armed |-> FALSE]
    BY DEF Init
  <2>2. QED
    BY <2>1 DEF Record, States
<1>2. tp \in [Transports -> Record]
  BY <1>1 DEF Init
<1>3. \A th \in Threads : ~Busy(th)
  BY DEF Init, Busy
<1>4. Idle \in Task /\ Absent \in Task
  BY EmptySeq DEF Idle, Absent, Task, Steps
<1>5. thread \in [Threads -> Task]
  BY <1>4 DEF Init
<1>6. table \in [Addrs -> Transports \cup {None}] /\ TableAlive
  BY DEF Init, TableAlive
<1>7. QED
  BY <1>1, <1>2, <1>3, <1>5, <1>6 DEF Safe, Typed, Ordered, Task

LEMMA AdvanceKeepsSafe ==
  ASSUME Safe, NEW th \in Threads, NEW p \in Pushed, Advance(th, p)
  PROVE  Safe'
<1> DEFINE t == thread[th].tp
           s == thread[th].todo
           q == p \o Tail(s)
<1>1. /\ Typed /\ Busy(th) /\ Then(th, p) /\ t \in Transports
      /\ s \in Seq(Steps) /\ s # <<>> /\ tp[t].state \in {"new", "used"}
  BY DEF Safe, Advance, Typed, Open
<1>2. /\ thread' \in [Threads -> Task]
      /\ \A o \in Threads \ {th} : thread'[o] = thread[o]
      /\ q = <<>> => thread'[th] = Idle
      /\ q # <<>> => thread'[th] = [tp |-> t, todo |-> q]
  BY <1>1, ThenGoesOn
<1>3. Paired(s) /\ (Head(s) = "free" => tp[t].is_destroying)
  BY <1>1 DEF Safe, Ordered
<1>4. Paired(q) /\ (q # <<>> /\ Head(q) = "free" => Head(s) = "destroy")
  BY <1>1, <1>3, StillPaired DEF Advance
<1>5. /\ tp' \in [Transports -> Record]
      /\ \A u \in Transports \ {t} : tp'[u] = tp[u]
      /\ tp'[t].key = tp[t].key /\ tp'[t].state # "unborn"
      /\ Head(s) # "free" => tp'[t].state \in {"new", "used"}
      /\ tp'[t].is_destroying = (Head(s) = "destroy" \/ tp[t].is_destroying)
  BY <1>1 DEF Advance
<1>6. table' = IF Head(s) = "destroy"
               THEN [a \in Addrs |-> IF a = tp[t].key /\ table[a] = t THEN None ELSE table[a]]
               ELSE table
  BY DEF Advance, Unregister
<1>7. table' \in [Addrs -> Transports \cup {None}]
  BY <1>1, <1>6 DEF Typed
<1> HIDE DEF q
<1>8. Typed'
  <2>1. ASSUME NEW o \in Threads, Busy(o)'
        PROVE  thread'[o].tp \in Transports /\ thread'[o].todo # <<>> /\ tp'[thread'[o].tp].state # "unborn"
    <3>1. CASE o = th
      BY <1>1, <1>2, <1>5, <2>1, <3>1 DEF Busy
    <3>2. CASE o # th
      BY <1>1, <1>2, <1>5, <2>1, <3>2, SMTT(60) DEF Busy, Typed
    <3>3. QED
      BY <3>1, <3>2
  <2>2. \A u \in Transports : tp'[u].state = "unborn" =>
           ~tp'[u].is_destroying /\ ~tp'[u].armed /\ tp'[u].users = 0
    BY <1>1, <1>5 DEF Typed
  <2>3. QED
    BY <1>2, <1>5, <1>7, <2>1, <2>2 DEF Typed, Task
<1>9. Ordered'
  <2>1. ASSUME NEW o \in Threads, Busy(o)'
        PROVE  /\ Paired(thread'[o].todo)
               /\ Head(thread'[o].todo) = "free" => tp'[thread'[o].tp].is_destroying
    <3>1. CASE o = th
      <4>1. q # <<>> /\ thread'[o].tp = t /\ thread'[o].todo = q
        BY <1>2, <2>1, <3>1 DEF Busy
      <4>2. Paired(thread'[o].todo) /\ (Head(thread'[o].todo) = "free" => Head(s) = "destroy")
        BY <1>4, <4>1
      <4>3. QED
        BY <1>5, <4>1, <4>2
    <3>2. CASE o # th
      <4>1. Busy(o) /\ thread[o].tp \in Transports /\ thread'[o] = thread[o]
        BY <1>1, <1>2, <2>1, <3>2 DEF Busy, Typed
      <4>2. QED
        BY <1>5, <4>1 DEF Safe, Ordered
    <3>3. QED
      BY <3>1, <3>2
  <2>2. QED
    BY <2>1 DEF Ordered, Busy
<1>10. TableAlive'
  <2>1. ASSUME NEW a \in Addrs, table'[a] # None
        PROVE  /\ tp'[table'[a]].key = a /\ tp'[table'[a]].state \in {"new", "used"}
               /\ ~tp'[table'[a]].is_destroying
    <3> DEFINE u == table[a]
    <3>1. /\ table'[a] = u /\ u \in Transports /\ tp[u].key = a /\ Open(u) /\ ~tp[u].is_destroying
      BY <1>1, <1>6, <2>1 DEF Safe, TableAlive, Typed
    <3>2. CASE u = t
      <4>1. Head(s) # "destroy" /\ Head(s) # "free"
        BY <1>3, <1>6, <2>1, <3>1, <3>2
      <4>2. QED
        BY <1>5, <3>1, <3>2, <4>1 DEF Open
    <3>3. CASE u # t
      BY <1>5, <3>1, <3>3 DEF Open
    <3>4. QED
      BY <3>2, <3>3
  <2>2. QED
    BY <2>1 DEF TableAlive, Open
<1>11. QED
  BY <1>8, <1>9, <1>10 DEF Safe

LEMMA StartKeepsSafe ==
  ASSUME Safe, NEW th \in Threads, Starts(th)
  PROVE  Safe'
<1>1. /\ Typed /\ tp \in [Transports -> Record] /\ tp' \in [Transports -> Record]
      /\ table' \in [Addrs -> Transports \cup {None}]
      /\ \A u \in Transports : tp'[u].key = tp[u].key /\ (Kept(u) \/ Created(u) \/ Failed(u))
  BY DEF Safe, Typed, Starts
<1>2. \A u \in Transports : tp[u].state # "unborn" =>
         tp'[u].state = tp[u].state /\ tp'[u].is_destroying = tp[u].is_destroying
  BY <1>1 DEF Kept, Created, Failed
<1> DEFINE Stays(o) == Busy(o) /\ thread'[o] = thread[o]
           Goes(o) == \E t \in Transports, b \in Begun :
                         thread'[o] = [tp |-> t, todo |-> b] /\ tp'[t].state # "unborn"
<1>3. thread' \in [Threads -> Task] /\ \A o \in Threads : Busy(o)' => Stays(o) \/ Goes(o)
  <2>1. CASE UNCHANGED thread
    BY <1>1, <2>1 DEF Typed, Task, Busy
  <2>2. ASSUME NEW t \in Transports, NEW b \in Begun, Begin(th, t, b), tp'[t].state # "unborn"
        PROVE  thread' \in [Threads -> Task] /\ \A o \in Threads : Busy(o)' => Stays(o) \/ Goes(o)
    <3>1. /\ thread' \in [Threads -> Task] /\ thread'[th] = [tp |-> t, todo |-> b]
          /\ \A o \in Threads \ {th} : thread'[o] = thread[o]
      BY <1>1, <2>2, BeginBegins
    <3>2. Goes(th)
      BY <2>2, <3>1
    <3>3. ASSUME NEW o \in Threads, o # th, Busy(o)'
          PROVE  Stays(o)
      BY <3>1, <3>3 DEF Busy
    <3>4. QED
      BY <3>1, <3>2, <3>3
  <2>3. QED
    BY <2>1, <2>2 DEF Starts
<1>4. Typed'
  <2>1. ASSUME NEW o \in Threads, Busy(o)'
        PROVE  thread'[o].tp \in Transports /\ thread'[o].todo # <<>> /\ tp'[thread'[o].tp].state # "unborn"
    <3>1. CASE Stays(o)
      BY <1>1, <1>2, <3>1 DEF Typed
    <3>2. CASE Goes(o)
      BY <3>2, BegunSteps
    <3>3. QED
      BY <1>3, <2>1, <3>1, <3>2
  <2>2. \A u \in Transports : tp'[u].state = "unborn" =>
           ~tp'[u].is_destroying /\ ~tp'[u].armed /\ tp'[u].users = 0
    BY <1>1 DEF Typed, Kept, Created, Failed
  <2>3. QED
    BY <1>1, <1>3, <2>1, <2>2 DEF Typed, Task
<1>5. Ordered'
  <2>1. ASSUME NEW o \in Threads, Busy(o)'
        PROVE  /\ Paired(thread'[o].todo)
               /\ Head(thread'[o].todo) = "free" => tp'[thread'[o].tp].is_destroying
    <3>1. CASE Stays(o)
      BY <1>1, <1>2, <3>1 DEF Safe, Ordered, Typed
    <3>2. CASE Goes(o)
      BY <3>2, BegunSteps
    <3>3. QED
      BY <1>3, <2>1, <3>1, <3>2
  <2>2. QED
    BY <2>1 DEF Ordered, Busy
<1>6. TableAlive'
  <2>1. ASSUME NEW a \in Addrs, table'[a] # None
        PROVE  /\ tp'[table'[a]].key = a /\ tp'[table'[a]].state \in {"new", "used"}
               /\ ~tp'[table'[a]].is_destroying
    <3>1. CASE table'[a] = table[a]
      <4>1. /\ table[a] \in Transports /\ tp[table[a]].key = a
            /\ tp[table[a]].state \in {"new", "used"} /\ ~tp[table[a]].is_destroying
        BY <1>1, <2>1, <3>1 DEF Safe, TableAlive, Typed, Open
      <4>2. QED
        BY <1>1, <1>2, <3>1, <4>1
    <3>2. CASE \E u \in Transports : table'[a] = u /\ Created(u) /\ tp'[u].key = a
      BY <3>2 DEF Created, Open
    <3>3. QED
      BY <2>1, <3>1, <3>2 DEF Starts
  <2>2. QED
    BY <2>1 DEF TableAlive, Open
<1>7. QED
  BY <1>4, <1>5, <1>6 DEF Safe

LEMMA LostKeepsSafe ==
  ASSUME Safe, NEW th \in Threads, Lost(th)
  PROVE  Safe'
<1>1. /\ Idle \in Task /\ thread \in [Threads -> Task]
      /\ thread' = [thread EXCEPT ![th] = Idle] /\ UNCHANGED <<tp, table>>
  BY EmptySeq DEF Lost, Idle, Task, Safe, Typed
<1>2. /\ thread' \in [Threads -> Task]
      /\ \A o \in Threads : Busy(o)' => Busy(o) /\ thread'[o] = thread[o]
  BY <1>1 DEF Busy
<1>3. Typed'
  BY <1>1, <1>2 DEF Safe, Typed, Task
<1>4. Ordered'
  BY <1>1, <1>2 DEF Safe, Ordered
<1>5. TableAlive'
  BY <1>1 DEF Safe, TableAlive, Open
<1>6. QED
  BY <1>3, <1>4, <1>5 DEF Safe

LEMMA NextKeepsSafe == Safe /\ [Next]_vars => Safe'
<1> SUFFICES ASSUME Safe, [Next]_vars PROVE Safe'
  OBVIOUS
<1>1. ASSUME NEW th \in Threads, Work(th)
      PROVE  Safe'
  BY <1>1, WorkAdvances, AdvanceKeepsSafe, LostKeepsSafe DEF Safe
<1>2. ASSUME NEW th \in Threads, Calls(th) \/ \E t \in Transports : Expire(th, t)
      PROVE  Safe'
  BY <1>2, CallsStart, StartKeepsSafe DEF Safe
<1>3. CASE UNCHANGED vars
  BY <1>3 DEF vars, Safe, Typed, Ordered, TableAlive, Busy, Open
<1>4. QED
  BY <1>1, <1>2, <1>3 DEF Next

\* Always: the fields have their types (counts apart, see CountIsPositive), a
\* thread that releases a transport has first taken it out of the table, and
\* the table finds transports that are there.
THEOREM Safety == Spec => []Safe
  BY InitSafe, NextKeepsSafe, PTL DEF Spec

\* pjsip_tpmgr_acquire_transport2 never finds a transport whose memory is gone
\* or going, nor one of another address, for any number of threads.
THEOREM TableIsAlive == Spec => []TableAlive
<1>1. Safe => TableAlive
  BY DEF Safe
<1>2. QED
  BY <1>1, Safety, PTL

-----------------------------------------------------------------------------
(* A place in the table *)

Place ==
    \A a \in Addrs : table[a] # None /\ table'[a] # table[a] =>
       \/ table'[a] # None
       \/ tp'[table[a]].is_destroying
       \/ \E t \in Transports : tp[t].state = "unborn" /\ tp'[t].state = "dead"

LEMMA NextKeepsPlace == Safe /\ [Next]_vars => Place
<1> SUFFICES ASSUME Safe, [Next]_vars PROVE Place
  OBVIOUS
<1>1. ASSUME NEW th \in Threads, NEW p \in Pushed, Advance(th, p)
      PROVE  Place
  BY <1>1 DEF Advance, Unregister, Place, Safe, Typed
<1>2. ASSUME NEW th \in Threads, Starts(th)
      PROVE  Place
  BY NoneAssumption, <1>2 DEF Starts, Failed, Place
<1>3. ASSUME NEW th \in Threads, Work(th)
      PROVE  Place
  BY <1>1, <1>3, WorkAdvances DEF Lost, Place, Safe
<1>4. ASSUME NEW th \in Threads, Calls(th) \/ \E t \in Transports : Expire(th, t)
      PROVE  Place
  BY <1>2, <1>4, CallsStart DEF Safe
<1>5. CASE UNCHANGED vars
  BY <1>5 DEF vars, Place
<1>6. QED
  BY <1>3, <1>4, <1>5 DEF Next

\* destroy_transport takes out of the table the transport that it destroys and
\* never the one that has taken its place.
THEOREM PlaceIsKept == Spec => KeepsPlace
<1>1. Safe /\ [Next]_vars => [Place]_vars
  BY NextKeepsPlace
<1>2. QED
  BY <1>1, Safety, PTL DEF Spec, KeepsPlace, Place

-----------------------------------------------------------------------------
(* No unused transport stays behind *)

Watched == Counted /\ Leaving /\ NeverLeaked

\* A thread that has a step to do at a transport is in a function.
LEMMA HasIsBusy ==
  ASSUME Typed, NEW th \in Threads, NEW t \in Transports, thread[th].tp = t, NEW x, Has(th, x)
  PROVE  Busy(th)
<1>1. thread[th] # Absent /\ thread[th] # Idle
  BY NoneAssumption DEF Absent, Idle
<1>2. QED
  BY <1>1 DEF Busy

LEMMA InitWatched == Init => Watched
<1> SUFFICES ASSUME Init PROVE Watched
  OBVIOUS
<1>1. ASSUME NEW t \in Transports
      PROVE  tp[t].ref = 0 /\ tp[t].state = "unborn"
  <2>1. PICK a \in Addrs : tp[t] = [state |-> "unborn", key |-> a, ref |-> 0, users |-> 0,
                                    is_shutdown |-> FALSE, is_destroying |-> FALSE,
                                    id |-> FALSE, armed |-> FALSE]
    BY DEF Init
  <2>2. QED
    BY <2>1
<1>2. QED
  BY <1>1 DEF Watched, Counted, Leaving, NeverLeaked, Open

LEMMA AdvanceKeepsWatched ==
  ASSUME Safe, Watched, NEW th \in Threads, NEW p \in Pushed, Advance(th, p), Settles(th, p)
  PROVE  Watched'
<1> DEFINE t == thread[th].tp
           s == thread[th].todo
<1>1. /\ Typed /\ Busy(th) /\ Then(th, p) /\ t \in Transports
      /\ s \in Seq(Steps) /\ s # <<>> /\ Open(t) /\ Paired(s)
  BY DEF Safe, Advance, Typed, Ordered
<1>2. \A o \in Threads \ {th} : thread'[o] = thread[o]
  BY <1>1, ThenGoesOn
<1>3. /\ \A u \in Transports \ {t} : tp'[u] = tp[u]
      /\ tp'[t].is_destroying = (Head(s) = "destroy" \/ tp[t].is_destroying)
      /\ Head(s) = "free" => tp'[t].state = "dead"
  BY DEF Advance
<1>4. Counted'
  <2>1. tp'[t].ref \in Nat
    BY DEF Settles
  <2>2. QED
    BY <1>3, <2>1 DEF Watched, Counted
<1>5. ASSUME NEW o \in Threads, NEW x, Has(o, x), thread[o].tp \in Transports,
             o = th => x # Head(s)
      PROVE  thread'[o].tp = thread[o].tp /\ Has(o, x)'
  <2>1. CASE o = th
    BY <1>1, <1>5, <2>1, StillHas
  <2>2. CASE o # th
    BY <1>2, <1>5, <2>2 DEF Has
  <2>3. QED
    BY <2>1, <2>2
<1>6. ASSUME NEW x, Occurs(x, p)
      PROVE  thread'[th].tp = t /\ Has(th, x)'
  BY <1>1, <1>6, StillHas
<1>7. ASSUME NEW u \in Transports, Open(u)', tp'[u].is_destroying
      PROVE  \E o \in Threads : thread'[o].tp = u /\ Has(o, "free")'
  <2>1. CASE u # t
    <3>1. Open(u) /\ tp[u].is_destroying
      BY <1>3, <1>7, <2>1 DEF Open
    <3>2. PICK o \in Threads : thread[o].tp = u /\ Has(o, "free")
      BY <3>1 DEF Watched, Leaving
    <3>3. QED
      BY <1>5, <2>1, <3>2
  <2>2. CASE u = t
    <3>1. Head(s) # "free"
      BY <1>3, <1>7, <2>2 DEF Open
    <3>2. CASE Head(s) = "destroy"
      <4>1. Len(s) \in Nat \ {0} /\ s[1] = "destroy"
        BY <1>1, <3>2, FirstAndRest
      <4>2. 2 \in 1..Len(s) /\ s[2] = "free"
        BY <1>1, <4>1 DEF Paired
      <4>3. Has(th, "free")
        BY <4>2 DEF Has
      <4>4. QED
        BY <1>1, <1>5, <2>2, <3>1, <4>3
    <3>3. CASE Head(s) # "destroy"
      <4>1. tp[t].is_destroying
        BY <1>3, <1>7, <2>2, <3>3
      <4>2. PICK o \in Threads : thread[o].tp = t /\ Has(o, "free")
        BY <1>1, <4>1 DEF Watched, Leaving
      <4>3. QED
        BY <1>1, <1>5, <2>2, <3>1, <4>2
    <3>4. QED
      BY <3>2, <3>3
  <2>3. QED
    BY <2>1, <2>2
<1>8. Leaving'
  BY <1>7 DEF Leaving, Has, Open
<1>9. ASSUME NEW u \in Transports, tp'[u].state = "used", tp'[u].ref = 0
      PROVE  tp'[u].armed \/ Attended(u)'
  <2>1. ASSUME NEW o \in Threads, NEW x \in {"rearm", "test", "free"},
               thread'[o].tp = u, Has(o, x)'
        PROVE  Attended(u)'
    BY <2>1 DEF Attended, Has
  <2>2. ASSUME Attended(u), u = t => Head(s) \notin {"rearm", "test", "free"}
        PROVE  Attended(u)'
    <3>1. PICK o \in Threads, x \in {"rearm", "test", "free"} : thread[o].tp = u /\ Has(o, x)
      BY <2>2 DEF Attended
    <3>2. QED
      BY <1>5, <2>1, <2>2, <3>1
  <2>3. CASE u # t
    BY <1>3, <1>9, <2>2, <2>3 DEF Watched, NeverLeaked
  <2>4. CASE u = t
    <3>1. CASE tp'[t].armed
      BY <2>4, <3>1
    <3>2. CASE tp'[t].is_destroying
      BY <1>7, <1>9, <2>1, <2>4, <3>2 DEF Open
    <3>3. CASE Occurs("rearm", p) \/ Occurs("free", p)
      BY <1>6, <2>1, <2>4, <3>3
    <3>4. CASE /\ Head(s) \notin {"rearm", "test", "free"}
               /\ tp[t].state = "used" /\ tp[t].ref = 0 /\ tp'[t].armed = tp[t].armed
      BY <1>1, <2>2, <2>4, <3>4 DEF Watched, NeverLeaked
    <3>5. QED
      BY <1>9, <2>4, <3>1, <3>2, <3>3, <3>4 DEF Settles
  <2>5. QED
    BY <2>3, <2>4
<1>10. NeverLeaked'
  BY <1>9 DEF NeverLeaked, Attended, Has
<1>11. QED
  BY <1>4, <1>8, <1>10 DEF Watched

LEMMA StartKeepsWatched ==
  ASSUME Safe, Watched, NEW th \in Threads, Starts(th)
  PROVE  Watched'
<1>1. /\ Typed
      /\ \A u \in Transports :
            /\ tp'[u].ref = tp[u].ref
            /\ Kept(u) \/ Created(u) \/ Failed(u)
            /\ tp[u].armed /\ ~tp'[u].armed => thread[th] = Idle /\ Begin(th, u, <<"fired", "test">>)
  BY DEF Safe, Starts
<1>2. Counted'
  BY <1>1 DEF Watched, Counted
<1>3. ASSUME NEW o \in Threads, Busy(o)
      PROVE  thread'[o] = thread[o]
  <2>1. CASE UNCHANGED thread
    BY <2>1
  <2>2. ASSUME NEW t \in Transports, NEW b \in Begun, thread[th] = Idle, Begin(th, t, b)
        PROVE  thread'[o] = thread[o]
    BY <1>1, <1>3, <2>2, BeginBegins DEF Busy
  <2>3. QED
    BY <2>1, <2>2 DEF Starts
<1>4. ASSUME NEW o \in Threads, NEW u \in Transports, thread[o].tp = u, NEW x, Has(o, x)
      PROVE  thread'[o].tp = u /\ Has(o, x)'
  BY <1>1, <1>3, <1>4, HasIsBusy DEF Has
<1>5. ASSUME NEW u \in Transports, Open(u)', tp'[u].is_destroying
      PROVE  \E o \in Threads : thread'[o].tp = u /\ Has(o, "free")'
  <2>1. Open(u) /\ tp[u].is_destroying
    BY <1>1, <1>5 DEF Kept, Created, Failed, Open
  <2>2. PICK o \in Threads : thread[o].tp = u /\ Has(o, "free")
    BY <2>1 DEF Watched, Leaving
  <2>3. QED
    BY <1>4, <2>2
<1>6. Leaving'
  BY <1>5 DEF Leaving, Has, Open
<1>7. ASSUME NEW u \in Transports, tp'[u].state = "used", tp'[u].ref = 0
      PROVE  tp'[u].armed \/ Attended(u)'
  <2>1. tp[u].state = "used" /\ tp[u].ref = 0
    BY <1>1, <1>7 DEF Kept, Created, Failed
  <2>2. CASE Attended(u)
    <3>1. PICK o \in Threads, x \in {"rearm", "test", "free"} : thread[o].tp = u /\ Has(o, x)
      BY <2>2 DEF Attended
    <3>2. thread'[o].tp = u /\ Has(o, x)'
      BY <1>4, <3>1
    <3>3. QED
      BY <3>2 DEF Attended, Has
  <2>3. CASE tp[u].armed /\ ~tp'[u].armed
    <3>1. <<"fired", "test">> \in Begun /\ Begin(th, u, <<"fired", "test">>)
      BY <1>1, <2>3 DEF Begun
    <3>2. thread'[th] = [tp |-> u, todo |-> <<"fired", "test">>]
      BY <1>1, <3>1, BeginBegins
    <3>3. thread'[th].tp = u /\ 2 \in 1..Len(thread'[th].todo) /\ thread'[th].todo[2] = "test"
      BY <3>2
    <3>4. QED
      BY <3>3 DEF Attended, Has
  <2>4. QED
    BY <2>1, <2>2, <2>3 DEF Watched, NeverLeaked
<1>8. NeverLeaked'
  BY <1>7 DEF NeverLeaked, Attended, Has
<1>9. QED
  BY <1>2, <1>6, <1>8 DEF Watched

LEMMA LostKeepsWatched ==
  ASSUME Safe, Watched, NEW th \in Threads, Lost(th)
  PROVE  Watched'
<1>1. /\ thread' = [thread EXCEPT ![th] = Idle] /\ UNCHANGED tp
      /\ tp[thread[th].tp].state = "dead" /\ Typed
  BY DEF Lost, Mine, Safe
<1>2. ASSUME NEW o \in Threads, NEW u \in Transports, thread[o].tp = u,
             tp[u].state # "dead", NEW x, Has(o, x)
      PROVE  thread'[o].tp = u /\ Has(o, x)'
  BY <1>1, <1>2 DEF Has, Typed
<1>3. Counted'
  BY <1>1 DEF Watched, Counted
<1>4. Leaving'
  <2>1. ASSUME NEW u \in Transports, Open(u)', tp'[u].is_destroying
        PROVE  \E o \in Threads : thread'[o].tp = u /\ Has(o, "free")'
    <3>1. PICK o \in Threads : thread[o].tp = u /\ Has(o, "free")
      BY <1>1, <2>1 DEF Watched, Leaving, Open
    <3>2. tp[u].state # "dead"
      BY <1>1, <2>1 DEF Open
    <3>3. QED
      BY <1>2, <3>1, <3>2
  <2>2. QED
    BY <2>1 DEF Leaving, Has, Open
<1>5. NeverLeaked'
  <2>1. ASSUME NEW u \in Transports, tp'[u].state = "used", tp'[u].ref = 0, ~tp'[u].armed
        PROVE  Attended(u)'
    <3>1. Attended(u)
      BY <1>1, <2>1 DEF Watched, NeverLeaked
    <3>2. PICK o \in Threads, x \in {"rearm", "test", "free"} : thread[o].tp = u /\ Has(o, x)
      BY <3>1 DEF Attended
    <3>3. thread'[o].tp = u /\ Has(o, x)'
      BY <1>1, <1>2, <2>1, <3>2
    <3>4. QED
      BY <3>3 DEF Attended, Has
  <2>2. QED
    BY <2>1 DEF NeverLeaked, Attended, Has
<1>6. QED
  BY <1>3, <1>4, <1>5 DEF Watched

LEMMA NextKeepsWatched == Safe /\ Watched /\ CountIsPositive /\ [Next]_vars => Watched'
<1> SUFFICES ASSUME Safe, Watched, CountIsPositive, [Next]_vars PROVE Watched'
  OBVIOUS
<1>1. ASSUME NEW th \in Threads, Work(th)
      PROVE  Watched'
  BY <1>1, WorkAdvances, AdvanceKeepsWatched, LostKeepsWatched DEF Safe, Watched
<1>2. ASSUME NEW th \in Threads, Calls(th) \/ \E t \in Transports : Expire(th, t)
      PROVE  Watched'
  BY <1>2, CallsStart, StartKeepsWatched DEF Safe
<1>3. CASE UNCHANGED vars
  BY <1>3 DEF vars, Watched, Counted, Leaving, NeverLeaked, Attended, Has, Open
<1>4. QED
  BY <1>1, <1>2, <1>3 DEF Next

\* As long as pjsip_transport_dec_ref finds the reference that it asserts, a
\* transport that has been used and has no reference has its idle timer running,
\* or a thread is about to restart it or to destroy the transport: for any
\* number of threads, and however their unlocked counts interleave.
THEOREM NothingLeaks == Spec /\ []CountIsPositive => []NeverLeaked
<1>1. Watched => NeverLeaked
  BY DEF Watched
<1>2. QED
  BY <1>1, InitWatched, NextKeepsWatched, Safety, PTL DEF Spec

-----------------------------------------------------------------------------
(* The counts *)

Given == {"own", "dec"}

\* Steps that have counted a reference and not yet handed it on.
Owes(s) == ~Occurs("inc", s) /\ \E x \in Given : Occurs(x, s)

\* A function counts one reference at most, as its first step, to hand it on.
Formed(s) ==
    /\ \A i \in 2..Len(s) : s[i] # "inc"
    /\ \A i, j \in 1..Len(s) : s[i] \in Given /\ s[j] \in Given => i = j
    /\ Occurs("inc", s) => \E x \in Given : Occurs(x, s)

Debtors(t) == {th \in Threads : Busy(th) /\ thread[th].tp = t /\ Owes(thread[th].todo)}

Balance(t) == tp[t].users \in Nat /\ tp[t].ref = tp[t].users + Cardinality(Debtors(t))

Balanced ==
    /\ \A th \in Threads : Busy(th) => Formed(thread[th].todo)
    /\ \A t \in Transports : tp[t].state # "dead" => Balance(t)

-----------------------------------------------------------------------------
(* Lists of steps *)

\* What a step may push that counts nothing.
Plain == {<<>>, <<"verify">>, <<"rearm">>, <<"unlock">>, <<"lock", "destroy", "free">>}

Again == <<"inc", "dec", "unlock">>

\* Nothing pushed counts a reference or hands one on, but for a shutdown that
\* finds none: it does both.
LEMMA PushedCounts ==
  /\ Pushed = Plain \cup {Again}
  /\ \A p \in Plain : \A i \in 1..Len(p) : p[i] \notin Given \cup {"inc"}
  /\ Len(Again) = 3 /\ Again[1] = "inc" /\ Again[2] = "dec" /\ Again[3] = "unlock"
<1>1. ASSUME NEW p \in Plain, NEW i \in 1..Len(p)
      PROVE  p[i] \notin Given \cup {"inc"}
  <2>1. CASE p = <<>>
    BY <2>1
  <2>2. CASE p = <<"verify">>
    BY <2>2 DEF Given
  <2>3. CASE p = <<"rearm">>
    BY <2>3 DEF Given
  <2>4. CASE p = <<"unlock">>
    BY <2>4 DEF Given
  <2>5. CASE p = <<"lock", "destroy", "free">>
    BY <2>5 DEF Given
  <2>6. QED
    BY <2>1, <2>2, <2>3, <2>4, <2>5 DEF Plain
<1>2. QED
  BY <1>1 DEF Pushed, Plain, Again

\* What is to do after a step is what it pushed and what remained.
LEMMA OccursAfter ==
  ASSUME NEW s \in Seq(Steps), s # <<>>, NEW p \in Pushed, NEW x
  PROVE  Occurs(x, p \o Tail(s)) <=> Occurs(x, p) \/ Occurs(x, Tail(s))
<1> DEFINE r == Tail(s)
<1>1. r \in Seq(Steps) /\ Len(r) \in Nat /\ Len(p) \in Nat
  BY FirstAndRest, PushedSteps, LenProperties
<1>2. ASSUME NEW i \in 1..Len(p \o r), (p \o r)[i] = x
      PROVE  Occurs(x, p) \/ Occurs(x, r)
  <2>1. i \in 1..Len(p) + Len(r)
    BY <1>1, Remaining
  <2>2. CASE i <= Len(p)
    BY <1>1, <1>2, <2>1, <2>2, Remaining DEF Occurs
  <2>3. CASE i > Len(p)
    <3>1. i - Len(p) \in 1..Len(r) /\ r[i - Len(p)] = x
      BY <1>1, <1>2, <2>1, <2>3, Remaining
    <3>2. QED
      BY <3>1 DEF Occurs
  <2>4. QED
    BY <1>1, <2>1, <2>2, <2>3
<1>3. ASSUME NEW i \in 1..Len(p), p[i] = x
      PROVE  Occurs(x, p \o r)
  <2>1. i \in 1..Len(p \o r) /\ (p \o r)[i] = x
    BY <1>1, <1>3, Remaining
  <2>2. QED
    BY <2>1 DEF Occurs
<1>4. ASSUME NEW i \in 1..Len(r), r[i] = x
      PROVE  Occurs(x, p \o r)
  <2>1. i + Len(p) \in 1..Len(p \o r) /\ (p \o r)[i + Len(p)] = x
    BY <1>1, <1>4, Remaining
  <2>2. QED
    BY <2>1 DEF Occurs
<1>5. QED
  BY <1>2, <1>3, <1>4 DEF Occurs

\* In a formed list, what comes after the first step counts no reference, and
\* it hands none on if the first step does.
LEMMA FormedRest ==
  ASSUME NEW s \in Seq(Steps), s # <<>>, Formed(s)
  PROVE  /\ ~Occurs("inc", Tail(s))
         /\ Head(s) \in Given => \A x \in Given : ~Occurs(x, Tail(s))
<1>1. ASSUME NEW i \in 1..Len(Tail(s)), Tail(s)[i] \in Given \cup {"inc"}
      PROVE  Tail(s)[i] \in Given /\ Head(s) \notin Given
  <2>1. /\ i + 1 \in 2..Len(s) /\ Tail(s)[i] = s[i + 1] /\ i + 1 # 1
        /\ 1 \in 1..Len(s) /\ Head(s) = s[1]
    BY FirstAndRest
  <2>2. s[i + 1] # "inc"
    BY <2>1 DEF Formed
  <2>3. i + 1 \in 1..Len(s)
    BY <2>1
  <2>4. QED
    BY <1>1, <2>1, <2>2, <2>3 DEF Formed
<1>2. QED
  BY <1>1 DEF Occurs, Given

\* What is to do after a step is formed, and whether a reference is in hand
\* changes with the step.
LEMMA PlainForms ==
  ASSUME NEW s \in Seq(Steps), s # <<>>, Formed(s), NEW p \in Plain
  PROVE  LET q == p \o Tail(s)
         IN  /\ Formed(q)
             /\ Head(s) = "inc" => ~Owes(s) /\ Owes(q)
             /\ Head(s) \in Given => Owes(s) /\ ~Owes(q)
             /\ Head(s) \notin Given \cup {"inc"} => (Owes(q) <=> Owes(s))
<1> DEFINE r == Tail(s)
           q == p \o r
<1>1. p \in Pushed
  BY PushedCounts
<1>2. /\ r \in Seq(Steps) /\ Len(r) \in Nat /\ Len(p) \in Nat /\ Len(s) = Len(r) + 1
      /\ \A i \in 1..Len(r) : r[i] = s[i + 1]
  BY <1>1, FirstAndRest, PushedSteps, LenProperties
<1>3. /\ Len(q) = Len(p) + Len(r)
      /\ \A i \in 1..Len(q) : q[i] = IF i <= Len(p) THEN p[i] ELSE r[i - Len(p)]
  BY <1>1, <1>2, Remaining
<1>4. ASSUME NEW x \in Given \cup {"inc"}
      PROVE  /\ Occurs(x, q) <=> Occurs(x, r)
             /\ Occurs(x, s) <=> x = Head(s) \/ Occurs(x, r)
  <2>1. ~Occurs(x, p)
    BY PushedCounts DEF Occurs
  <2>2. QED
    BY <1>1, <2>1, OccursAfter, RestOccurs
<1>5. ASSUME NEW i \in 1..Len(q), q[i] \in Given
      PROVE  i - Len(p) + 1 \in 1..Len(s) /\ s[i - Len(p) + 1] = q[i]
  <2>1. i > Len(p)
    BY <1>2, <1>3, <1>5, PushedCounts
  <2>2. i - Len(p) \in 1..Len(r) /\ q[i] = r[i - Len(p)]
    BY <1>2, <1>3, <2>1
  <2>3. QED
    BY <1>2, <2>2
<1>6. ASSUME NEW i \in 1..Len(q), NEW j \in 1..Len(q), q[i] \in Given, q[j] \in Given
      PROVE  i = j
  <2>1. i - Len(p) + 1 = j - Len(p) + 1
    BY <1>5, <1>6 DEF Formed
  <2>2. QED
    BY <1>2, <2>1
<1>7. ~Occurs("inc", q)
  BY <1>4, FormedRest
<1>8. Formed(q)
  <2>1. \A i \in 2..Len(q) : q[i] # "inc"
    BY <1>2, <1>3, <1>7 DEF Occurs
  <2>2. QED
    BY <1>6, <1>7, <2>1 DEF Formed
<1> HIDE DEF q, r
<1>9. Owes(q) <=> \E x \in Given : Occurs(x, r)
  BY <1>4, <1>7 DEF Owes
<1>10. Owes(s) <=> Head(s) # "inc" /\ \E x \in Given : Occurs(x, s)
  BY <1>4, FormedRest DEF Owes, r
<1>11. CASE Head(s) = "inc"
  <2>1. \E x \in Given : Occurs(x, s)
    BY <1>4, <1>11 DEF Formed
  <2>2. QED
    BY <1>4, <1>8, <1>9, <1>10, <1>11, <2>1 DEF Given, q, r
<1>12. CASE Head(s) \in Given
  BY <1>4, <1>8, <1>9, <1>10, <1>12, FormedRest DEF Given, q, r
<1>13. CASE Head(s) \notin Given \cup {"inc"}
  BY <1>4, <1>8, <1>9, <1>10, <1>13 DEF q, r
<1>14. QED
  BY <1>11, <1>12, <1>13 DEF q, r

\* A shutdown with no reference in hand that counts one has none in hand yet.
LEMMA AgainForms ==
  ASSUME NEW s \in Seq(Steps), s # <<>>, Formed(s), Head(s) = "shutdown", ~Owes(s)
  PROVE  Formed(Again \o Tail(s)) /\ ~Owes(Again \o Tail(s))
<1> DEFINE r == Tail(s)
           q == Again \o r
<1>1. Again \in Pushed
  BY PushedCounts
<1>2. r \in Seq(Steps) /\ Len(r) \in Nat
  BY FirstAndRest, LenProperties
<1>3. /\ Len(q) = 3 + Len(r)
      /\ \A i \in 1..Len(q) : q[i] = IF i <= 3 THEN Again[i] ELSE r[i - 3]
  <2>1. Len(Again) = 3
    BY PushedCounts
  <2>2. /\ Len(q) = Len(Again) + Len(r)
        /\ \A i \in 1..Len(Again) + Len(r) :
              q[i] = IF i <= Len(Again) THEN Again[i] ELSE r[i - Len(Again)]
    BY <1>1, <1>2, Remaining
  <2>3. QED
    BY <2>1, <2>2
<1>4. \A x \in Given \cup {"inc"} : ~Occurs(x, r)
  BY FormedRest, RestOccurs DEF Owes, Given
<1>5. ASSUME NEW i \in 1..Len(q)
      PROVE  (q[i] = "inc" <=> i = 1) /\ (q[i] \in Given <=> i = 2)
  <2>1. CASE i > 3
    <3>1. i - 3 \in 1..Len(r) /\ q[i] = r[i - 3]
      BY <1>2, <1>3, <2>1
    <3>2. q[i] \notin Given \cup {"inc"}
      BY <1>4, <3>1 DEF Occurs
    <3>3. QED
      BY <2>1, <3>2
  <2>2. CASE i <= 3
    BY <1>2, <1>3, <2>2, PushedCounts DEF Given
  <2>3. QED
    BY <1>2, <1>3, <2>1, <2>2
<1>6. 1 \in 1..Len(q) /\ 2 \in 1..Len(q)
  BY <1>2, <1>3
<1>7. Occurs("inc", q) /\ Occurs(q[2], q) /\ q[2] \in Given
  BY <1>5, <1>6 DEF Occurs
<1>8. Formed(q)
  <2>1. \A i \in 2..Len(q) : q[i] # "inc"
    BY <1>2, <1>3, <1>5
  <2>2. QED
    BY <1>5, <1>7, <2>1 DEF Formed
<1>9. QED
  BY <1>7, <1>8 DEF Owes

\* Of the functions, only dec_ref begins with a reference in hand.
LEMMA BegunForms ==
  ASSUME NEW b \in Begun
  PROVE  Formed(b) /\ (Owes(b) <=> b = <<"dec">>)
<1>1. CASE b = <<"inc", "unlock", "own">>
  BY <1>1 DEF Formed, Owes, Occurs, Given
<1>2. CASE b = <<"test">>
  BY <1>2 DEF Formed, Owes, Occurs, Given
<1>3. CASE b = <<"inc", "own">>
  BY <1>3 DEF Formed, Owes, Occurs, Given
<1>4. CASE b = <<"dec">>
  BY <1>4 DEF Formed, Owes, Occurs, Given
<1>5. CASE b = <<"inc", "lock", "shutdown", "dec">>
  BY <1>5 DEF Formed, Owes, Occurs, Given
<1>6. CASE b = <<"lock", "shutdown">>
  BY <1>6 DEF Formed, Owes, Occurs, Given
<1>7. CASE b = <<"fired", "test">>
  BY <1>7 DEF Formed, Owes, Occurs, Given
<1>8. QED
  BY <1>1, <1>2, <1>3, <1>4, <1>5, <1>6, <1>7 DEF Begun
-----------------------------------------------------------------------------
(* What a step does to the counts *)

\* Thread th does a step, counts or gives back a reference if the step does,
\* and has p to do first after it.
Uses(th, p) ==
    LET t == thread[th].tp
        step == Head(thread[th].todo)
    IN  /\ Busy(th) /\ Then(th, p) /\ tp[t].state # "dead"
        /\ \A u \in Transports \ {t} : tp'[u] = tp[u]
        /\ tp'[t].ref = tp[t].ref + (IF step = "inc" THEN 1 ELSE IF step = "dec" THEN -1 ELSE 0)
        /\ tp'[t].users = tp[t].users + (IF step = "own" THEN 1 ELSE 0)
        /\ p \in Plain \/ (p = Again /\ step = "shutdown" /\ ~(tp[t].ref > 0))

\* The steps of functions count what they use.
LEMMA WorkUses ==
  ASSUME Typed, NEW th \in Threads, Work(th), ~Lost(th)
  PROVE  \E p \in Pushed : Uses(th, p)
<1> DEFINE t == thread[th].tp
           r == tp[t]
<1>1. ASSUME NEW step, At(th, step)
      PROVE  /\ Busy(th) /\ r.state # "dead" /\ Head(thread[th].todo) = step
             /\ t \in Transports /\ r \in Record /\ tp \in [Transports -> Record]
  BY <1>1 DEF At, Busy, Mine, Typed
<1>2. ASSUME NEW step, At(th, step), UNCHANGED tp, NEW p \in Plain, Then(th, p),
             step \notin Given \cup {"inc"}
      PROVE  \E q \in Pushed : Uses(th, q)
  BY <1>1, <1>2, PushedCounts DEF Uses, Record, Given
<1>3. ASSUME NEW step, At(th, step), NEW new, Becomes(th, new), NEW p \in Plain, Then(th, p),
             new.ref = r.ref + (IF step = "inc" THEN 1 ELSE IF step = "dec" THEN -1 ELSE 0),
             new.users = r.users + (IF step = "own" THEN 1 ELSE 0)
      PROVE  \E q \in Pushed : Uses(th, q)
  BY <1>1, <1>3, PushedCounts DEF Uses, Becomes
<1>4. CASE Inc(th)
  <2>1. At(th, "inc") /\ Becomes(th, [r EXCEPT !.ref = @ + 1, !.state = "used"])
    BY <1>4 DEF Inc, Mine
  <2>2. /\ [r EXCEPT !.ref = @ + 1, !.state = "used"].ref = r.ref + 1
        /\ [r EXCEPT !.ref = @ + 1, !.state = "used"].users = r.users + 0
    BY <1>1, <2>1 DEF Record
  <2>3. PICK p \in Plain : Then(th, p)
    BY <1>4 DEF Inc, Plain
  <2>4. QED
    BY <1>3, <2>1, <2>2, <2>3
<1>5. CASE Verify(th)
  <2>1. At(th, "verify") /\ \E p \in Plain : Then(th, p)
    BY <1>5 DEF Verify, Plain
  <2>2. CASE Becomes(th, Stopped(r))
    <3>1. Stopped(r).ref = r.ref + 0 /\ Stopped(r).users = r.users + 0
      BY <1>1, <2>1 DEF Record, Stopped
    <3>2. QED
      BY <1>3, <2>1, <2>2, <3>1
  <2>3. QED
    BY <1>2, <1>5, <2>1, <2>2 DEF Verify, Mine, Given
<1>6. CASE Dec(th)
  <2>1. At(th, "dec") /\ Becomes(th, [r EXCEPT !.ref = @ - 1])
    BY <1>6 DEF Dec, Mine
  <2>2. [r EXCEPT !.ref = @ - 1].ref = r.ref + -1 /\ [r EXCEPT !.ref = @ - 1].users = r.users + 0
    BY <1>1, <2>1 DEF Record
  <2>3. PICK p \in Plain : Then(th, p)
    BY <1>6 DEF Dec, Plain
  <2>4. QED
    BY <1>3, <2>1, <2>2, <2>3
<1>7. CASE Rearm(th)
  <2>1. At(th, "rearm") /\ \E p \in Plain : Then(th, p)
    BY <1>7 DEF Rearm, Plain
  <2> DEFINE new == [r EXCEPT !.id = TRUE, !.armed = TRUE]
  <2>2. CASE Becomes(th, new)
    <3>1. new.ref = r.ref + 0 /\ new.users = r.users + 0
      BY <1>1, <2>1 DEF Record
    <3> HIDE DEF new
    <3>2. QED
      BY <1>3, <2>1, <2>2, <3>1
  <2>3. QED
    BY <1>2, <1>7, <2>1, <2>2 DEF Rearm, Mine, Given
<1>8. CASE Own(th)
  <2>1. /\ At(th, "own") /\ Becomes(th, [r EXCEPT !.users = @ + 1])
        /\ \E p \in Plain : Then(th, p)
    BY <1>8 DEF Own, Mine, Plain
  <2>2. [r EXCEPT !.users = @ + 1].ref = r.ref + 0 /\ [r EXCEPT !.users = @ + 1].users = r.users + 1
    BY <1>1, <2>1 DEF Record
  <2>3. QED
    BY <1>3, <2>1, <2>2
<1>9. CASE Lock(th)
  BY <1>2, <1>9 DEF Lock, Plain, Given
<1>10. CASE Shutdown(th)
  <2> DEFINE new == [r EXCEPT !.is_shutdown = TRUE]
  <2>1. /\ At(th, "shutdown") /\ Becomes(th, new)
        /\ \/ \E p \in Plain : Then(th, p)
           \/ Then(th, Again) /\ ~(r.ref > 0)
    BY <1>10 DEF Shutdown, Mine, Plain, Again
  <2>2. new.ref = r.ref + 0 /\ new.users = r.users + 0
    BY <1>1, <2>1 DEF Record
  <2> HIDE DEF new
  <2>3. CASE \E p \in Plain : Then(th, p)
    BY <1>3, <2>1, <2>2, <2>3
  <2>4. CASE Then(th, Again) /\ ~(r.ref > 0)
    <3>1. Uses(th, Again)
      BY <1>1, <2>1, <2>2, <2>4 DEF Uses, Becomes
    <3>2. QED
      BY <3>1, PushedCounts
  <2>5. QED
    BY <2>1, <2>3, <2>4
<1>11. CASE Unlock(th)
  BY <1>2, <1>11 DEF Unlock, Plain, Given
<1>12. CASE Fired(th)
  <2> DEFINE new == [r EXCEPT !.id = FALSE]
  <2>1. At(th, "fired") /\ Becomes(th, new) /\ \E p \in Plain : Then(th, p)
    BY <1>12 DEF Fired, Mine, Plain
  <2>2. new.ref = r.ref + 0 /\ new.users = r.users + 0
    BY <1>1, <2>1 DEF Record
  <2> HIDE DEF new
  <2>3. QED
    BY <1>3, <2>1, <2>2
<1>13. CASE Test(th)
  <2>1. PICK p \in Plain : Then(th, p)
    BY <1>13 DEF Test, Plain
  <2>2. QED
    BY <1>2, <1>13, <2>1 DEF Test, Given
<1>14. CASE Destroy(th)
  <2> DEFINE new == [Stopped(r) EXCEPT !.is_destroying = TRUE]
  <2>1. At(th, "destroy") /\ Becomes(th, new) /\ \E p \in Plain : Then(th, p)
    BY <1>14 DEF Destroy, Mine, Plain
  <2>2. new.ref = r.ref + 0 /\ new.users = r.users + 0
    BY <1>1, <2>1 DEF Record, Stopped
  <2> HIDE DEF new
  <2>3. QED
    BY <1>3, <2>1, <2>2
<1>15. CASE Free(th)
  <2> DEFINE new == [r EXCEPT !.state = "dead"]
  <2>1. At(th, "free") /\ Becomes(th, new) /\ \E p \in Plain : Then(th, p)
    BY <1>15 DEF Free, Mine, Plain
  <2>2. new.ref = r.ref + 0 /\ new.users = r.users + 0
    BY <1>1, <2>1 DEF Record
  <2> HIDE DEF new
  <2>3. QED
    BY <1>3, <2>1, <2>2
<1>16. QED
  BY <1>4, <1>5, <1>6, <1>7, <1>8, <1>9, <1>10, <1>11, <1>12, <1>13, <1>14, <1>15 DEF Work

-----------------------------------------------------------------------------
(* The balance *)

\* Nothing is counted at first, and nothing is in hand.
LEMMA InitBalanced == Init => Balanced
<1> SUFFICES ASSUME Init PROVE Balanced
  OBVIOUS
<1>1. \A th \in Threads : ~Busy(th)
  BY DEF Init, Busy
<1>2. ASSUME NEW t \in Transports
      PROVE  tp[t].ref = 0 /\ tp[t].users = 0
  <2>1. PICK a \in Addrs : tp[t] = [state |-> "unborn", key |-> a, ref |-> 0, users |-> 0,
                                    is_shutdown |-> FALSE, is_destroying |-> FALSE,
                                    id |-> FALSE, armed |-> FALSE]
    BY DEF Init
  <2>2. QED
    BY <2>1
<1>3. \A t \in Transports : Debtors(t) = {}
  BY <1>1 DEF Debtors
<1>4. Cardinality({}) = 0
  BY FS_EmptySet
<1>5. ASSUME NEW t \in Transports
      PROVE  Balance(t)
  <2>1. Cardinality(Debtors(t)) = 0
    BY <1>3, <1>4
  <2>2. QED
    BY <1>2, <2>1 DEF Balance
<1>6. QED
  BY <1>1, <1>5 DEF Balanced

\* The threads are finitely many, and so are the references in their hands.
LEMMA DebtorsCounted ==
  ASSUME NEW t
  PROVE  IsFiniteSet(Debtors(t)) /\ Cardinality(Debtors(t)) \in Nat
<1>1. Debtors(t) \subseteq Threads
  BY DEF Debtors
<1>2. QED
  BY <1>1, ThreadsAssumption, FS_Subset, FS_CardinalityType

\* A thread goes on, at the same transport, with list q: what it has in hand is
\* what q says.
LEMMA DebtorsAfter ==
  ASSUME Typed, NEW th \in Threads, Busy(th), NEW p \in Pushed, Then(th, p),
         NEW t \in Transports, t = thread[th].tp
  PROVE  LET q == p \o Tail(thread[th].todo)
         IN  /\ th \in Debtors(t) <=> Owes(thread[th].todo)
             /\ Owes(q) => Debtors(t)' = Debtors(t) \cup {th}
             /\ ~Owes(q) => Debtors(t)' = Debtors(t) \ {th}
             /\ \A u \in Transports \ {t} : Debtors(u)' = Debtors(u)
             /\ Formed(q) /\ Busy(th)' => Formed(thread'[th].todo)
             /\ \A o \in Threads \ {th} : thread'[o] = thread[o]
<1> DEFINE q == p \o Tail(thread[th].todo)
<1>1. /\ \A o \in Threads \ {th} : thread'[o] = thread[o]
      /\ q = <<>> => thread'[th] = Idle
      /\ q # <<>> => thread'[th] = [tp |-> t, todo |-> q]
  BY ThenGoesOn
<1> HIDE DEF q
<1>3. t # None
  BY NoneAssumption
<1>4. q = <<>> => ~Owes(q)
  BY DEF Owes, Occurs
<1>5. /\ Busy(th)' <=> q # <<>>
      /\ q # <<>> => thread'[th].tp = t /\ thread'[th].todo = q
  BY <1>1, <1>3 DEF Busy, Idle, Absent
<1>6. \A o \in Threads \ {th} : Busy(o)' <=> Busy(o)
  BY <1>1 DEF Busy
<1>7. \A u : Debtors(u)' = {o \in Threads : Busy(o)' /\ thread'[o].tp = u /\ Owes(thread'[o].todo)}
  BY DEF Debtors, Owes, Occurs
<1>8. /\ Owes(q) => Debtors(t)' = Debtors(t) \cup {th}
      /\ ~Owes(q) => Debtors(t)' = Debtors(t) \ {th}
      /\ \A u \in Transports \ {t} : Debtors(u)' = Debtors(u)
  BY <1>1, <1>4, <1>5, <1>6, <1>7 DEF Debtors
<1>9. th \in Debtors(t) <=> Owes(thread[th].todo)
  BY DEF Debtors
<1>10. QED
  BY <1>1, <1>5, <1>8, <1>9 DEF q

\* The steps of the functions under way keep the balance.
LEMMA UseKeepsBalanced ==
  ASSUME Typed, Balanced, NEW th \in Threads, NEW p \in Pushed, Uses(th, p)
  PROVE  Balanced'
<1> PICK t \in Transports : t = thread[th].tp
  BY DEF Uses, Typed
<1> DEFINE s == thread[th].todo
           q == p \o Tail(s)
<1>1. /\ Busy(th) /\ Then(th, p) /\ tp[t].state # "dead"
      /\ s \in Seq(Steps) /\ s # <<>> /\ tp[t] \in Record
  BY DEF Uses, Typed
<1>2. /\ th \in Debtors(t) <=> Owes(s)
      /\ Owes(q) => Debtors(t)' = Debtors(t) \cup {th}
      /\ ~Owes(q) => Debtors(t)' = Debtors(t) \ {th}
      /\ \A u \in Transports \ {t} : Debtors(u)' = Debtors(u)
      /\ Formed(q) /\ Busy(th)' => Formed(thread'[th].todo)
      /\ \A o \in Threads \ {th} : thread'[o] = thread[o]
  BY <1>1, DebtorsAfter
<1>3. Formed(s) /\ Balance(t)
  BY <1>1 DEF Balanced
<1>4. IsFiniteSet(Debtors(t)) /\ Cardinality(Debtors(t)) \in Nat
  BY DebtorsCounted
<1>5. /\ \A u \in Transports \ {t} : tp'[u] = tp[u]
      /\ tp'[t].ref = tp[t].ref + (IF Head(s) = "inc" THEN 1 ELSE IF Head(s) = "dec" THEN -1 ELSE 0)
      /\ tp'[t].users = tp[t].users + (IF Head(s) = "own" THEN 1 ELSE 0)
      /\ p \in Plain \/ (p = Again /\ Head(s) = "shutdown" /\ ~(tp[t].ref > 0))
  BY DEF Uses
<1>6. Owes(s) => tp[t].ref > 0
  <2>1. ASSUME Owes(s)
        PROVE  Cardinality(Debtors(t)) # 0
    BY <1>2, <1>4, <2>1, FS_EmptySet
  <2>2. QED
    BY <1>3, <1>4, <2>1 DEF Balance
<1>7. /\ Formed(q)
      /\ Head(s) = "inc" => ~Owes(s) /\ Owes(q)
      /\ Head(s) \in Given => Owes(s) /\ ~Owes(q)
      /\ Head(s) \notin Given \cup {"inc"} => (Owes(q) <=> Owes(s))
  <2>1. CASE p \in Plain
    BY <1>1, <1>3, <2>1, PlainForms
  <2>2. CASE p = Again /\ Head(s) = "shutdown" /\ ~(tp[t].ref > 0)
    BY <1>1, <1>3, <1>6, <2>2, AgainForms DEF Given
  <2>3. QED
    BY <1>5, <2>1, <2>2
<1> HIDE DEF q
<1>8. Balance(t)'
  <2>1. CASE Head(s) = "inc"
    <3>1. Cardinality(Debtors(t)') = Cardinality(Debtors(t)) + 1
      BY <1>2, <1>4, <1>7, <2>1, FS_AddElement
    <3>2. QED
      BY <1>3, <1>4, <1>5, <2>1, <3>1 DEF Balance
  <2>2. CASE Head(s) \in Given
    <3>1. Cardinality(Debtors(t)') = Cardinality(Debtors(t)) - 1
      BY <1>2, <1>4, <1>7, <2>2, FS_RemoveElement
    <3>2. QED
      BY <1>3, <1>4, <1>5, <2>2, <3>1 DEF Balance, Given
  <2>3. CASE Head(s) \notin Given \cup {"inc"}
    <3>1. Debtors(t)' = Debtors(t)
      BY <1>2, <1>7, <2>3
    <3>2. QED
      BY <1>3, <1>4, <1>5, <2>3, <3>1 DEF Balance, Given
  <2>4. QED
    BY <2>1, <2>2, <2>3
<1>9. ASSUME NEW u \in Transports, tp'[u].state # "dead"
      PROVE  Balance(u)'
  BY <1>2, <1>5, <1>8, <1>9 DEF Balanced, Balance
<1>10. ASSUME NEW o \in Threads, Busy(o)'
       PROVE  Formed(thread'[o].todo)
  BY <1>2, <1>7, <1>10 DEF Balanced, Busy
<1>11. QED
  BY <1>9, <1>10 DEF Balanced, Formed, Occurs


\* Thread th, at rest, begins a function with b at transport t; dec_ref is for
\* a reference that an object had.
Takes(th, t, b) ==
    /\ thread[th] = Idle /\ Begin(th, t, b)
    /\ \A u \in Transports :
          tp'[u].users = tp[u].users - (IF b = <<"dec">> /\ u = t THEN 1 ELSE 0)
    /\ b = <<"dec">> => tp[t].users > 0

SameUsers == \A u \in Transports : tp'[u].users = tp[u].users

\* No call, and not the timer, takes a reference that is not there.
LEMMA CallsTake ==
  ASSUME Typed, TableAlive, NEW th \in Threads,
         Calls(th) \/ \E t \in Transports : Expire(th, t)
  PROVE  \/ UNCHANGED thread /\ SameUsers
         \/ \E t \in Transports, b \in Begun : Takes(th, t, b)
<1>1. tp \in [Transports -> Record]
  BY DEF Typed
<1>2. ASSUME SameUsers, thread[th] = Idle, NEW t \in Transports, NEW b \in Begun, Begin(th, t, b),
             b # <<"dec">>
      PROVE  Takes(th, t, b)
  BY <1>1, <1>2 DEF SameUsers, Takes, Record
<1>3. \A t \in Transports, a \in Addrs : Create(t, a) => SameUsers
  BY <1>1 DEF Create, SameUsers, Record
<1>4. UNCHANGED tp => SameUsers
  BY DEF SameUsers
<1>5. /\ Begun \subseteq Seq(Steps)
      /\ \A b \in {<<"inc", "unlock", "own">>, <<"test">>, <<"inc", "own">>, <<"lock", "shutdown">>,
                   <<"inc", "lock", "shutdown", "dec">>, <<"fired", "test">>} :
            b \in Begun /\ b # <<"dec">>
  BY BegunSteps DEF Begun
<1>6. ASSUME NEW a \in Addrs, Acquire(th, a)
      PROVE  \E t \in Transports, b \in Begun : Takes(th, t, b)
  <2>1. PICK t \in Transports : SameUsers /\ Begin(th, t, <<"inc", "unlock", "own">>)
    <3>1. CASE Found(a)
      BY <1>4, <1>6, <3>1 DEF Acquire, Found, Typed
    <3>2. CASE ~Found(a)
      BY <1>3, <1>6, <3>2 DEF Acquire
    <3>3. QED
      BY <3>1, <3>2
  <2>2. QED
    BY <1>2, <1>5, <1>6, <2>1 DEF Acquire, Resting
<1>7. ASSUME NEW a \in Addrs, AcquireFails(th, a)
      PROVE  UNCHANGED thread /\ SameUsers
  BY <1>1, <1>7 DEF AcquireFails, SameUsers, Record
<1>8. ASSUME NEW a \in Addrs, Accept(th, a)
      PROVE  \/ UNCHANGED thread /\ SameUsers
             \/ \E t \in Transports, b \in Begun : Takes(th, t, b)
  <2>1. PICK t \in Transports : Create(t, a) /\ (UNCHANGED thread \/ Begin(th, t, <<"test">>))
    BY <1>8 DEF Accept
  <2>2. QED
    BY <1>2, <1>3, <1>5, <1>8, <2>1 DEF Accept, Resting
<1>9. ASSUME NEW t \in Transports, AddRef(th, t)
      PROVE  \E b \in Begun : Takes(th, t, b)
  BY <1>2, <1>4, <1>5, <1>9 DEF AddRef, Resting
<1>10. ASSUME NEW t \in Transports, DecRef(th, t)
       PROVE  \E b \in Begun : Takes(th, t, b)
  <2>1. /\ thread[th] = Idle /\ Begin(th, t, <<"dec">>) /\ tp[t].users > 0
        /\ tp' = [tp EXCEPT ![t].users = @ - 1]
    BY <1>10 DEF DecRef, Resting
  <2>2. tp'[t].users = tp[t].users - 1 /\ \A u \in Transports \ {t} : tp'[u] = tp[u]
    BY <1>1, <2>1 DEF Record
  <2>3. Takes(th, t, <<"dec">>)
    BY <1>1, <2>1, <2>2 DEF Takes, Record
  <2>4. QED
    BY <2>3 DEF Begun
<1>11. ASSUME NEW t \in Transports, Disconnect(th, t)
       PROVE  \E b \in Begun : Takes(th, t, b)
  BY <1>2, <1>4, <1>5, <1>11 DEF Disconnect, Resting, Broken
<1>12. ASSUME NEW t \in Transports, Close(th, t)
       PROVE  \E b \in Begun : Takes(th, t, b)
  BY <1>2, <1>4, <1>5, <1>12 DEF Close, Resting
<1>13. ASSUME NEW t \in Transports, Expire(th, t)
       PROVE  \E b \in Begun : Takes(th, t, b)
  <2>1. SameUsers
    BY <1>1, <1>13 DEF Expire, SameUsers, Record
  <2>2. QED
    BY <1>2, <1>5, <1>13, <2>1 DEF Expire, Resting
<1>14. QED
  BY <1>6, <1>7, <1>8, <1>9, <1>10, <1>11, <1>12, <1>13 DEF Calls

\* So do the calls and the timer, which begin a function.
LEMMA StartKeepsBalanced ==
  ASSUME Typed, Balanced, NEW th \in Threads, Starts(th),
         \/ UNCHANGED thread /\ SameUsers
         \/ \E t \in Transports, b \in Begun : Takes(th, t, b)
  PROVE  Balanced'
<1>1. ASSUME NEW u \in Transports, tp'[u].state # "dead"
      PROVE  Balance(u) /\ tp'[u].ref = tp[u].ref /\ tp[u] \in Record
  BY <1>1 DEF Starts, Kept, Created, Failed, Balanced, Typed
<1>2. CASE UNCHANGED thread /\ SameUsers
  <2>1. \A u \in Transports : Debtors(u)' = Debtors(u)
    BY <1>2 DEF Debtors, Busy, Owes, Occurs
  <2>2. \A u \in Transports : tp'[u].state # "dead" => Balance(u)'
    BY <1>1, <1>2, <2>1 DEF Balance, SameUsers
  <2>3. QED
    BY <1>2, <2>2 DEF Balanced, Busy, Formed, Occurs
<1>3. ASSUME NEW t \in Transports, NEW b \in Begun, Takes(th, t, b)
      PROVE  Balanced'
  <2>1. /\ \A o \in Threads \ {th} : thread'[o] = thread[o]
        /\ thread'[th] = [tp |-> t, todo |-> b] /\ ~Busy(th)
    BY <1>3, BeginBegins DEF Takes, Busy
  <2>2. Formed(b) /\ (Owes(b) <=> b = <<"dec">>)
    BY BegunForms
  <2>3. \A o \in Threads : Busy(o)' => Formed(thread'[o].todo)
    BY <2>1, <2>2 DEF Balanced, Busy
  <2>4. Busy(th)' /\ thread'[th].tp = t /\ thread'[th].todo = b
    BY <2>1, NoneAssumption DEF Busy, Idle, Absent
  <2>5. \A u : Debtors(u)' = {o \in Threads : /\ Busy(o)' /\ thread'[o].tp = u
                                             /\ Owes(thread'[o].todo)}
    BY DEF Debtors, Owes, Occurs
  <2>6. \A o \in Threads \ {th} : Busy(o)' <=> Busy(o)
    BY <2>1 DEF Busy
  <2>7. \A u \in Transports : Debtors(u)' = IF b = <<"dec">> /\ u = t THEN Debtors(u) \cup {th}
                                            ELSE Debtors(u)
    BY <2>1, <2>2, <2>4, <2>5, <2>6 DEF Debtors
  <2>8. ASSUME NEW u \in Transports, tp'[u].state # "dead"
        PROVE  Balance(u)'
    <3>1. Balance(u) /\ tp'[u].ref = tp[u].ref
      BY <1>1, <2>8
    <3>2. IsFiniteSet(Debtors(u)) /\ Cardinality(Debtors(u)) \in Nat
      BY DebtorsCounted
    <3>3. CASE b = <<"dec">> /\ u = t
      <4>1. th \notin Debtors(u) /\ Debtors(u)' = Debtors(u) \cup {th}
        BY <2>1, <2>7, <3>3 DEF Debtors
      <4>2. Cardinality(Debtors(u)') = Cardinality(Debtors(u)) + 1
        BY <3>2, <4>1, FS_AddElement
      <4>3. tp[u].users > 0 /\ tp'[u].users = tp[u].users - 1
        BY <1>3, <3>3 DEF Takes
      <4>4. QED
        BY <3>1, <3>2, <4>2, <4>3 DEF Balance
    <3>4. CASE ~(b = <<"dec">> /\ u = t)
      <4>1. tp'[u].users = tp[u].users - 0
        BY <1>3, <3>4 DEF Takes
      <4>2. Debtors(u)' = Debtors(u)
        BY <2>7, <3>4
      <4>3. QED
        BY <3>1, <3>2, <4>1, <4>2 DEF Balance
    <3>5. QED
      BY <3>3, <3>4
  <2>9. QED
    BY <2>3, <2>8 DEF Balanced, Formed, Occurs
<1>4. QED
  BY <1>2, <1>3

\* So does the notice of a lost connection.
LEMMA LostKeepsBalanced ==
  ASSUME Typed, Balanced, NEW th \in Threads, Lost(th)
  PROVE  Balanced'
<1>1. /\ thread' = [thread EXCEPT ![th] = Idle] /\ UNCHANGED tp
      /\ tp[thread[th].tp].state = "dead"
  BY DEF Lost, Mine
<1>2. \A o \in Threads \ {th} : thread'[o] = thread[o]
  BY <1>1 DEF Typed
<1>3. ~Busy(th)'
  BY <1>1 DEF Typed, Busy
<1>4. \A o \in Threads \ {th} : Busy(o)' <=> Busy(o)
  BY <1>2 DEF Busy
<1>5. \A u : Debtors(u)' = {o \in Threads : Busy(o)' /\ thread'[o].tp = u /\ Owes(thread'[o].todo)}
  BY DEF Debtors, Owes, Occurs
<1>6. \A u \in Transports : tp[u].state # "dead" => Debtors(u)' = Debtors(u)
  BY <1>1, <1>2, <1>3, <1>4, <1>5 DEF Debtors
<1>7. \A u \in Transports : tp'[u].state # "dead" => Balance(u)'
  BY <1>1, <1>6 DEF Balanced, Balance
<1>8. \A o \in Threads : Busy(o)' => Formed(thread'[o].todo)
  BY <1>2, <1>3, <1>4 DEF Balanced
<1>9. QED
  BY <1>7, <1>8 DEF Balanced, Formed, Occurs

\* Each step keeps the balance.
LEMMA NextKeepsBalanced == Safe /\ Balanced /\ [Next]_vars => Balanced'
<1> SUFFICES ASSUME Safe, Balanced, [Next]_vars PROVE Balanced'
  OBVIOUS
<1>1. ASSUME NEW th \in Threads, Work(th)
      PROVE  Balanced'
  BY <1>1, WorkUses, UseKeepsBalanced, LostKeepsBalanced DEF Safe
<1>2. ASSUME NEW th \in Threads, Calls(th) \/ \E t \in Transports : Expire(th, t)
      PROVE  Balanced'
  BY <1>2, CallsStart, CallsTake, StartKeepsBalanced DEF Safe
<1>3. CASE UNCHANGED vars
  <2>1. UNCHANGED <<tp, thread>>
    BY <1>3 DEF vars
  <2>2. \A u : Debtors(u)' = Debtors(u)
    BY <2>1 DEF Debtors, Busy, Owes, Occurs
  <2>3. \A u : Balance(u)' <=> Balance(u)
    BY <2>1, <2>2 DEF Balance
  <2>4. QED
    BY <2>1, <2>3 DEF Balanced, Busy, Formed, Occurs
<1>4. QED
  BY <1>1, <1>2, <1>3 DEF Next

\* Who gives back a reference had one: the count is that of the objects, and of
\* the threads with a reference in hand.
LEMMA BalanceIsPositive ==
  ASSUME Typed, Balanced
  PROVE  CountIsPositive
<1> SUFFICES ASSUME NEW th \in Threads, At(th, "dec")
             PROVE  Mine(th).ref > 0
  BY DEF CountIsPositive
<1> DEFINE s == thread[th].todo
           t == thread[th].tp
<1>1. Busy(th) /\ Head(s) = "dec" /\ tp[t].state # "dead" /\ t \in Transports
  BY DEF At, Busy, Mine, Typed
<1>2. s \in Seq(Steps) /\ s # <<>> /\ Formed(s) /\ Balance(t)
  BY <1>1 DEF Typed, Balanced
<1>3. Owes(s)
  BY <1>1, <1>2, PlainForms DEF Plain, Given
<1>4. th \in Debtors(t) /\ IsFiniteSet(Debtors(t)) /\ Cardinality(Debtors(t)) \in Nat
  BY <1>1, <1>3, DebtorsCounted DEF Debtors
<1>5. Cardinality(Debtors(t)) # 0
  BY <1>4, FS_EmptySet
<1>6. QED
  BY <1>2, <1>4, <1>5 DEF Balance, Mine

-----------------------------------------------------------------------------
(* The theorems *)

\* A transport's ref_cnt is the number of the references held, although it is
\* counted without a lock: for any number of threads.
THEOREM CountsBalance == Spec => []Balanced
  BY InitBalanced, NextKeepsBalanced, Safety, PTL DEF Spec

\* pj_assert(pj_atomic_get(tp->ref_cnt) > 0) of pjsip_transport_dec_ref holds,
\* as no object gives back what it does not hold.
THEOREM CountStaysPositive == Spec => []CountIsPositive
<1>1. Safe /\ Balanced => CountIsPositive
  BY BalanceIsPositive DEF Safe
<1>2. QED
  BY <1>1, CountsBalance, Safety, PTL

\* A transport that has been used and has no reference has its idle timer
\* running, or a thread is about to restart it or to destroy the transport: with
\* any number of threads, and however their unlocked counts interleave.
THEOREM NeverLeaks == Spec => []NeverLeaked
  BY CountStaysPositive, NothingLeaks, PTL

-----------------------------------------------------------------------------
(* One thread *)

\* At a transport that no thread is at: the count is that of its objects, and
\* the idle timer runs exactly when there is none.
Tidy(r) ==
    /\ r.ref = r.users /\ r.users >= 0
    /\ r.armed <=> r.state = "used" /\ r.ref = 0
    /\ r.id = r.armed
    /\ r.users > 0 => r.state = "used"
    /\ r.state \in {"new", "used"} => ~r.is_destroying

\* What a thread may have to do: count a reference, look at the idle timer
\* after the first, hand the reference on or give it back, ...
Counting == {<<"inc", "unlock", "own">>, <<"inc", "own">>, <<"inc", "lock", "shutdown", "dec">>}

Verifying == {<<"verify", "unlock", "own">>, <<"verify", "own">>,
              <<"verify", "lock", "shutdown", "dec">>}

Holding == {<<"unlock", "own">>, <<"own">>, <<"lock", "shutdown", "dec">>,
            <<"shutdown", "dec">>, <<"unlock", "dec">>, <<"dec">>}

\* ... shut down what an object holds, and destroy what none does.
Closing == {<<"lock", "shutdown">>, <<"shutdown">>, <<"unlock">>}

Ending == {<<"test">>, <<"lock", "destroy", "free">>, <<"destroy", "free">>, <<"free">>}

\* What holds of the transport of the one thread that runs when it has s to do.
Amid(r, s) ==
    /\ r.state \in {"new", "used"} /\ r.users >= 0
    /\ s # <<"free">> => ~r.is_destroying
    /\ \/ s \in Counting /\ Tidy(r)
       \/ s \in Verifying /\ r.state = "used" /\ r.ref = 1 /\ r.users = 0 /\ r.id = r.armed
       \/ s \in Holding /\ r.state = "used" /\ r.ref = r.users + 1 /\ ~r.armed /\ ~r.id
       \/ s = <<"rearm">> /\ r.state = "used" /\ r.ref = 0 /\ r.users = 0 /\ ~r.armed /\ ~r.id
       \/ s \in Closing /\ Tidy(r) /\ r.users > 0
       \/ s = <<"fired", "test">> /\ r.ref = 0 /\ r.users = 0 /\ ~r.armed
       \/ s \in Ending /\ r.ref = 0 /\ r.users = 0 /\ ~r.armed /\ ~r.id

\* The application starts no more than one thread.
One == \A th, o \in Threads : thread[th] # Absent /\ thread[o] # Absent => th = o

Solo ==
    /\ \A th \in Threads : Busy(th) => Amid(Mine(th), thread[th].todo)
    /\ \A t \in Transports :
          (\A th \in Threads : Busy(th) => thread[th].tp # t) => Tidy(tp[t])

\* What a thread that has s to do does with its transport: it has p to do
\* before the rest of s then, and leaves the transport as it should be.
Leaves(new, q) == IF q = <<>> THEN Tidy(new) ELSE Amid(new, q)

\* A list is its first step and then the others.
LEMMA HeadBefore ==
  ASSUME NEW q \in Seq(Steps), q # <<>>
  PROVE  <<Head(q)>> \o Tail(q) = q
<1> DEFINE h == <<Head(q)>>
           r == Tail(q)
<1>1. /\ Head(q) \in Steps /\ r \in Seq(Steps) /\ Len(q) \in Nat /\ Len(q) = Len(r) + 1
      /\ Head(q) = q[1] /\ \A i \in 1..Len(q) - 1 : r[i] = q[i + 1]
  BY FirstAndRest
<1>2. h \in Seq(Steps) /\ Len(h) = 1 /\ h[1] = q[1]
  BY <1>1
<1> HIDE DEF h, r
<1>3. /\ h \o r \in Seq(Steps) /\ Len(h \o r) = 1 + Len(r)
      /\ \A i \in 1..1 + Len(r) : (h \o r)[i] = IF i <= 1 THEN h[i] ELSE r[i - 1]
  <2>1. h \in Seq(Steps) /\ r \in Seq(Steps)
    BY <1>1, <1>2
  <2>2. /\ h \o r \in Seq(Steps) /\ Len(h \o r) = Len(h) + Len(r)
        /\ \A i \in 1..Len(h) + Len(r) : (h \o r)[i] = IF i <= Len(h) THEN h[i] ELSE r[i - Len(h)]
    BY <2>1, ConcatProperties
  <2>3. QED
    BY <1>2, <2>2
<1>4. Len(h \o r) = Len(q)
  BY <1>1, <1>3
<1>5. \A i \in 1..Len(h \o r) : (h \o r)[i] = q[i]
  <2>1. ASSUME NEW i \in 1..1 + Len(r)
        PROVE  (h \o r)[i] = q[i]
    <3>1. CASE i = 1
      BY <1>2, <1>3, <3>1
    <3>2. CASE i # 1
      <4>1. i - 1 \in 1..Len(q) - 1 /\ i - 1 + 1 = i /\ ~(i <= 1)
        BY <1>1, <3>2
      <4>2. r[i - 1] = q[i]
        BY <1>1, <4>1
      <4>3. QED
        BY <1>3, <4>1, <4>2
    <3>3. QED
      BY <3>1, <3>2
  <2>2. QED
    BY <1>3, <2>1
<1>6. h \o r = q
  BY <1>3, <1>4, <1>5, SeqEqual
<1>7. QED
  BY <1>6 DEF h, r

\* The lists go on with one another.
LEMMA ListsGoOn ==
  /\ \A s \in Counting : /\ Head(s) = "inc" /\ <<"verify">> \o Tail(s) \in Verifying
                         /\ <<>> \o Tail(s) \in Holding
  /\ \A s \in Verifying : Head(s) = "verify" /\ <<>> \o Tail(s) \in Holding
  /\ \A s \in Holding :
        /\ Head(s) \in {"unlock", "lock", "shutdown", "own", "dec"}
        /\ Head(s) \in {"unlock", "lock"} => <<>> \o Tail(s) \in Holding
        /\ Head(s) = "shutdown" => <<"unlock">> \o Tail(s) \in Holding
        /\ Head(s) = "own" => <<>> \o Tail(s) = <<>>
        /\ Head(s) = "dec" => <<>> \o Tail(s) = <<>> /\ <<"rearm">> \o Tail(s) = <<"rearm">>
  /\ \A s \in Closing :
        /\ Head(s) \in {"lock", "shutdown", "unlock"}
        /\ Head(s) = "lock" => <<>> \o Tail(s) \in Closing
        /\ Head(s) = "shutdown" => <<"unlock">> \o Tail(s) \in Closing
        /\ Head(s) = "unlock" => <<>> \o Tail(s) = <<>>
  /\ \A s \in Ending :
        /\ Head(s) \in {"test", "lock", "destroy", "free"}
        /\ Head(s) = "test" => <<"lock", "destroy", "free">> \o Tail(s) \in Ending \ {<<"free">>}
        /\ Head(s) = "lock" => <<>> \o Tail(s) \in Ending \ {<<"free">>}
        /\ Head(s) = "destroy" => <<>> \o Tail(s) = <<"free">>
        /\ Head(s) = "free" <=> s = <<"free">>
        /\ Head(s) = "free" => <<>> \o Tail(s) = <<>>
  /\ Head(<<"rearm">>) = "rearm" /\ <<>> \o Tail(<<"rearm">>) = <<>>
  /\ Head(<<"fired", "test">>) = "fired" /\ <<>> \o Tail(<<"fired", "test">>) = <<"test">>
<1>1. \A x : Head(<<x>>) = x /\ Tail(<<x>>) = <<>>
  OBVIOUS
<1>2. \A x, y : Head(<<x, y>>) = x /\ Tail(<<x, y>>) = <<y>>
  OBVIOUS
<1>3. \A x, y, z : Head(<<x, y, z>>) = x /\ Tail(<<x, y, z>>) = <<y, z>>
  OBVIOUS
<1>4. \A x, y, z, w : Head(<<x, y, z, w>>) = x /\ Tail(<<x, y, z, w>>) = <<y, z, w>>
  OBVIOUS
<1>5. \A x, y, z : /\ <<>> \o <<>> = <<>> /\ <<>> \o <<x>> = <<x>> /\ <<>> \o <<x, y>> = <<x, y>>
                   /\ <<>> \o <<x, y, z>> = <<x, y, z>>
  OBVIOUS
<1>6. /\ <<"verify">> \o <<"unlock", "own">> = <<"verify", "unlock", "own">>
      /\ <<"verify">> \o <<"own">> = <<"verify", "own">>
      /\ <<"verify">> \o <<"lock", "shutdown", "dec">> = <<"verify", "lock", "shutdown", "dec">>
      /\ <<"unlock">> \o <<"dec">> = <<"unlock", "dec">>
  <2>1. /\ <<"verify", "unlock", "own">> \in Seq(Steps) /\ <<"verify", "own">> \in Seq(Steps)
        /\ <<"verify", "lock", "shutdown", "dec">> \in Seq(Steps)
        /\ <<"unlock", "dec">> \in Seq(Steps)
    BY DEF Steps
  <2>2. <<"verify">> \o <<"unlock", "own">> = <<"verify", "unlock", "own">>
    <3> DEFINE q == <<"verify", "unlock", "own">>
    <3>1. q \in Seq(Steps) /\ q # <<>> /\ Head(q) = "verify" /\ Tail(q) = <<"unlock", "own">>
      BY <1>3, <2>1
    <3> HIDE DEF q
    <3>2. <<Head(q)>> \o Tail(q) = q
      BY <3>1, HeadBefore
    <3>3. QED
      BY <3>1, <3>2 DEF q
  <2>3. <<"verify">> \o <<"own">> = <<"verify", "own">>
    BY <1>2, <2>1, HeadBefore
  <2>4. <<"verify">> \o <<"lock", "shutdown", "dec">> = <<"verify", "lock", "shutdown", "dec">>
    <3> DEFINE q == <<"verify", "lock", "shutdown", "dec">>
    <3>1. /\ q \in Seq(Steps) /\ q # <<>> /\ Head(q) = "verify"
          /\ Tail(q) = <<"lock", "shutdown", "dec">>
      BY <1>4, <2>1
    <3> HIDE DEF q
    <3>2. <<Head(q)>> \o Tail(q) = q
      BY <3>1, HeadBefore
    <3>3. QED
      BY <3>1, <3>2 DEF q
  <2>5. <<"unlock">> \o <<"dec">> = <<"unlock", "dec">>
    BY <1>2, <2>1, HeadBefore
  <2>6. QED
    BY <2>2, <2>3, <2>4, <2>5
<1>7. \A x, y, z : <<x, y, z>> \o <<>> = <<x, y, z>>
  OBVIOUS
<1>8. <<"rearm">> \o <<>> = <<"rearm">> /\ <<"unlock">> \o <<>> = <<"unlock">>
  OBVIOUS
<1>9. QED
  BY <1>1, <1>2, <1>3, <1>4, <1>5, <1>6, <1>7, <1>8
  DEF Counting, Verifying, Holding, Closing, Ending

\* A step of a thread, with s to do, that finds its transport as old and
\* leaves it as new, with p pushed.
Passes(old, s, new, p) ==
    LET step == Head(s)
    IN  \/ /\ step = "inc" /\ new = [old EXCEPT !.ref = @ + 1, !.state = "used"]
           /\ p = IF old.ref = 0 THEN <<"verify">> ELSE <<>>
        \/ /\ step = "verify" /\ p = <<>>
           /\ new = IF old.ref = 1 THEN Stopped(old) ELSE old
        \/ /\ step = "dec" /\ new = [old EXCEPT !.ref = @ - 1]
           /\ p = IF old.ref = 1 THEN <<"rearm">> ELSE <<>>
        \/ /\ step = "rearm" /\ p = <<>>
           /\ new = IF Unused(old) THEN [old EXCEPT !.id = TRUE, !.armed = TRUE] ELSE old
        \/ step = "own" /\ p = <<>> /\ new = [old EXCEPT !.users = @ + 1]
        \/ step \in {"lock", "unlock"} /\ p = <<>> /\ new = old
        \/ /\ step = "shutdown" /\ new = [old EXCEPT !.is_shutdown = TRUE]
           /\ p = IF old.is_shutdown \/ old.ref > 0 THEN <<"unlock">>
                  ELSE <<"inc", "dec", "unlock">>
        \/ step = "fired" /\ p = <<>> /\ new = [old EXCEPT !.id = FALSE]
        \/ /\ step = "test" /\ new = old
           /\ p = IF old.ref = 0 THEN <<"lock", "destroy", "free">> ELSE <<>>
        \/ step = "destroy" /\ p = <<>> /\ new = [Stopped(old) EXCEPT !.is_destroying = TRUE]
        \/ step = "free" /\ p = <<>> /\ new = [old EXCEPT !.state = "dead"]

\* Each step does one of these.
LEMMA WorkPasses ==
  ASSUME Typed, NEW th \in Threads, Work(th), ~Lost(th)
  PROVE  \E p \in Pushed :
            /\ Busy(th) /\ Then(th, p)
            /\ tp' = [tp EXCEPT ![thread[th].tp] = tp'[thread[th].tp]]
            /\ Passes(Mine(th), thread[th].todo, tp'[thread[th].tp], p)
<1> DEFINE r == Mine(th)
           t == thread[th].tp
<1>1. ASSUME NEW step, At(th, step)
      PROVE  /\ Busy(th) /\ Head(thread[th].todo) = step /\ t \in Transports
             /\ \A new : Becomes(th, new) => tp' = [tp EXCEPT ![t] = new] /\ tp'[t] = new
             /\ UNCHANGED tp => tp' = [tp EXCEPT ![t] = r] /\ tp'[t] = r
  BY <1>1 DEF At, Busy, Typed, Becomes, Mine
<1> HIDE DEF r, t
<1>2. CASE Inc(th)
  <2> DEFINE new == [r EXCEPT !.ref = @ + 1, !.state = "used"]
             p == IF r.ref = 0 THEN <<"verify">> ELSE <<>>
  <2>1. At(th, "inc") /\ Then(th, p) /\ Becomes(th, new)
    BY <1>2 DEF Inc, r
  <2>2. tp' = [tp EXCEPT ![t] = new] /\ tp'[t] = new /\ Head(thread[th].todo) = "inc" /\ Busy(th)
    BY <1>1, <2>1
  <2>3. p \in Pushed
    BY DEF Pushed
  <2>4. Passes(r, thread[th].todo, new, p)
    BY <2>2 DEF Passes
  <2>5. QED
    BY <2>1, <2>2, <2>3, <2>4 DEF r, t
<1>3. CASE Verify(th)
  <2> DEFINE new == IF r.ref = 1 THEN Stopped(r) ELSE r
             p == <<>>
  <2>1. At(th, "verify") /\ Then(th, p) /\ ((new = r /\ UNCHANGED tp) \/ Becomes(th, new))
    BY <1>3 DEF Verify, r
  <2>2. tp' = [tp EXCEPT ![t] = new] /\ tp'[t] = new /\ Head(thread[th].todo) = "verify" /\ Busy(th)
    BY <1>1, <2>1
  <2>3. p \in Pushed
    BY DEF Pushed
  <2>4. Passes(r, thread[th].todo, new, p)
    BY <2>2 DEF Passes
  <2>5. QED
    BY <2>1, <2>2, <2>3, <2>4 DEF r, t
<1>4. CASE Dec(th)
  <2> DEFINE new == [r EXCEPT !.ref = @ - 1]
             p == IF r.ref = 1 THEN <<"rearm">> ELSE <<>>
  <2>1. At(th, "dec") /\ Then(th, p) /\ Becomes(th, new)
    BY <1>4 DEF Dec, r
  <2>2. tp' = [tp EXCEPT ![t] = new] /\ tp'[t] = new /\ Head(thread[th].todo) = "dec" /\ Busy(th)
    BY <1>1, <2>1
  <2>3. p \in Pushed
    BY DEF Pushed
  <2>4. Passes(r, thread[th].todo, new, p)
    BY <2>2 DEF Passes
  <2>5. QED
    BY <2>1, <2>2, <2>3, <2>4 DEF r, t
<1>5. CASE Rearm(th)
  <2> DEFINE new == IF Unused(r) THEN [r EXCEPT !.id = TRUE, !.armed = TRUE] ELSE r
             p == <<>>
  <2>1. At(th, "rearm") /\ Then(th, p) /\ ((new = r /\ UNCHANGED tp) \/ Becomes(th, new))
    BY <1>5 DEF Rearm, r
  <2>2. tp' = [tp EXCEPT ![t] = new] /\ tp'[t] = new /\ Head(thread[th].todo) = "rearm" /\ Busy(th)
    BY <1>1, <2>1
  <2>3. p \in Pushed
    BY DEF Pushed
  <2>4. Passes(r, thread[th].todo, new, p)
    BY <2>2 DEF Passes
  <2>5. QED
    BY <2>1, <2>2, <2>3, <2>4 DEF r, t
<1>6. CASE Own(th)
  <2> DEFINE new == [r EXCEPT !.users = @ + 1]
             p == <<>>
  <2>1. At(th, "own") /\ Then(th, p) /\ Becomes(th, new)
    BY <1>6 DEF Own, r
  <2>2. tp' = [tp EXCEPT ![t] = new] /\ tp'[t] = new /\ Head(thread[th].todo) = "own" /\ Busy(th)
    BY <1>1, <2>1
  <2>3. p \in Pushed
    BY DEF Pushed
  <2>4. Passes(r, thread[th].todo, new, p)
    BY <2>2 DEF Passes
  <2>5. QED
    BY <2>1, <2>2, <2>3, <2>4 DEF r, t
<1>7. CASE Lock(th)
  <2> DEFINE new == r
             p == <<>>
  <2>1. At(th, "lock") /\ Then(th, p) /\ UNCHANGED tp
    BY <1>7 DEF Lock, r
  <2>2. tp' = [tp EXCEPT ![t] = new] /\ tp'[t] = new /\ Head(thread[th].todo) = "lock" /\ Busy(th)
    BY <1>1, <2>1
  <2>3. p \in Pushed
    BY DEF Pushed
  <2>4. Passes(r, thread[th].todo, new, p)
    BY <2>2 DEF Passes
  <2>5. QED
    BY <2>1, <2>2, <2>3, <2>4 DEF r, t
<1>8. CASE Shutdown(th)
  <2> DEFINE new == [r EXCEPT !.is_shutdown = TRUE]
             p == IF r.is_shutdown \/ r.ref > 0 THEN <<"unlock">> ELSE <<"inc", "dec", "unlock">>
  <2>1. At(th, "shutdown") /\ Then(th, p) /\ Becomes(th, new)
    BY <1>8 DEF Shutdown, r
  <2>2. /\ tp' = [tp EXCEPT ![t] = new] /\ tp'[t] = new
        /\ Head(thread[th].todo) = "shutdown" /\ Busy(th)
    BY <1>1, <2>1
  <2>3. p \in Pushed
    BY DEF Pushed
  <2>4. Passes(r, thread[th].todo, new, p)
    BY <2>2 DEF Passes
  <2>5. QED
    BY <2>1, <2>2, <2>3, <2>4 DEF r, t
<1>9. CASE Unlock(th)
  <2> DEFINE new == r
             p == <<>>
  <2>1. At(th, "unlock") /\ Then(th, p) /\ UNCHANGED tp
    BY <1>9 DEF Unlock, r
  <2>2. tp' = [tp EXCEPT ![t] = new] /\ tp'[t] = new /\ Head(thread[th].todo) = "unlock" /\ Busy(th)
    BY <1>1, <2>1
  <2>3. p \in Pushed
    BY DEF Pushed
  <2>4. Passes(r, thread[th].todo, new, p)
    BY <2>2 DEF Passes
  <2>5. QED
    BY <2>1, <2>2, <2>3, <2>4 DEF r, t
<1>10. CASE Fired(th)
  <2> DEFINE new == [r EXCEPT !.id = FALSE]
             p == <<>>
  <2>1. At(th, "fired") /\ Then(th, p) /\ Becomes(th, new)
    BY <1>10 DEF Fired, r
  <2>2. tp' = [tp EXCEPT ![t] = new] /\ tp'[t] = new /\ Head(thread[th].todo) = "fired" /\ Busy(th)
    BY <1>1, <2>1
  <2>3. p \in Pushed
    BY DEF Pushed
  <2>4. Passes(r, thread[th].todo, new, p)
    BY <2>2 DEF Passes
  <2>5. QED
    BY <2>1, <2>2, <2>3, <2>4 DEF r, t
<1>11. CASE Test(th)
  <2> DEFINE new == r
             p == IF r.ref = 0 THEN <<"lock", "destroy", "free">> ELSE <<>>
  <2>1. At(th, "test") /\ Then(th, p) /\ UNCHANGED tp
    BY <1>11 DEF Test, r
  <2>2. tp' = [tp EXCEPT ![t] = new] /\ tp'[t] = new /\ Head(thread[th].todo) = "test" /\ Busy(th)
    BY <1>1, <2>1
  <2>3. p \in Pushed
    BY DEF Pushed
  <2>4. Passes(r, thread[th].todo, new, p)
    BY <2>2 DEF Passes
  <2>5. QED
    BY <2>1, <2>2, <2>3, <2>4 DEF r, t
<1>12. CASE Destroy(th)
  <2> DEFINE new == [Stopped(r) EXCEPT !.is_destroying = TRUE]
             p == <<>>
  <2>1. At(th, "destroy") /\ Then(th, p) /\ Becomes(th, new)
    BY <1>12 DEF Destroy, r
  <2>2. /\ tp' = [tp EXCEPT ![t] = new] /\ tp'[t] = new
        /\ Head(thread[th].todo) = "destroy" /\ Busy(th)
    BY <1>1, <2>1
  <2>3. p \in Pushed
    BY DEF Pushed
  <2>4. Passes(r, thread[th].todo, new, p)
    BY <2>2 DEF Passes
  <2>5. QED
    BY <2>1, <2>2, <2>3, <2>4 DEF r, t
<1>13. CASE Free(th)
  <2> DEFINE new == [r EXCEPT !.state = "dead"]
             p == <<>>
  <2>1. At(th, "free") /\ Then(th, p) /\ Becomes(th, new)
    BY <1>13 DEF Free, r
  <2>2. tp' = [tp EXCEPT ![t] = new] /\ tp'[t] = new /\ Head(thread[th].todo) = "free" /\ Busy(th)
    BY <1>1, <2>1
  <2>3. p \in Pushed
    BY DEF Pushed
  <2>4. Passes(r, thread[th].todo, new, p)
    BY <2>2 DEF Passes
  <2>5. QED
    BY <2>1, <2>2, <2>3, <2>4 DEF r, t
<1>14. QED
  BY <1>2, <1>3, <1>4, <1>5, <1>6, <1>7, <1>8, <1>9, <1>10, <1>11, <1>12, <1>13 DEF Work

\* A step of the one thread leaves its transport as it should be.
LEMMA PassesKeep ==
  ASSUME NEW old \in Record, NEW s, Amid(old, s), NEW new, NEW p, Passes(old, s, new, p)
  PROVE  Leaves(new, p \o Tail(s))
<1> DEFINE q == p \o Tail(s)
<1>0. /\ old.ref \in Int /\ old.users \in Int /\ old.state \in {"new", "used"} /\ old.users >= 0
      /\ old.id \in BOOLEAN /\ old.armed \in BOOLEAN /\ old.is_destroying \in BOOLEAN
  BY DEF Record, Amid
<1>1. CASE s \in Counting
  <2>1. /\ Head(s) = "inc" /\ <<"verify">> \o Tail(s) \in Verifying
        /\ <<>> \o Tail(s) \in Holding
    BY <1>1, ListsGoOn
  <2>2. Tidy(old) /\ ~old.is_destroying
    BY <1>1 DEF Amid, Counting, Verifying, Holding, Closing, Ending
  <2> DEFINE n == old.ref + 1
  <2>3. /\ new = [old EXCEPT !.ref = n, !.state = "used"]
        /\ p = IF old.ref = 0 THEN <<"verify">> ELSE <<>>
    BY <2>1 DEF Passes
  <2>4. n = old.users + 1 /\ n \in Int
    BY <1>0, <2>2 DEF Tidy
  <2> HIDE DEF n
  <2>5. /\ new.ref = n /\ new.state = "used" /\ new.users = old.users
        /\ new.id = old.id /\ new.armed = old.armed /\ new.is_destroying = old.is_destroying
    BY <2>3 DEF Record
  <2>6. CASE old.ref = 0
    <3>1. q \in Verifying
      BY <2>1, <2>3, <2>6
    <3>2. q # <<>> /\ q # <<"free">>
      BY <3>1 DEF Verifying
    <3>3. new.ref = 1 /\ new.users = 0 /\ new.id = new.armed
      BY <1>0, <2>2, <2>4, <2>5, <2>6 DEF Tidy
    <3> HIDE DEF q
    <3>4. Amid(new, q)
      BY <1>0, <2>2, <2>5, <3>1, <3>2, <3>3 DEF Amid
    <3>5. QED
      BY <3>2, <3>4 DEF Leaves, q
  <2>7. CASE old.ref # 0
    <3>1. q \in Holding
      BY <2>1, <2>3, <2>7
    <3>2. q # <<>> /\ q # <<"free">>
      BY <3>1 DEF Holding
    <3>3. ~new.armed /\ ~new.id
      BY <1>0, <2>2, <2>5, <2>7 DEF Tidy
    <3> HIDE DEF q
    <3>4. Amid(new, q)
      BY <1>0, <2>2, <2>4, <2>5, <3>1, <3>2, <3>3 DEF Amid
    <3>5. QED
      BY <3>2, <3>4 DEF Leaves, q
  <2>8. QED
    BY <2>6, <2>7
<1>2. CASE s \in Verifying
  <2>1. Head(s) = "verify" /\ <<>> \o Tail(s) \in Holding
    BY <1>2, ListsGoOn
  <2>2. /\ old.state = "used" /\ old.ref = 1 /\ old.users = 0 /\ old.id = old.armed
        /\ ~old.is_destroying
    BY <1>2 DEF Amid, Counting, Verifying, Holding, Closing, Ending
  <2>3. new = Stopped(old) /\ p = <<>>
    BY <2>1, <2>2 DEF Passes
  <2>4. /\ new.ref = 1 /\ new.users = 0 /\ new.state = "used" /\ ~new.id /\ ~new.armed
        /\ ~new.is_destroying
    BY <1>0, <2>2, <2>3 DEF Stopped, Record
  <2>5. q \in Holding
    BY <2>1, <2>3
  <2>6. q # <<>> /\ q # <<"free">>
    BY <2>5 DEF Holding
  <2> HIDE DEF q
  <2>7. Amid(new, q)
    BY <2>4, <2>5, <2>6 DEF Amid
  <2>8. QED
    BY <2>6, <2>7 DEF Leaves, q
<1>3. CASE s \in Holding
  <2>1. /\ old.state = "used" /\ old.ref = old.users + 1 /\ ~old.id /\ ~old.armed
        /\ ~old.is_destroying
    BY <1>3 DEF Amid, Counting, Verifying, Holding, Closing, Ending
  <2>2. ASSUME q \in Holding, new.ref = old.ref, new.users = old.users, new.state = "used",
               ~new.id, ~new.armed, ~new.is_destroying
        PROVE  Leaves(new, q)
    <3>1. q # <<>> /\ q # <<"free">>
      BY <2>2 DEF Holding
    <3> HIDE DEF q
    <3>2. Amid(new, q)
      BY <1>0, <2>1, <2>2, <3>1 DEF Amid
    <3>3. QED
      BY <3>1, <3>2 DEF Leaves
  <2>3. CASE Head(s) \in {"unlock", "lock"}
    <3>1. new = old /\ p = <<>>
      BY <2>3 DEF Passes
    <3>2. q \in Holding
      BY <1>3, <2>3, <3>1, ListsGoOn
    <3>3. QED
      BY <2>1, <2>2, <3>1, <3>2
  <2>4. CASE Head(s) = "shutdown"
    <3>1. new = [old EXCEPT !.is_shutdown = TRUE] /\ p = <<"unlock">>
      BY <1>0, <2>1, <2>4 DEF Passes
    <3>2. q \in Holding
      BY <1>3, <2>4, <3>1, ListsGoOn
    <3>3. /\ new.ref = old.ref /\ new.users = old.users /\ new.state = "used"
          /\ ~new.id /\ ~new.armed /\ ~new.is_destroying
      BY <2>1, <3>1 DEF Record
    <3>4. QED
      BY <2>2, <3>2, <3>3
  <2>5. CASE Head(s) = "own"
    <3> DEFINE n == old.users + 1
    <3>1. new = [old EXCEPT !.users = n] /\ p = <<>>
      BY <2>5 DEF Passes
    <3>2. n = old.ref /\ n \in Int /\ n > 0
      BY <1>0, <2>1
    <3> HIDE DEF n
    <3>3. /\ new.ref = old.ref /\ new.users = n /\ new.state = "used"
          /\ new.id = old.id /\ new.armed = old.armed /\ ~new.is_destroying
      BY <2>1, <3>1 DEF Record
    <3>4. Tidy(new)
      BY <1>0, <2>1, <3>2, <3>3 DEF Tidy
    <3>5. q = <<>>
      BY <1>3, <2>5, <3>1, ListsGoOn
    <3>6. QED
      BY <3>4, <3>5 DEF Leaves
  <2>6. CASE Head(s) = "dec"
    <3> DEFINE n == old.ref - 1
    <3>1. new = [old EXCEPT !.ref = n] /\ p = IF old.ref = 1 THEN <<"rearm">> ELSE <<>>
      BY <2>6 DEF Passes
    <3>2. n = old.users /\ n \in Int
      BY <1>0, <2>1
    <3> HIDE DEF n
    <3>3. /\ new.ref = n /\ new.users = old.users /\ new.state = "used"
          /\ new.id = old.id /\ new.armed = old.armed /\ ~new.is_destroying
      BY <2>1, <3>1 DEF Record
    <3>4. CASE old.ref = 1
      <4>1. q = <<"rearm">>
        BY <1>3, <2>6, <3>1, <3>4, ListsGoOn
      <4>2. q # <<>> /\ q # <<"free">>
        BY <4>1
      <4>3. new.users = 0 /\ new.ref = 0
        BY <1>0, <2>1, <3>2, <3>3, <3>4
      <4> HIDE DEF q
      <4>4. Amid(new, q)
        BY <2>1, <3>3, <4>1, <4>2, <4>3 DEF Amid
      <4>5. QED
        BY <4>2, <4>4 DEF Leaves, q
    <3>5. CASE old.ref # 1
      <4>1. Tidy(new)
        BY <1>0, <2>1, <3>2, <3>3, <3>5 DEF Tidy
      <4>2. q = <<>>
        BY <1>3, <2>6, <3>1, <3>5, ListsGoOn
      <4>3. QED
        BY <4>1, <4>2 DEF Leaves
    <3>6. QED
      BY <3>4, <3>5
  <2>7. QED
    BY <1>3, <2>3, <2>4, <2>5, <2>6, ListsGoOn
<1>4. CASE s = <<"rearm">>
  <2>1. /\ old.state = "used" /\ old.ref = 0 /\ old.users = 0 /\ ~old.id /\ ~old.armed
        /\ ~old.is_destroying
    BY <1>4 DEF Amid, Counting, Verifying, Holding, Closing, Ending
  <2>2. new = [old EXCEPT !.id = TRUE, !.armed = TRUE] /\ p = <<>>
    BY <1>4, <2>1, ListsGoOn DEF Passes, Unused
  <2>3. /\ new.ref = 0 /\ new.users = 0 /\ new.state = "used"
        /\ new.armed /\ new.id = new.armed /\ ~new.is_destroying
    BY <2>1, <2>2 DEF Record
  <2>4. Tidy(new)
    BY <2>3 DEF Tidy
  <2>5. q = <<>>
    BY <1>4, <2>2, ListsGoOn
  <2>6. QED
    BY <2>4, <2>5 DEF Leaves
<1>5. CASE s \in Closing
  <2>1. Tidy(old) /\ old.users > 0 /\ ~old.is_destroying
    BY <1>5 DEF Amid, Counting, Verifying, Holding, Closing, Ending
  <2>2. ASSUME q \in Closing, new.ref = old.ref, new.users = old.users, new.state = old.state,
               new.id = old.id, new.armed = old.armed, new.is_destroying = old.is_destroying
        PROVE  Leaves(new, q)
    <3>1. q # <<>> /\ q # <<"free">>
      BY <2>2 DEF Closing
    <3>2. Tidy(new)
      BY <2>1, <2>2 DEF Tidy
    <3> HIDE DEF q
    <3>3. Amid(new, q)
      BY <1>0, <2>1, <2>2, <3>1, <3>2 DEF Amid
    <3>4. QED
      BY <3>1, <3>3 DEF Leaves
  <2>3. CASE Head(s) = "lock"
    <3>1. new = old /\ p = <<>>
      BY <2>3 DEF Passes
    <3>2. q \in Closing
      BY <1>5, <2>3, <3>1, ListsGoOn
    <3>3. QED
      BY <2>2, <3>1, <3>2
  <2>4. CASE Head(s) = "shutdown"
    <3>1. old.ref > 0
      BY <1>0, <2>1 DEF Tidy
    <3>2. new = [old EXCEPT !.is_shutdown = TRUE] /\ p = <<"unlock">>
      BY <2>4, <3>1 DEF Passes
    <3>3. q \in Closing
      BY <1>5, <2>4, <3>2, ListsGoOn
    <3>4. /\ new.ref = old.ref /\ new.users = old.users /\ new.state = old.state
          /\ new.id = old.id /\ new.armed = old.armed /\ new.is_destroying = old.is_destroying
      BY <3>2 DEF Record
    <3>5. QED
      BY <2>2, <3>3, <3>4
  <2>5. CASE Head(s) = "unlock"
    <3>1. new = old /\ p = <<>>
      BY <2>5 DEF Passes
    <3>2. q = <<>>
      BY <1>5, <2>5, <3>1, ListsGoOn
    <3>3. QED
      BY <2>1, <3>1, <3>2 DEF Leaves
  <2>6. QED
    BY <1>5, <2>3, <2>4, <2>5, ListsGoOn
<1>6. CASE s = <<"fired", "test">>
  <2>1. old.ref = 0 /\ old.users = 0 /\ ~old.armed /\ ~old.is_destroying
    BY <1>6 DEF Amid, Counting, Verifying, Holding, Closing, Ending
  <2>2. new = [old EXCEPT !.id = FALSE] /\ p = <<>>
    BY <1>6, ListsGoOn DEF Passes
  <2>3. /\ new.ref = 0 /\ new.users = 0 /\ new.state = old.state
        /\ ~new.id /\ ~new.armed /\ ~new.is_destroying
    BY <2>1, <2>2 DEF Record
  <2>4. q = <<"test">>
    BY <1>6, <2>2, ListsGoOn
  <2>5. q \in Ending /\ q # <<>> /\ q # <<"free">>
    BY <2>4 DEF Ending
  <2> HIDE DEF q
  <2>6. Amid(new, q)
    BY <1>0, <2>3, <2>5 DEF Amid
  <2>7. QED
    BY <2>5, <2>6 DEF Leaves, q
<1>7. CASE s \in Ending
  <2>1. /\ old.ref = 0 /\ old.users = 0 /\ ~old.id /\ ~old.armed
        /\ s # <<"free">> => ~old.is_destroying
    BY <1>7 DEF Amid, Counting, Verifying, Holding, Closing, Ending
  <2>2. ASSUME q \in Ending, q # <<"free">> => ~new.is_destroying,
               new.ref = 0, new.users = 0, new.state = old.state, ~new.id, ~new.armed
        PROVE  Leaves(new, q)
    <3>1. q # <<>>
      BY <2>2 DEF Ending
    <3> HIDE DEF q
    <3>2. Amid(new, q)
      BY <1>0, <2>2 DEF Amid
    <3>3. QED
      BY <3>1, <3>2 DEF Leaves
  <2>3. CASE Head(s) \in {"test", "lock"}
    <3>1. new = old /\ p = IF Head(s) = "test" THEN <<"lock", "destroy", "free">> ELSE <<>>
      BY <2>1, <2>3 DEF Passes
    <3>2. s # <<"free">>
      BY <2>3, ListsGoOn
    <3>3. q \in Ending
      BY <1>7, <2>3, <3>1, ListsGoOn
    <3>4. QED
      BY <2>1, <2>2, <3>1, <3>2, <3>3
  <2>4. CASE Head(s) = "destroy"
    <3>1. new = [Stopped(old) EXCEPT !.is_destroying = TRUE] /\ p = <<>>
      BY <2>4 DEF Passes
    <3>2. q = <<"free">>
      BY <1>7, <2>4, <3>1, ListsGoOn
    <3>3. /\ new.ref = 0 /\ new.users = 0 /\ new.state = old.state
          /\ ~new.id /\ ~new.armed
      BY <2>1, <3>1 DEF Record, Stopped
    <3>4. q \in Ending
      BY <3>2 DEF Ending
    <3>5. QED
      BY <2>2, <3>2, <3>3, <3>4
  <2>5. CASE Head(s) = "free"
    <3>1. new = [old EXCEPT !.state = "dead"] /\ p = <<>>
      BY <2>5 DEF Passes
    <3>2. /\ new.ref = 0 /\ new.users = 0 /\ new.state = "dead"
          /\ ~new.id /\ ~new.armed
      BY <2>1, <3>1 DEF Record
    <3>3. new.id = new.armed
      BY <1>0, <2>1, <3>1 DEF Record
    <3>4. Tidy(new)
      BY <3>2, <3>3 DEF Tidy
    <3>5. q = <<>>
      BY <1>7, <2>5, <3>1, ListsGoOn
    <3>6. QED
      BY <3>4, <3>5 DEF Leaves
  <2>6. QED
    BY <1>7, <2>3, <2>4, <2>5, ListsGoOn
<1>8. QED
  BY <1>1, <1>2, <1>3, <1>4, <1>5, <1>6, <1>7 DEF Amid

\* What a call does: it begins a function of the one thread at a transport
\* which is as that function expects it, or leaves every transport tidy.
EntersTidy(th) ==
    \/ UNCHANGED thread /\ \A u \in Transports : Tidy(tp'[u])
    \/ \E t \in Transports, b \in Begun :
          /\ Begin(th, t, b) /\ Amid(tp'[t], b)
          /\ \A u \in Transports \ {t} : Tidy(tp'[u])

\* A new transport is tidy.
LEMMA CreateIsTidy ==
  ASSUME Typed, \A u \in Transports : Tidy(tp[u]),
         NEW t \in Transports, NEW a \in Addrs, Create(t, a)
  PROVE  /\ \A u \in Transports : Tidy(tp'[u])
         /\ tp'[t].state = "new" /\ tp'[t].ref = 0 /\ tp'[t].users = 0
         /\ ~tp'[t].armed /\ ~tp'[t].id
<1>1. /\ tp[t] \in Record /\ tp \in [Transports -> Record] /\ tp[t].state = "unborn"
      /\ ~tp[t].is_destroying /\ tp[t].users = 0 /\ Tidy(tp[t])
      /\ tp' = [tp EXCEPT ![t] = [tp[t] EXCEPT !.state = "new"]]
  BY DEF Typed, Create
<1> DEFINE r == tp[t]
           new == [r EXCEPT !.state = "new"]
<1>2. r \in Record /\ Tidy(r) /\ r.state = "unborn" /\ ~r.is_destroying /\ r.users = 0
  BY <1>1
<1>3. /\ new.state = "new" /\ new.ref = r.ref /\ new.users = r.users
      /\ new.armed = r.armed /\ new.id = r.id /\ ~new.is_destroying
  <2> HIDE DEF r
  <2>1. QED
    BY <1>2 DEF Record
<1>4. tp'[t] = new /\ \A u \in Transports \ {t} : tp'[u] = tp[u]
  BY <1>1
<1>5. Tidy(new) /\ new.ref = 0 /\ ~new.armed /\ ~new.id
  <2> HIDE DEF r, new
  <2>1. QED
    BY <1>2, <1>3 DEF Tidy
<1> HIDE DEF r, new
<1>6. QED
  BY <1>2, <1>3, <1>4, <1>5

\* A call of the one thread, when every transport is tidy.
LEMMA CallsTakeUp ==
  ASSUME Typed, TableAlive, NEW th \in Threads, \A u \in Transports : Tidy(tp[u]),
         Calls(th) \/ \E t \in Transports : Expire(th, t)
  PROVE  EntersTidy(th)
<1>1. ASSUME NEW t \in Transports
      PROVE  tp[t] \in Record /\ Tidy(tp[t]) /\ (tp[t].users > 0 => tp[t].state = "used")
  BY DEF Typed, Tidy
<1>2. ASSUME NEW t \in Transports, NEW b \in Begun \cap Counting, Open(t), UNCHANGED tp,
             Begin(th, t, b)
      PROVE  EntersTidy(th)
  <2>1. Amid(tp'[t], b)
    <3>1. tp[t].users >= 0 /\ ~tp[t].is_destroying
      BY <1>2 DEF Tidy, Open
    <3>2. QED
      BY <1>2, <3>1 DEF Amid, Open
  <2>2. QED
    BY <1>2, <2>1 DEF EntersTidy
<1>3. ASSUME NEW a \in Addrs, NEW t \in Transports, Create(t, a),
             NEW b \in {<<"inc", "unlock", "own">>, <<"test">>}, Begin(th, t, b)
      PROVE  EntersTidy(th)
  <2>1. /\ \A u \in Transports : Tidy(tp'[u])
        /\ tp'[t].state = "new" /\ tp'[t].ref = 0 /\ tp'[t].users = 0
        /\ ~tp'[t].armed /\ ~tp'[t].id
    BY <1>3, CreateIsTidy
  <2>2. ~tp'[t].is_destroying
    BY <2>1 DEF Tidy
  <2>3. b \in Begun /\ b # <<"free">> /\ (b \in Counting \/ b \in Ending)
    BY DEF Begun, Counting, Ending
  <2>4. Amid(tp'[t], b)
    BY <2>1, <2>2, <2>3 DEF Amid
  <2>5. QED
    BY <1>3, <2>1, <2>3, <2>4 DEF EntersTidy
<1>4. ASSUME NEW a \in Addrs, Acquire(th, a)
      PROVE  EntersTidy(th)
  <2>1. CASE /\ Found(a) /\ Begin(th, table[a], <<"inc", "unlock", "own">>)
             /\ UNCHANGED <<tp, table>>
    <3>1. table[a] \in Transports /\ Open(table[a])
      BY <2>1 DEF Typed, Found, TableAlive
    <3>2. <<"inc", "unlock", "own">> \in Begun \cap Counting
      BY DEF Begun, Counting
    <3>3. QED
      BY <1>2, <2>1, <3>1, <3>2
  <2>2. ASSUME NEW t \in Transports, Create(t, a), Begin(th, t, <<"inc", "unlock", "own">>)
        PROVE  EntersTidy(th)
    BY <1>3, <2>2
  <2>3. QED
    BY <1>4, <2>1, <2>2 DEF Acquire
<1>5. ASSUME NEW a \in Addrs, AcquireFails(th, a)
      PROVE  EntersTidy(th)
  <2>1. PICK t \in Transports :
           /\ tp[t].state = "unborn" /\ tp[t].key = a
           /\ tp' = [tp EXCEPT ![t].state = "dead", ![t].is_destroying = TRUE]
    BY <1>5 DEF AcquireFails
  <2> DEFINE r == tp[t]
             new == [r EXCEPT !.state = "dead", !.is_destroying = TRUE]
  <2>2. /\ r \in Record /\ Tidy(r) /\ r.state = "unborn" /\ tp \in [Transports -> Record]
        /\ r.users = 0
    BY <1>1, <2>1 DEF Typed
  <2>3. tp' = [tp EXCEPT ![t] = new]
    BY <2>1, <2>2
  <2>4. tp'[t] = new /\ \A u \in Transports \ {t} : tp'[u] = tp[u]
    BY <2>2, <2>3
  <2>5. /\ new.state = "dead" /\ new.ref = r.ref /\ new.users = r.users
        /\ new.armed = r.armed /\ new.id = r.id
    <3> HIDE DEF r
    <3>1. QED
      BY <2>2 DEF Record
  <2>6. Tidy(new)
    <3> HIDE DEF r, new
    <3>1. QED
      BY <2>2, <2>5 DEF Tidy
  <2> HIDE DEF r, new
  <2>7. \A u \in Transports : Tidy(tp'[u])
    BY <2>4, <2>6
  <2>8. QED
    BY <1>5, <2>7 DEF EntersTidy, AcquireFails
<1>6. ASSUME NEW a \in Addrs, Accept(th, a)
      PROVE  EntersTidy(th)
  <2>1. PICK t \in Transports : Create(t, a) /\ (UNCHANGED thread \/ Begin(th, t, <<"test">>))
    BY <1>6 DEF Accept
  <2>2. CASE Begin(th, t, <<"test">>)
    BY <1>3, <2>1, <2>2
  <2>3. CASE UNCHANGED thread
    BY <2>1, <2>3, CreateIsTidy DEF EntersTidy
  <2>4. QED
    BY <2>1, <2>2, <2>3
<1>7. ASSUME NEW t \in Transports, AddRef(th, t)
      PROVE  EntersTidy(th)
  <2>1. Open(t) /\ <<"inc", "own">> \in Begun \cap Counting
    BY <1>1, <1>7 DEF AddRef, Open, Begun, Counting
  <2>2. QED
    BY <1>2, <1>7, <2>1 DEF AddRef
<1>8. ASSUME NEW t \in Transports, DecRef(th, t)
      PROVE  EntersTidy(th)
  <2> DEFINE r == tp[t]
             n == r.users - 1
             new == [r EXCEPT !.users = n]
  <2>1. /\ r \in Record /\ Tidy(r) /\ r.users > 0 /\ r.users \in Int /\ r.state = "used"
        /\ tp' = [tp EXCEPT ![t] = new] /\ tp \in [Transports -> Record]
        /\ Begin(th, t, <<"dec">>)
    BY <1>1, <1>8 DEF DecRef, Record, Typed
  <2>2. tp'[t] = new /\ \A u \in Transports \ {t} : tp'[u] = tp[u]
    BY <2>1
  <2>3. r.ref = n + 1 /\ n >= 0 /\ n \in Int /\ ~r.armed /\ ~r.id /\ ~r.is_destroying
    <3> HIDE DEF r
    <3>1. QED
      BY <2>1 DEF Tidy
  <2>4. /\ new.state = "used" /\ new.ref = r.ref /\ new.users = n /\ ~new.armed /\ ~new.id
        /\ ~new.is_destroying
    <3> HIDE DEF r, n
    <3>1. QED
      BY <2>1, <2>3 DEF Record
  <2>5. <<"dec">> \in Begun /\ <<"dec">> \in Holding /\ <<"dec">> # <<"free">>
    BY DEF Begun, Holding
  <2> HIDE DEF r, n, new
  <2>6. Amid(new, <<"dec">>)
    BY <2>3, <2>4, <2>5 DEF Amid
  <2>7. \A u \in Transports \ {t} : Tidy(tp'[u])
    BY <2>2
  <2>8. QED
    BY <2>1, <2>2, <2>5, <2>6, <2>7 DEF EntersTidy
<1>9. ASSUME NEW t \in Transports, Disconnect(th, t)
      PROVE  EntersTidy(th)
  <2>1. Broken \in Begun \cap Counting
    BY DEF Broken, Begun, Counting
  <2>2. QED
    BY <1>2, <1>9, <2>1 DEF Disconnect
<1>10. ASSUME NEW t \in Transports, Close(th, t)
       PROVE  EntersTidy(th)
  <2>1. /\ tp[t].state = "used" /\ Tidy(tp[t]) /\ tp[t].users > 0 /\ UNCHANGED tp
        /\ Begin(th, t, <<"lock", "shutdown">>)
    BY <1>1, <1>10 DEF Close
  <2>2. ~tp[t].is_destroying /\ tp[t].users >= 0
    BY <2>1 DEF Tidy
  <2>3. /\ <<"lock", "shutdown">> \in Begun /\ <<"lock", "shutdown">> \in Closing
        /\ <<"lock", "shutdown">> # <<"free">>
    BY DEF Begun, Closing
  <2>4. Amid(tp'[t], <<"lock", "shutdown">>)
    BY <2>1, <2>2, <2>3 DEF Amid
  <2>5. QED
    BY <2>1, <2>3, <2>4 DEF EntersTidy
<1>11. ASSUME NEW t \in Transports, Expire(th, t)
       PROVE  EntersTidy(th)
  <2> DEFINE r == tp[t]
             new == [r EXCEPT !.armed = FALSE]
  <2>1. /\ r \in Record /\ Tidy(r) /\ r.armed
        /\ tp' = [tp EXCEPT ![t] = new] /\ tp \in [Transports -> Record]
        /\ Begin(th, t, <<"fired", "test">>)
    BY <1>1, <1>11 DEF Expire, Typed
  <2>2. tp'[t] = new /\ \A u \in Transports \ {t} : tp'[u] = tp[u]
    BY <2>1
  <2>3. r.state = "used" /\ r.ref = 0 /\ r.users = 0 /\ ~r.is_destroying
    <3> HIDE DEF r
    <3>1. QED
      BY <2>1 DEF Tidy
  <2>4. /\ new.state = "used" /\ new.ref = 0 /\ new.users = 0 /\ ~new.armed
        /\ ~new.is_destroying
    <3> HIDE DEF r
    <3>1. QED
      BY <2>1, <2>3 DEF Record
  <2>5. <<"fired", "test">> \in Begun /\ <<"fired", "test">> # <<"free">>
    BY DEF Begun
  <2> HIDE DEF r, new
  <2>6. Amid(new, <<"fired", "test">>)
    BY <2>4, <2>5 DEF Amid
  <2>7. \A u \in Transports \ {t} : Tidy(tp'[u])
    BY <2>2
  <2>8. QED
    BY <2>1, <2>2, <2>5, <2>6, <2>7 DEF EntersTidy
<1>12. QED
  BY <1>4, <1>5, <1>6, <1>7, <1>8, <1>9, <1>10, <1>11 DEF Calls

\* Before the threads begin, every transport is tidy.
LEMMA InitSolo == Init => Solo
<1> SUFFICES ASSUME Init PROVE Solo
  OBVIOUS
<1>1. ASSUME NEW t \in Transports
      PROVE  Tidy(tp[t])
  <2>1. PICK a \in Addrs : tp[t] = [state |-> "unborn", key |-> a, ref |-> 0, users |-> 0,
                                    is_shutdown |-> FALSE, is_destroying |-> FALSE,
                                    id |-> FALSE, armed |-> FALSE]
    BY DEF Init
  <2>2. QED
    BY <2>1 DEF Tidy
<1>2. \A th \in Threads : ~Busy(th)
  BY DEF Init, Busy
<1>3. QED
  BY <1>1, <1>2 DEF Solo

\* The other threads are not in a function, now or after the step.
LEMMA OthersRest ==
  ASSUME One, NEW th \in Threads, thread[th] # Absent,
         \A o \in Threads \ {th} : thread'[o] = thread[o]
  PROVE  \A o \in Threads \ {th} : ~Busy(o) /\ ~Busy(o)'
  BY DEF One, Busy

\* A step of the one thread keeps what holds of the transports.
LEMMA WorkKeepsSolo ==
  ASSUME Typed, One, Solo, NEW th \in Threads, Work(th)
  PROVE  Solo'
<1>1. Busy(th) /\ ~Lost(th)
  <2>1. Busy(th)
    BY DEF Work, Inc, Verify, Dec, Rearm, Own, Lock, Shutdown, Unlock, Fired, Test, Destroy,
           Free, Lost, At, Busy
  <2>2. Mine(th).state # "dead"
    BY <2>1 DEF Solo, Amid
  <2>3. QED
    BY <2>1, <2>2 DEF Lost
<1> DEFINE t == thread[th].tp
           s == thread[th].todo
           new == tp'[t]
<1>2. PICK p \in Pushed :
         /\ Then(th, p) /\ tp' = [tp EXCEPT ![t] = new] /\ Passes(Mine(th), s, new, p)
  BY <1>1, WorkPasses
<1> DEFINE q == p \o Tail(s)
<1>3. /\ t \in Transports /\ tp \in [Transports -> Record] /\ Mine(th) \in Record
      /\ Amid(Mine(th), s)
  BY <1>1 DEF Typed, Mine, Solo
<1>4. Leaves(new, q)
  <2> DEFINE old == Mine(th)
  <2>1. old \in Record /\ Amid(old, s) /\ Passes(old, s, new, p)
    BY <1>2, <1>3
  <2> HIDE DEF old, s, new
  <2>2. QED
    BY <2>1, PassesKeep
<1>5. /\ \A o \in Threads \ {th} : thread'[o] = thread[o]
      /\ q = <<>> => thread'[th] = Idle
      /\ q # <<>> => thread'[th] = [tp |-> t, todo |-> q]
  BY <1>1, <1>2, ThenGoesOn
<1>6. \A o \in Threads \ {th} : ~Busy(o) /\ ~Busy(o)'
  <2>1. thread[th] # Absent
    BY <1>1 DEF Busy
  <2>2. QED
    BY <1>5, <2>1, OthersRest
<1>7. \A u \in Transports \ {t} : tp'[u] = tp[u] /\ Tidy(tp'[u])
  <2>1. ASSUME NEW u \in Transports \ {t}
        PROVE  tp'[u] = tp[u] /\ Tidy(tp'[u])
    <3>1. \A o \in Threads : Busy(o) => thread[o].tp # u
      BY <1>6
    <3>2. Tidy(tp[u])
      BY <3>1 DEF Solo
    <3>3. tp'[u] = tp[u]
      BY <1>2, <1>3
    <3>4. QED
      BY <3>2, <3>3
  <2>2. QED
    BY <2>1
<1> HIDE DEF q, s
<1>8. CASE q = <<>>
  <2>1. Tidy(new) /\ \A o \in Threads : ~Busy(o)'
    BY <1>4, <1>5, <1>6, <1>8 DEF Leaves, Busy
  <2>2. \A u \in Transports : Tidy(tp'[u])
    BY <1>7, <2>1
  <2>3. QED
    BY <2>1, <2>2 DEF Solo
<1>9. CASE q # <<>>
  <2>1. thread'[th].tp = t /\ thread'[th].todo = q /\ Amid(tp'[t], q)
    BY <1>4, <1>5, <1>9 DEF Leaves
  <2>2. Busy(th)'
    <3>1. thread'[th].tp # None
      BY <1>3, <2>1, NoneAssumption
    <3>2. QED
      BY <3>1 DEF Busy, Idle, Absent
  <2>3. ASSUME NEW o \in Threads, Busy(o)'
        PROVE  Amid(Mine(o)', thread'[o].todo)
    BY <1>6, <2>1, <2>3 DEF Mine
  <2>4. ASSUME NEW u \in Transports, \A o \in Threads : Busy(o)' => thread'[o].tp # u
        PROVE  Tidy(tp'[u])
    BY <1>7, <2>1, <2>2, <2>4
  <2>5. QED
    BY <2>3, <2>4 DEF Solo
<1>10. QED
  BY <1>8, <1>9

\* So does a call.
LEMMA CallsKeepSolo ==
  ASSUME Typed, TableAlive, One, Solo, NEW th \in Threads,
         Calls(th) \/ \E t \in Transports : Expire(th, t)
  PROVE  Solo'
<1>1. thread[th] = Idle
  BY DEF Calls, Acquire, AcquireFails, Accept, AddRef, DecRef, Disconnect, Close, Expire, Resting
<1>2. thread[th] # Absent
  BY <1>1 DEF Idle, Absent
<1>3. \A o \in Threads : ~Busy(o)
  BY <1>1, <1>2 DEF One, Busy
<1>4. \A u \in Transports : Tidy(tp[u])
  BY <1>3 DEF Solo
<1>5. EntersTidy(th)
  BY <1>4, CallsTakeUp
<1>6. CASE UNCHANGED thread /\ \A u \in Transports : Tidy(tp'[u])
  BY <1>3, <1>6 DEF Solo, Busy
<1>7. ASSUME NEW t \in Transports, NEW b \in Begun, Begin(th, t, b), Amid(tp'[t], b),
             \A u \in Transports \ {t} : Tidy(tp'[u])
      PROVE  Solo'
  <2>1. /\ \A o \in Threads \ {th} : thread'[o] = thread[o]
        /\ thread'[th] = [tp |-> t, todo |-> b]
    BY <1>7, BeginBegins
  <2>2. \A o \in Threads \ {th} : ~Busy(o) /\ ~Busy(o)'
    BY <1>2, <2>1, OthersRest
  <2>3. thread'[th].tp = t /\ thread'[th].todo = b
    BY <2>1
  <2>4. Busy(th)'
    <3>1. thread'[th].tp # None
      BY <2>3, NoneAssumption
    <3>2. QED
      BY <3>1 DEF Busy, Idle, Absent
  <2>5. ASSUME NEW o \in Threads, Busy(o)'
        PROVE  Amid(Mine(o)', thread'[o].todo)
    BY <1>7, <2>2, <2>3, <2>5 DEF Mine
  <2>6. ASSUME NEW u \in Transports, \A o \in Threads : Busy(o)' => thread'[o].tp # u
        PROVE  Tidy(tp'[u])
    BY <1>7, <2>3, <2>4, <2>6
  <2>7. QED
    BY <2>5, <2>6 DEF Solo
<1>8. QED
  BY <1>5, <1>6, <1>7 DEF EntersTidy

\* No thread starts or ends: if there is one after a step there was one before.
LEMMA StaysOne ==
  ASSUME Typed, TableAlive, [Next]_vars, One'
  PROVE  One
<1>1. ASSUME NEW th \in Threads, thread[th] # Absent, thread'[th] # Absent,
             \A o \in Threads \ {th} : thread'[o] = thread[o]
      PROVE  One
  <2>1. \A o \in Threads : thread[o] # Absent => thread'[o] # Absent
    BY <1>1
  <2>2. QED
    BY <2>1 DEF One
<1>2. CASE UNCHANGED thread
  BY <1>2 DEF One
<1>3. ASSUME NEW t \in Transports, NEW b
      PROVE  [tp |-> t, todo |-> b] # Absent /\ Idle # Absent
  <2>1. [tp |-> t, todo |-> b].tp # Absent.tp
    BY NoneAssumption DEF Absent
  <2>2. QED
    BY <2>1 DEF Idle, Absent
<1>4. Idle # Absent
  BY DEF Idle, Absent
<1>5. ASSUME NEW th \in Threads, Work(th)
      PROVE  One
  <2>1. CASE Lost(th)
    <3>1. thread[th] # Absent /\ thread' = [thread EXCEPT ![th] = Idle]
      BY <2>1 DEF Lost
    <3>2. thread'[th] # Absent /\ \A o \in Threads \ {th} : thread'[o] = thread[o]
      BY <1>4, <3>1 DEF Typed
    <3>3. QED
      BY <1>1, <3>1, <3>2
  <2>2. CASE ~Lost(th)
    <3>1. PICK p \in Pushed : Busy(th) /\ Then(th, p)
      BY <1>5, <2>2, WorkPasses
    <3> DEFINE q == p \o Tail(thread[th].todo)
    <3>2. /\ \A o \in Threads \ {th} : thread'[o] = thread[o]
          /\ q = <<>> => thread'[th] = Idle
          /\ q # <<>> => thread'[th] = [tp |-> thread[th].tp, todo |-> q]
      BY <3>1, ThenGoesOn
    <3>3. thread[th].tp \in Transports /\ thread[th] # Absent
      BY <3>1 DEF Typed, Busy
    <3> HIDE DEF q
    <3>4. thread'[th] # Absent
      BY <1>3, <1>4, <3>2, <3>3
    <3>5. QED
      BY <1>1, <3>2, <3>3, <3>4
  <2>3. QED
    BY <2>1, <2>2
<1>6. ASSUME NEW th \in Threads, Calls(th) \/ \E t \in Transports : Expire(th, t)
      PROVE  One
  <2>1. thread[th] = Idle
    BY <1>6 DEF Calls, Acquire, AcquireFails, Accept, AddRef, DecRef, Disconnect, Close, Expire,
                Resting
  <2>2. Starts(th)
    BY <1>6, CallsStart
  <2>3. ASSUME NEW t \in Transports, NEW b \in Begun, Begin(th, t, b)
        PROVE  One
    <3>1. /\ \A o \in Threads \ {th} : thread'[o] = thread[o]
          /\ thread'[th] = [tp |-> t, todo |-> b]
      BY <2>3, BeginBegins
    <3>2. QED
      BY <1>1, <1>3, <1>4, <2>1, <3>1
  <2>4. QED
    BY <1>2, <2>2, <2>3 DEF Starts
<1>7. CASE UNCHANGED vars
  BY <1>2, <1>7 DEF vars
<1>8. QED
  BY <1>5, <1>6, <1>7 DEF Next

\* Each step keeps what holds with one thread.
LEMMA NextKeepsSolo == Safe /\ (One => Solo) /\ [Next]_vars => (One => Solo)'
<1> SUFFICES ASSUME Safe, One => Solo, [Next]_vars, One' PROVE Solo'
  OBVIOUS
<1>1. Typed /\ TableAlive
  BY DEF Safe
<1>2. One /\ Solo
  BY <1>1, StaysOne
<1>3. ASSUME NEW th \in Threads, Work(th)
      PROVE  Solo'
  BY <1>1, <1>2, <1>3, WorkKeepsSolo
<1>4. ASSUME NEW th \in Threads, Calls(th) \/ \E t \in Transports : Expire(th, t)
      PROVE  Solo'
  BY <1>1, <1>2, <1>4, CallsKeepSolo
<1>5. CASE UNCHANGED vars
  BY <1>2, <1>5 DEF vars, Solo, Busy, Mine
<1>6. QED
  BY <1>3, <1>4, <1>5 DEF Next

\* The application starts one thread: no two are there.
LEMMA AloneIsOne == Alone => One
<1> SUFFICES ASSUME Alone PROVE One
  OBVIOUS
<1> DEFINE S == {th \in Threads : thread[th] # Absent}
<1>1. IsFiniteSet(S)
  BY ThreadsAssumption, FS_Subset
<1>2. Cardinality(S) = 1
  BY DEF Alone
<1>3. \E x : S = {x}
  BY <1>1, <1>2, FS_Singleton
<1>4. QED
  BY <1>3 DEF One

\* What holds of one thread's transports makes them safe.
LEMMA SoloIsSafe == Typed /\ (One => Solo) => AloneIsSafe
<1> SUFFICES ASSUME Typed, One => Solo, Alone
             PROVE  /\ HeldIsAlive /\ AssertionsHold
                    /\ (\A th \in Threads : thread[th] \in {Idle, Absent}) =>
                          \A t \in Transports :
                             /\ tp[t].armed <=> tp[t].state = "used" /\ tp[t].ref = 0
                             /\ tp[t].id = tp[t].armed
  BY DEF AloneIsSafe
<1>1. Solo
  BY AloneIsOne
<1>2. HeldIsAlive
  <2>1. ASSUME NEW t \in Transports, tp[t].users > 0, tp[t].state = "dead"
        PROVE  FALSE
    <3>1. CASE \A th \in Threads : Busy(th) => thread[th].tp # t
      BY <1>1, <2>1, <3>1 DEF Solo, Tidy
    <3>2. ASSUME NEW th \in Threads, Busy(th), thread[th].tp = t
          PROVE  FALSE
      BY <1>1, <2>1, <3>2 DEF Solo, Amid, Mine
    <3>3. QED
      BY <3>1, <3>2
  <2>2. QED
    BY <2>1 DEF HeldIsAlive
<1>3. AssertionsHold
  <2>1. ASSUME NEW th \in Threads, Busy(th)
        PROVE  Amid(Mine(th), thread[th].todo)
    BY <1>1, <2>1 DEF Solo
  <2>2. ASSUME NEW th \in Threads, At(th, "test")
        PROVE  Mine(th).ref = 0
    <3>1. Busy(th) /\ Head(thread[th].todo) = "test"
      BY <2>2 DEF At, Busy
    <3> DEFINE s == thread[th].todo
               r == Mine(th)
    <3>2. Amid(r, s) /\ Head(s) = "test"
      BY <2>1, <3>1
    <3> HIDE DEF r, s
    <3>3. QED
      BY <3>2, ListsGoOn DEF Amid, r
  <2>3. ASSUME NEW th \in Threads, At(th, "rearm")
        PROVE  ~Mine(th).id
    <3>1. Busy(th) /\ Head(thread[th].todo) = "rearm"
      BY <2>3 DEF At, Busy
    <3> DEFINE s == thread[th].todo
               r == Mine(th)
    <3>2. Amid(r, s) /\ Head(s) = "rearm"
      BY <2>1, <3>1
    <3> HIDE DEF r, s
    <3>3. QED
      BY <3>2, ListsGoOn DEF Amid, r
  <2>4. ASSUME NEW th \in Threads, Busy(th)
        PROVE  Mine(th).state # "dead"
    BY <2>1, <2>4 DEF Amid
  <2>5. QED
    BY <2>2, <2>3, <2>4 DEF AssertionsHold, Busy
<1>4. ASSUME \A th \in Threads : thread[th] \in {Idle, Absent}, NEW t \in Transports
      PROVE  /\ tp[t].armed <=> tp[t].state = "used" /\ tp[t].ref = 0
             /\ tp[t].id = tp[t].armed
  <2>1. Tidy(tp[t])
    BY <1>1, <1>4 DEF Solo, Busy
  <2>2. QED
    BY <2>1 DEF Tidy
<1>5. QED
  BY <1>2, <1>3, <1>4

\* With one thread, whatever the transports and the addresses: a transport that
\* an object holds is there ("Any objects that wishes to keep the reference of
\* the transport MUST increment the transport's reference counter to prevent it
\* from being destroyed", sip_transport.h:864), the idle timer runs exactly when
\* nobody holds the transport, and what the code asserts of both holds.
THEOREM AloneStaysSafe == Spec => []AloneIsSafe
<1>1. Init => (One => Solo)
  BY InitSolo
<1>2. Safe /\ (One => Solo) => AloneIsSafe
  BY SoloIsSafe DEF Safe
<1>3. QED
  BY <1>1, <1>2, NextKeepsSolo, Safety, PTL DEF Spec

-----------------------------------------------------------------------------
(* Types *)

\* The threads that will give an object a reference to transport t.
Owners(t) == {th \in Threads : thread[th].tp = t /\ Has(th, "own")}

\* The objects that hold a transport, and those that are about to, have room.
Roomy ==
    /\ mgrLock \in Threads \cup {None}
    /\ tpLock \in [Transports -> Threads \cup {None}]
    /\ \A t \in Transports :
          tp[t].users >= 0 /\ tp[t].users + Cardinality(Owners(t)) <= MaxUsers

\* They are finitely many, and one more is counted when one more comes.
LEMMA OwnersCounted ==
  ASSUME NEW t \in Transports
  PROVE  /\ IsFiniteSet(Owners(t)) /\ Cardinality(Owners(t)) \in Nat
         /\ \A S \in SUBSET Owners(t) : Cardinality(S) \in Nat
                                        /\ Cardinality(S) <= Cardinality(Owners(t))
         /\ \A th \in Owners(t) :
               Cardinality(Owners(t) \ {th}) = Cardinality(Owners(t)) - 1
         /\ \A th \in Threads : Cardinality(Owners(t) \cup {th}) \in Nat
                                /\ Cardinality(Owners(t) \cup {th}) <= Cardinality(Owners(t)) + 1
<1>1. IsFiniteSet(Owners(t))
  <2>1. Owners(t) \in SUBSET Threads
    BY DEF Owners
  <2>2. QED
    BY <2>1, ThreadsAssumption, FS_Subset
<1>2. Cardinality(Owners(t)) \in Nat
  BY <1>1, FS_CardinalityType
<1>3. \A S \in SUBSET Owners(t) : Cardinality(S) \in Nat
                                  /\ Cardinality(S) <= Cardinality(Owners(t))
  BY <1>1, FS_Subset, FS_CardinalityType
<1>4. \A th \in Owners(t) : Cardinality(Owners(t) \ {th}) = Cardinality(Owners(t)) - 1
  BY <1>1, FS_RemoveElement
<1>5. ASSUME NEW th \in Threads
      PROVE  /\ Cardinality(Owners(t) \cup {th}) \in Nat
             /\ Cardinality(Owners(t) \cup {th}) <= Cardinality(Owners(t)) + 1
  <2> DEFINE S == Owners(t)
             T == S \cup {th}
  <2>1. IsFiniteSet(S) /\ Cardinality(S) \in Nat
    BY <1>1, <1>2
  <2> HIDE DEF S
  <2>2. IsFiniteSet(T) /\ (Cardinality(T) = Cardinality(S) \/ Cardinality(T) = Cardinality(S) + 1)
    BY <2>1, FS_AddElement
  <2>3. Cardinality(T) \in Nat /\ Cardinality(T) <= Cardinality(S) + 1
    BY <2>1, <2>2
  <2>4. QED
    BY <2>3 DEF S
<1>6. QED
  BY <1>1, <1>2, <1>3, <1>4, <1>5

\* With as many owners as before at most, and no more users, there is room.
LEMMA StillRoom ==
  ASSUME NEW t \in Transports, NEW n \in Int, NEW m \in Int, m <= n,
         NEW S \in SUBSET Owners(t), n + Cardinality(Owners(t)) <= MaxUsers
  PROVE  m + Cardinality(S) <= MaxUsers
<1> DEFINE c == Cardinality(S)
           d == Cardinality(Owners(t))
<1>1. c \in Nat /\ d \in Nat /\ c <= d
  BY OwnersCounted
<1>2. n + d <= MaxUsers /\ MaxUsers \in Nat
  BY MaxUsersAssumption
<1> HIDE DEF c, d
<1>3. m + c <= MaxUsers
  BY <1>1, <1>2
<1>4. QED
  BY <1>3 DEF c

\* A step leaves a thread no reference to hand on that it did not have; the one
\* that hands it on has it no longer.
LEMMA StepsOwn ==
  ASSUME Typed, Balanced, NEW th \in Threads, Busy(th), NEW p \in Pushed, Then(th, p)
  PROVE  \A u \in Transports :
            /\ Owners(u)' \subseteq Owners(u)
            /\ u = thread[th].tp /\ Head(thread[th].todo) = "own" =>
                  th \in Owners(u) /\ Owners(u)' \subseteq Owners(u) \ {th}
<1> DEFINE t == thread[th].tp
           s == thread[th].todo
           q == p \o Tail(s)
<1>1. s \in Seq(Steps) /\ s # <<>> /\ t \in Transports /\ Formed(s)
  BY DEF Typed, Balanced
<1>2. /\ \A o \in Threads \ {th} : thread'[o] = thread[o]
      /\ q = <<>> => thread'[th] = Idle
      /\ q # <<>> => thread'[th] = [tp |-> t, todo |-> q]
  BY ThenGoesOn
<1>3. ~Occurs("own", p)
  <2>1. p \in Plain \/ p = Again
    BY PushedCounts
  <2>2. QED
    BY <2>1, PushedCounts DEF Occurs, Given
<1>4. Occurs("own", q) <=> Occurs("own", Tail(s))
  BY <1>1, <1>3, OccursAfter
<1>5. Occurs("own", s) <=> "own" = Head(s) \/ Occurs("own", Tail(s))
  BY <1>1, RestOccurs
<1>6. Head(s) = "own" => ~Occurs("own", Tail(s))
  BY <1>1, FormedRest DEF Given
<1>7. Has(th, "own") <=> Occurs("own", s)
  BY DEF Has, Occurs
<1> HIDE DEF q
<1>8. ASSUME NEW u \in Transports, thread'[th].tp = u, Has(th, "own")'
      PROVE  u = t /\ Has(th, "own") /\ Head(s) # "own"
  <2>1. thread'[th] # Idle
    BY <1>8, NoneAssumption DEF Idle
  <2>2. thread'[th].tp = t /\ thread'[th].todo = q
    BY <1>2, <2>1
  <2>3. Occurs("own", q)
    BY <1>8, <2>2 DEF Has, Occurs
  <2>4. QED
    BY <1>4, <1>5, <1>6, <1>7, <1>8, <2>2, <2>3
<1>9. ASSUME NEW u \in Transports, NEW o \in Owners(u)'
      PROVE  o \in Owners(u) /\ (Head(s) = "own" => o # th)
  BY <1>2, <1>8, <1>9 DEF Owners, Has
<1>10. Head(s) = "own" => th \in Owners(t)
  BY <1>5, <1>7 DEF Owners
<1>11. QED
  BY <1>1, <1>9, <1>10

\* A step of a function leaves room.
LEMMA WorkKeepsRoomy ==
  ASSUME Typed, Balanced, Roomy, NEW th \in Threads, Work(th)
  PROVE  Roomy'
<1>1. mgrLock' \in Threads \cup {None} /\ tpLock' \in [Transports -> Threads \cup {None}]
  BY DEF Roomy, Work, Inc, Verify, Dec, Rearm, Own, Lock, Shutdown, Unlock, Fired, Test, Destroy,
         Free, Lost
<1>2. CASE Lost(th)
  <2>1. UNCHANGED tp /\ thread' = [thread EXCEPT ![th] = Idle]
    BY <1>2 DEF Lost
  <2>2. \A u \in Transports : Owners(u)' \subseteq Owners(u)
    BY <2>1, NoneAssumption DEF Owners, Has, Idle, Typed
  <2>3. ASSUME NEW u \in Transports
        PROVE  tp'[u].users >= 0 /\ tp'[u].users + Cardinality(Owners(u)') <= MaxUsers
    <3>1. /\ tp'[u].users = tp[u].users /\ tp[u].users \in Int /\ tp[u].users >= 0
          /\ tp[u].users + Cardinality(Owners(u)) <= MaxUsers
      BY <2>1 DEF Typed, Record, Roomy
    <3>2. QED
      BY <2>2, <3>1, StillRoom
  <2>4. QED
    BY <1>1, <2>3 DEF Roomy
<1>3. CASE ~Lost(th)
  <2> DEFINE t == thread[th].tp
             s == thread[th].todo
             old == Mine(th)
             new == tp'[t]
  <2>1. PICK p \in Pushed : /\ Busy(th) /\ Then(th, p) /\ tp' = [tp EXCEPT ![t] = new]
                            /\ Passes(old, s, new, p)
    BY <1>3, WorkPasses
  <2>2. \A u \in Transports :
           /\ Owners(u)' \subseteq Owners(u)
           /\ u = t /\ Head(s) = "own" =>
                 th \in Owners(u) /\ Owners(u)' \subseteq Owners(u) \ {th}
    BY <2>1, StepsOwn
  <2>3. /\ t \in Transports /\ old = tp[t] /\ old \in Record
        /\ \A u \in Transports \ {t} : tp'[u] = tp[u]
    BY <2>1 DEF Typed, Mine
  <2>4. new.users = IF Head(s) = "own" THEN old.users + 1 ELSE old.users
    <3>1. old \in Record /\ Passes(old, s, new, p)
      BY <2>1, <2>3
    <3> HIDE DEF old, s, new
    <3>2. QED
      BY <3>1 DEF Passes, Record, Stopped
  <2>5. \A u \in Transports : /\ tp[u].users \in Int /\ tp[u].users >= 0
                              /\ tp[u].users + Cardinality(Owners(u)) <= MaxUsers
    BY DEF Typed, Record, Roomy
  <2> HIDE DEF t, s, old, new
  <2>6. ASSUME NEW u \in Transports
        PROVE  tp'[u].users >= 0 /\ tp'[u].users + Cardinality(Owners(u)') <= MaxUsers
    <3>1. CASE u # t \/ Head(s) # "own"
      <4>1. tp'[u].users = tp[u].users
        BY <2>3, <2>4, <3>1 DEF new
      <4>2. QED
        BY <2>2, <2>5, <4>1, StillRoom
    <3>2. CASE u = t /\ Head(s) = "own"
      <4> DEFINE c == Cardinality(Owners(u))
                 d == Cardinality(Owners(u)')
                 e == Cardinality(Owners(u) \ {th})
                 n == tp[u].users
      <4>1. tp'[u].users = n + 1
        BY <2>3, <2>4, <3>2 DEF new
      <4>2. Owners(u)' \subseteq Owners(u) \ {th} /\ th \in Owners(u)
        BY <2>2, <3>2
      <4>3. c \in Nat /\ e = c - 1
        BY <4>2, OwnersCounted
      <4>4. d \in Nat /\ d <= e
        <5> DEFINE S == Owners(u)'
                   T == Owners(u) \ {th}
        <5>1. IsFiniteSet(T) /\ S \in SUBSET T
          <6>1. IsFiniteSet(Owners(u)) /\ T \in SUBSET Owners(u)
            BY OwnersCounted
          <6>2. IsFiniteSet(T)
            <7> HIDE DEF T
            <7>1. QED
              BY <6>1, FS_Subset
          <6>3. QED
            BY <4>2, <6>2
        <5> HIDE DEF S, T
        <5>2. IsFiniteSet(S) /\ Cardinality(S) <= Cardinality(T)
          BY <5>1, FS_Subset
        <5>3. Cardinality(S) \in Nat
          BY <5>2, FS_CardinalityType
        <5>4. QED
          BY <5>2, <5>3 DEF S, T
      <4>5. n \in Int /\ n >= 0 /\ n + c <= MaxUsers /\ MaxUsers \in Nat
        BY <2>5, MaxUsersAssumption
      <4> HIDE DEF c, d, e, n
      <4>6. n + 1 >= 0 /\ n + 1 + d <= MaxUsers
        BY <4>3, <4>4, <4>5
      <4>7. QED
        BY <4>1, <4>6 DEF d
    <3>3. QED
      BY <3>1, <3>2
  <2>7. QED
    BY <1>1, <2>6 DEF Roomy
<1>4. QED
  BY <1>2, <1>3

\* Who begins a function becomes an owner of its transport at most, and only if
\* the function hands on a reference.
LEMMA BeginOwns ==
  ASSUME Typed, NEW th \in Threads, thread[th] = Idle, NEW t \in Transports, NEW b \in Begun,
         Begin(th, t, b), NEW u \in Transports
  PROVE  /\ Owners(u)' \subseteq Owners(u) \cup {th}
         /\ u # t \/ ~Occurs("own", b) => Owners(u)' \subseteq Owners(u)
<1>1. /\ \A o \in Threads \ {th} : thread'[o] = thread[o]
      /\ thread'[th] = [tp |-> t, todo |-> b]
  BY BeginBegins
<1>2. thread'[th].tp = t /\ thread'[th].todo = b
  BY <1>1
<1>3. QED
  BY <1>1, <1>2 DEF Owners, Has, Occurs

\* A call leaves room.
LEMMA CallsKeepRoomy ==
  ASSUME Typed, Balanced, TableAlive, Roomy, NEW th \in Threads,
         Calls(th) \/ \E t \in Transports : Expire(th, t)
  PROVE  Roomy'
<1>1. mgrLock' \in Threads \cup {None} /\ tpLock' \in [Transports -> Threads \cup {None}]
  BY DEF Roomy, Calls, Acquire, AcquireFails, Accept, AddRef, DecRef, Disconnect, Close, Expire
<1>2. \A u \in Transports : /\ tp[u].users \in Int /\ tp[u].users >= 0
                            /\ tp[u].users + Cardinality(Owners(u)) <= MaxUsers
  BY DEF Typed, Record, Roomy
<1> DEFINE Fits(u) == tp'[u].users >= 0 /\ tp'[u].users + Cardinality(Owners(u)') <= MaxUsers
<1>3. ASSUME NEW u \in Transports, Owners(u)' \subseteq Owners(u),
             tp'[u].users \in Int, tp'[u].users >= 0, tp'[u].users <= tp[u].users
      PROVE  Fits(u)
  BY <1>2, <1>3, StillRoom
<1>4. ASSUME NEW t \in Transports, NEW b \in Begun, thread[th] = Idle, Begin(th, t, b),
             Occurs("own", b) => tp[t].users + Cardinality(Owners(t)) < MaxUsers,
             \A u \in Transports : tp'[u].users = tp[u].users
      PROVE  \A u \in Transports : Fits(u)
  <2>1. ASSUME NEW u \in Transports, u # t \/ ~Occurs("own", b)
        PROVE  Fits(u)
    BY <1>2, <1>3, <1>4, <2>1, BeginOwns
  <2>2. ASSUME Occurs("own", b)
        PROVE  Fits(t)
    <3> DEFINE S == Owners(t) \cup {th}
               T == Owners(t)'
               n == tp[t].users
               c == Cardinality(Owners(t))
    <3>1. n \in Int /\ n >= 0 /\ n + c < MaxUsers /\ c \in Nat /\ MaxUsers \in Nat
      BY <1>2, <1>4, <2>2, OwnersCounted, MaxUsersAssumption
    <3>2. Cardinality(S) \in Nat /\ Cardinality(S) <= c + 1
      BY OwnersCounted
    <3>3. IsFiniteSet(S)
      <4>1. S \in SUBSET Threads
        BY DEF Owners
      <4> HIDE DEF S
      <4>2. QED
        BY <4>1, ThreadsAssumption, FS_Subset
    <3>4. T \in SUBSET S
      BY <1>4, BeginOwns
    <3>5. tp'[t].users = n
      BY <1>4
    <3> HIDE DEF S, T, n, c
    <3>6. IsFiniteSet(T) /\ Cardinality(T) <= Cardinality(S)
      BY <3>3, <3>4, FS_Subset
    <3>7. Cardinality(T) \in Nat
      BY <3>6, FS_CardinalityType
    <3>8. n + Cardinality(T) <= MaxUsers
      BY <3>1, <3>2, <3>6, <3>7
    <3>9. QED
      BY <3>1, <3>5, <3>8 DEF T
  <2>3. QED
    BY <2>1, <2>2
<1>5. ASSUME NEW t \in Transports, NEW a \in Addrs, Create(t, a)
      PROVE  /\ \A u \in Transports : tp'[u].users = tp[u].users
             /\ tp[t].users + Cardinality(Owners(t)) < MaxUsers
  <2>1. tp[t].state = "unborn" /\ tp[t].users = 0 /\ tp \in [Transports -> Record]
    BY <1>5 DEF Create, Typed
  <2>2. \A o \in Threads : ~(thread[o].tp = t /\ Has(o, "own"))
    BY <2>1, HasIsBusy DEF Typed
  <2>3. Owners(t) = {}
    BY <2>2 DEF Owners
  <2>4. Cardinality(Owners(t)) = 0
    BY <2>3, FS_EmptySet
  <2> DEFINE r == tp[t]
             new == [r EXCEPT !.state = "new"]
  <2>5. tp' = [tp EXCEPT ![t] = new] /\ r \in Record
    BY <1>5, <2>1 DEF Create
  <2>6. new.users = r.users
    <3> HIDE DEF r
    <3>1. QED
      BY <2>5 DEF Record
  <2>7. \A u \in Transports : tp'[u].users = tp[u].users
    BY <2>1, <2>5, <2>6
  <2>8. QED
    BY <2>1, <2>4, <2>7, MaxUsersAssumption
<1>6. ASSUME NEW a \in Addrs, Acquire(th, a)
      PROVE  \A u \in Transports : Fits(u)
  <2>1. thread[th] = Idle /\ <<"inc", "unlock", "own">> \in Begun
    BY <1>6 DEF Acquire, Resting, Begun
  <2>2. CASE /\ Found(a) /\ Room(table[a]) /\ Begin(th, table[a], <<"inc", "unlock", "own">>)
             /\ UNCHANGED <<tp, table>>
    <3>1. table[a] \in Transports
      BY <2>2 DEF Typed, Found
    <3>2. tp[table[a]].users + Cardinality(Owners(table[a])) < MaxUsers
      BY <2>2 DEF Room, Owners
    <3>3. QED
      BY <1>4, <2>1, <2>2, <3>1, <3>2
  <2>3. ASSUME NEW t \in Transports, Create(t, a), Begin(th, t, <<"inc", "unlock", "own">>)
        PROVE  \A u \in Transports : Fits(u)
    BY <1>4, <1>5, <2>1, <2>3
  <2>4. QED
    BY <1>6, <2>2, <2>3 DEF Acquire
<1>7. ASSUME NEW a \in Addrs, AcquireFails(th, a)
      PROVE  \A u \in Transports : Fits(u)
  <2>1. PICK t \in Transports :
           tp' = [tp EXCEPT ![t].state = "dead", ![t].is_destroying = TRUE]
    BY <1>7 DEF AcquireFails
  <2> DEFINE r == tp[t]
             new == [r EXCEPT !.state = "dead", !.is_destroying = TRUE]
  <2>2. r \in Record /\ tp \in [Transports -> Record]
    BY DEF Typed
  <2>3. tp' = [tp EXCEPT ![t] = new]
    BY <2>1, <2>2
  <2>4. new.users = r.users
    <3> HIDE DEF r
    <3>1. QED
      BY <2>2 DEF Record
  <2>5. \A u \in Transports : tp'[u].users = tp[u].users
    BY <2>2, <2>3, <2>4
  <2>6. \A u \in Transports : Owners(u)' \subseteq Owners(u)
    BY <1>7 DEF AcquireFails, Owners, Has
  <2>7. QED
    BY <1>2, <1>3, <2>5, <2>6
<1>8. ASSUME NEW a \in Addrs, Accept(th, a)
      PROVE  \A u \in Transports : Fits(u)
  <2>1. PICK t \in Transports : Create(t, a) /\ (UNCHANGED thread \/ Begin(th, t, <<"test">>))
    BY <1>8 DEF Accept
  <2>2. CASE Begin(th, t, <<"test">>)
    <3>1. thread[th] = Idle /\ <<"test">> \in Begun
      BY <1>8 DEF Accept, Resting, Begun
    <3>2. QED
      BY <1>4, <1>5, <2>1, <2>2, <3>1
  <2>3. CASE UNCHANGED thread
    <3>1. \A u \in Transports : Owners(u)' \subseteq Owners(u)
      BY <2>3 DEF Owners, Has
    <3>2. \A u \in Transports : tp'[u].users = tp[u].users
      BY <1>5, <2>1
    <3>3. QED
      BY <1>2, <1>3, <3>1, <3>2
  <2>4. QED
    BY <2>1, <2>2, <2>3
<1>9. ASSUME NEW t \in Transports, AddRef(th, t)
      PROVE  \A u \in Transports : Fits(u)
  <2>1. /\ <<"inc", "own">> \in Begun /\ thread[th] = Idle /\ Begin(th, t, <<"inc", "own">>)
        /\ UNCHANGED tp /\ tp[t].users + Cardinality(Owners(t)) < MaxUsers
    BY <1>9 DEF AddRef, Begun, Resting, Room, Owners
  <2>2. QED
    BY <1>4, <2>1
<1>10. ASSUME NEW t \in Transports, DecRef(th, t)
       PROVE  \A u \in Transports : Fits(u)
  <2> DEFINE r == tp[t]
             n == r.users - 1
             new == [r EXCEPT !.users = n]
  <2>1. /\ tp \in [Transports -> Record] /\ r \in Record /\ r.users > 0
        /\ tp' = [tp EXCEPT ![t] = new] /\ thread[th] = Idle /\ Begin(th, t, <<"dec">>)
    BY <1>10 DEF DecRef, Typed, Resting
  <2>2. n \in Int /\ n >= 0 /\ n <= r.users
    <3>1. r.users \in Int
      BY <2>1 DEF Record
    <3> HIDE DEF r
    <3>2. QED
      BY <2>1, <3>1
  <2>3. new.users = n
    <3> HIDE DEF r, n
    <3>1. QED
      BY <2>1 DEF Record
  <2> HIDE DEF n
  <2>4. \A u \in Transports : tp'[u].users \in Int /\ tp'[u].users >= 0
                              /\ tp'[u].users <= tp[u].users
    BY <1>2, <2>1, <2>2, <2>3
  <2>5. <<"dec">> \in Begun /\ ~Occurs("own", <<"dec">>)
    BY DEF Begun, Occurs
  <2>6. \A u \in Transports : Owners(u)' \subseteq Owners(u)
    BY <2>1, <2>5, BeginOwns
  <2>7. QED
    BY <1>3, <2>4, <2>6
<1>11. ASSUME NEW t \in Transports, Disconnect(th, t)
       PROVE  \A u \in Transports : Fits(u)
  <2>1. Broken \in Begun /\ ~Occurs("own", Broken)
    BY DEF Begun, Occurs, Broken
  <2>2. QED
    BY <1>4, <1>11, <2>1 DEF Disconnect, Resting
<1>12. ASSUME NEW t \in Transports, Close(th, t)
       PROVE  \A u \in Transports : Fits(u)
  <2>1. <<"lock", "shutdown">> \in Begun /\ ~Occurs("own", <<"lock", "shutdown">>)
    BY DEF Begun, Occurs
  <2>2. QED
    BY <1>4, <1>12, <2>1 DEF Close, Resting
<1>13. ASSUME NEW t \in Transports, Expire(th, t)
       PROVE  \A u \in Transports : Fits(u)
  <2>1. <<"fired", "test">> \in Begun /\ ~Occurs("own", <<"fired", "test">>)
    BY DEF Begun, Occurs
  <2> DEFINE r == tp[t]
             new == [r EXCEPT !.armed = FALSE]
  <2>2. /\ r \in Record /\ tp \in [Transports -> Record] /\ tp' = [tp EXCEPT ![t] = new]
        /\ thread[th] = Idle /\ Begin(th, t, <<"fired", "test">>)
    BY <1>13 DEF Expire, Typed, Resting
  <2>3. new.users = r.users
    <3> HIDE DEF r
    <3>1. QED
      BY <2>2 DEF Record
  <2>4. \A u \in Transports : tp'[u].users = tp[u].users
    BY <2>2, <2>3
  <2>5. QED
    BY <1>4, <2>1, <2>2, <2>4
<1>14. \A u \in Transports : Fits(u)
  BY <1>6, <1>7, <1>8, <1>9, <1>10, <1>11, <1>12, <1>13 DEF Calls
<1>15. QED
  BY <1>1, <1>14 DEF Roomy

\* Nobody holds a transport before the threads begin.
LEMMA InitRoomy == Init => Roomy
<1> SUFFICES ASSUME Init PROVE Roomy
  OBVIOUS
<1>1. ASSUME NEW t \in Transports
      PROVE  tp[t].users = 0
  <2>1. PICK a \in Addrs : tp[t] = [state |-> "unborn", key |-> a, ref |-> 0, users |-> 0,
                                    is_shutdown |-> FALSE, is_destroying |-> FALSE,
                                    id |-> FALSE, armed |-> FALSE]
    BY DEF Init
  <2>2. QED
    BY <2>1
<1>2. ASSUME NEW t \in Transports
      PROVE  Cardinality(Owners(t)) = 0
  <2>1. \A th \in Threads : thread[th].tp # t
    BY NoneAssumption DEF Init, Idle, Absent
  <2>2. Owners(t) = {}
    BY <2>1 DEF Owners
  <2>3. QED
    BY <2>2, FS_EmptySet
<1>3. mgrLock \in Threads \cup {None} /\ tpLock \in [Transports -> Threads \cup {None}]
  BY DEF Init
<1>4. QED
  BY <1>1, <1>2, <1>3, MaxUsersAssumption DEF Roomy

\* Each step leaves room.
LEMMA NextKeepsRoomy == Safe /\ Balanced /\ Roomy /\ [Next]_vars => Roomy'
<1> SUFFICES ASSUME Safe, Balanced, Roomy, [Next]_vars PROVE Roomy'
  OBVIOUS
<1>1. ASSUME NEW th \in Threads, Work(th)
      PROVE  Roomy'
  BY <1>1, WorkKeepsRoomy DEF Safe
<1>2. ASSUME NEW th \in Threads, Calls(th) \/ \E t \in Transports : Expire(th, t)
      PROVE  Roomy'
  BY <1>2, CallsKeepRoomy DEF Safe
<1>3. CASE UNCHANGED vars
  BY <1>3 DEF vars, Roomy, Owners, Has
<1>4. QED
  BY <1>1, <1>2, <1>3 DEF Next

\* The counts have the types that the others are known to have.
LEMMA TypesAgree == Typed /\ Counted /\ Roomy => TypeOK
<1> SUFFICES ASSUME Typed, Counted, Roomy PROVE TypeOK
  OBVIOUS
<1>1. ASSUME NEW t \in Transports
      PROVE  tp[t] \in Transport
  <2> DEFINE n == tp[t].users
             c == Cardinality(Owners(t))
  <2>1. n \in Int /\ n >= 0 /\ n + c <= MaxUsers /\ c \in Nat /\ MaxUsers \in Nat
    BY OwnersCounted, MaxUsersAssumption DEF Typed, Record, Roomy
  <2> HIDE DEF n, c
  <2>2. n \in 0..MaxUsers
    BY <2>1
  <2>3. tp[t] \in Record /\ tp[t].ref \in Nat
    BY DEF Typed, Counted
  <2>4. QED
    BY <2>2, <2>3 DEF Record, Transport, n
<1>2. tp \in [Transports -> Transport]
  BY <1>1 DEF Typed
<1>3. QED
  BY <1>2 DEF TypeOK, Typed, Roomy, Busy

\* Every field has its type, the counts too: for any number of threads ref_cnt
\* is never negative, and MaxUsers bounds the objects that hold a transport.
THEOREM TypesHold == Spec => []TypeOK
<1>1. Watched => Counted
  BY DEF Watched
<1>2. Safe => Typed
  BY DEF Safe
<1>3. Spec => []Watched
  BY CountStaysPositive, InitWatched, NextKeepsWatched, Safety, PTL DEF Spec
<1>4. Spec => []Roomy
  BY InitRoomy, NextKeepsRoomy, Safety, CountsBalance, PTL DEF Spec
<1>5. QED
  BY <1>1, <1>2, <1>3, <1>4, TypesAgree, Safety, PTL
=============================================================================
