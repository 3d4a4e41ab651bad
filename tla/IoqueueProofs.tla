--------------------------- MODULE IoqueueProofs ---------------------------
(***************************************************************************)
(* Theorems about Ioqueue, for any number of threads, keys, descriptors    *)
(* and operations.  A key is protected by three things that rest on each   *)
(* other: the mutex (Mutexes), the counted references (Counted) and the    *)
(* delay before it is used again (Alive).                                  *)
(***************************************************************************)
EXTENDS Ioqueue, FiniteSetTheorems, TLAPS

\* A thread inside a call or a dispatch has the key and the operation of it.
Shape ==
    /\ \A t \in Threads :
          /\ poll[t].at \in {"out", "select", "scan"} => poll[t].events = {}
          /\ poll[t].at \in {"completed", "callback", "release"} => poll[t].key \in poll[t].events
          /\ poll[t].at = "completed" => poll[t].op \in Ops
          /\ call[t].at = "none" <=> call[t].key = None
          /\ call[t].at = "recv" => call[t].op \in Ops
          /\ call[t].at # "none" => poll[t].at \in {"out", "callback"}

\* Two threads do not have the mutex of one key.
Mutexes == \A t, u \in Threads, k \in Keys : Holds(t, k) /\ Holds(u, k) => t = u

\* What is known of a key by the call or the dispatch that uses it.
Alive ==
    /\ \A k \in Keys : cb[k] => list[k] = "active" /\ ~closing[k] /\ fd[k] \in Fds
    /\ \A k \in Keys :
          list[k] = "active" /\ ~cb[k] => closing[k] \/ \E t \in Threads : Closes(t, k)
    /\ \A k \in Keys : list[k] = "closing" => closing[k]
    /\ \A t \in Threads :
          /\ call[t].at # "none" => list[call[t].key] # "free"
          /\ call[t].at = "closed" => ~cb[call[t].key]
          /\ call[t].at = "marked" => ~cb[call[t].key] /\ closing[call[t].key]
          /\ poll[t].at \in {"completed", "callback"} => poll[t].locked = ~allow[poll[t].key]

\* The threads that have an event of k.
Pollers(k) == {t \in Threads : k \in poll[t].events}

\* The reference of the registration is not given up.
Registered(k) == cb[k] \/ \E t \in Threads : Closes(t, k)

Counted ==
    \A k \in Keys :
        /\ refs[k] = Cardinality(Pollers(k)) + (IF Registered(k) THEN 1 ELSE 0)
        /\ list[k] = "active" <=> refs[k] > 0

\* Descriptors differ, and the set is the one of the reads that wait.
Descriptors ==
    /\ \A j, k \in Keys : cb[j] /\ cb[k] /\ fd[j] = fd[k] => j = k
    /\ SetMatches

\* An operation is in a list, in the hands of recv, or of dispatch.
Places ==
    \A op \in Ops :
        /\ \A j, k \in Keys : cb[j] /\ cb[k] /\ op \in reads[j] /\ op \in reads[k] => j = k
        /\ \A t \in Threads :
              poll[t].at = "completed" /\ poll[t].op = op
              => /\ \A k \in Keys : cb[k] => op \notin reads[k]
                 /\ \A u \in Threads : ~(call[u].at = "recv" /\ call[u].op = op)
                 /\ \A u \in Threads : poll[u].at = "completed" /\ poll[u].op = op => u = t
        /\ \A t \in Threads :
              call[t].at = "recv" /\ call[t].op = op
              => /\ \A k \in Keys : cb[k] => op \notin reads[k]
                 /\ \A u \in Threads : call[u].at = "recv" /\ call[u].op = op => u = t

IInv == TypeOK /\ Shape /\ Mutexes /\ Alive /\ Counted /\ Descriptors /\ Places

\* A key with an event in the hands of a polling thread is active and has a reference.
LEMMA PolledIsActive ==
    ASSUME TypeOK, Counted, NEW t \in Threads, NEW k \in poll[t].events
    PROVE  k \in Keys /\ list[k] = "active" /\ refs[k] > 0
<1>1. k \in Keys
  BY DEF TypeOK, Polls
<1>2. IsFiniteSet(Pollers(k)) /\ Pollers(k) # {}
  BY FS_Subset, ThreadsAssumption DEF Pollers
<1>3. Cardinality(Pollers(k)) \in Nat /\ Cardinality(Pollers(k)) # 0
  BY <1>2, FS_EmptySet, FS_CardinalityType
<1>4. QED
  BY <1>1, <1>3 DEF Counted

\* Under its mutex, an active key that is not closing has its callbacks and its socket.
LEMMA LockedIsOpen ==
    ASSUME Alive, NEW t \in Threads, NEW k \in Keys, MayLock(t, k), ~Closes(t, k),
           list[k] = "active", ~closing[k]
    PROVE  cb[k] /\ fd[k] \in Fds
BY DEF Alive, MayLock, Holds

\* A read that has the mutex and sees no closing (IS_CLOSING) has an open socket.
LEMMA ReadIsOpen ==
    ASSUME TypeOK, Shape, Alive, NEW t \in Threads, AddRead(t), ~closing[call[t].key]
    PROVE  cb[call[t].key] /\ fd[call[t].key] \in Fds
<1>1. call[t].key \in Keys /\ list[call[t].key] = "active"
  BY NoneAssumption DEF TypeOK, Calls, Shape, Alive, AddRead
<1>2. QED
  BY <1>1, LockedIsOpen DEF AddRead, Closes

\* The reference of the registration keeps a key that is being unregistered active.
LEMMA ClosedIsActive ==
    ASSUME TypeOK, Counted, NEW t \in Threads, NEW k \in Keys, Closes(t, k)
    PROVE  list[k] = "active" /\ refs[k] > 0
<1>1. Cardinality(Pollers(k)) \in Nat
  BY FS_Subset, FS_CardinalityType, ThreadsAssumption DEF Pollers
<1>2. QED
  BY <1>1 DEF Counted, Registered

\* Each step keeps the types; a count never goes below zero.
LEMMA TypeOKStep ==
    ASSUME IInv, [Next]_vars
    PROVE  TypeOK'
<1> USE NoneAssumption DEF IInv
<1>1. ASSUME NEW t \in Threads, NEW k \in Keys, NEW f \in Fds,
             NEW concurrent \in BOOLEAN, Register(t, k, f, concurrent)
      PROVE  TypeOK'
  BY <1>1 DEF Register, TypeOK, ScanClosing
<1>2. ASSUME NEW t \in Threads, NEW k \in Keys, NEW op \in Ops, StartRead(t, k, op)
      PROVE  TypeOK'
  BY <1>2 DEF StartRead, TypeOK, Calls, keyVars
<1>3. ASSUME NEW t \in Threads, AddRead(t)
      PROVE  TypeOK'
  <2>1. call[t].key \in Keys /\ call[t].op \in Ops
    BY <1>3 DEF AddRead, TypeOK, Calls, Shape
  <2>2. NoCall \in Calls
    BY DEF NoCall, Calls
  <2>3. ~closing[call[t].key] => fd[call[t].key] \in Fds
    BY <1>3, ReadIsOpen
  <2>4. QED
    BY <1>3, <2>1, <2>2, <2>3 DEF AddRead, Refused, TypeOK
<1>4. ASSUME NEW t \in Threads, NEW k \in Keys, NEW op \in Ops, PostCompletion(t,
             k, op)
      PROVE  TypeOK'
  BY <1>4 DEF PostCompletion, TypeOK, Calls
<1>5. ASSUME NEW t \in Threads, PostReturns(t)
      PROVE  TypeOK'
  BY <1>5 DEF PostReturns, TypeOK, Calls, keyVars, NoCall
<1>6. ASSUME NEW t \in Threads, NEW k \in Keys, Unregister(t, k)
      PROVE  TypeOK'
  BY <1>6 DEF Unregister, TypeOK, Calls
<1>7. ASSUME NEW t \in Threads, MarkClosing(t)
      PROVE  TypeOK'
  <2>1. call[t].key \in Keys /\ [call[t] EXCEPT !.at = "marked"] \in Calls
    BY <1>7 DEF MarkClosing, TypeOK, Calls, Shape
  <2>2. QED
    BY <1>7, <2>1 DEF MarkClosing, TypeOK
<1>8. ASSUME NEW t \in Threads, EndUnregister(t)
      PROVE  TypeOK'
  BY <1>8, ClosedIsActive DEF EndUnregister, TypeOK, Shape, Calls, Decrement,
     NoCall, Closes
<1>9. ASSUME NEW t \in Threads, PollNothing(t)
      PROVE  TypeOK'
  BY <1>9 DEF PollNothing, TypeOK, ScanClosing
<1>10. ASSUME NEW t \in Threads, CopySet(t)
      PROVE  TypeOK'
  <2>1. [poll[t] EXCEPT !.at = "select", !.set = rfdset] \in Polls
    BY ZenonT(60) DEF TypeOK, Polls
  <2>2. QED
    BY <1>10, <2>1 DEF CopySet, TypeOK, keyVars
<1>11. ASSUME NEW t \in Threads, NEW ready \in SUBSET Fds, Select(t, ready)
      PROVE  TypeOK'
  <2>1. NoPoll \in Polls /\ [NoPoll EXCEPT !.at = "scan", !.set = ready] \in Polls
    BY DEF Polls, NoPoll
  <2>2. QED
    BY <1>11, <2>1 DEF Select, TypeOK, keyVars
<1>12. ASSUME NEW t \in Threads, NEW events \in SUBSET Keys, Scan(t, events)
      PROVE  TypeOK'
  <2>1. NoPoll \in Polls /\ [NoPoll EXCEPT !.at = "dispatch", !.events = events] \in Polls
    BY DEF Polls, NoPoll
  <2>2. poll' \in [Threads -> Polls]
    BY <1>12, <2>1 DEF Scan, TypeOK
  <2>3. refs' \in [Keys -> Nat]
    BY <1>12 DEF Scan, TypeOK, Counts
  <2>4. QED
    BY <1>12, <2>2, <2>3 DEF Scan, TypeOK
<1>13. ASSUME NEW t \in Threads, NEW k \in Keys, DispatchStale(t, k)
      PROVE  TypeOK'
  <2>1. [poll[t] EXCEPT !.at = "release", !.key = k] \in Polls
    BY ZenonT(60) DEF TypeOK, Polls
  <2>2. QED
    BY <1>13, <2>1 DEF DispatchStale, TypeOK, keyVars
<1>14. ASSUME NEW t \in Threads, NEW k \in Keys, NEW op \in Ops, Dispatch(t, k, op)
      PROVE  TypeOK'
  <2>1. k \in Keys
    BY PolledIsActive, <1>14 DEF Dispatch
  <2>2. Locks(k) \in BOOLEAN
    BY Zenon DEF Locks
  <2>3. poll[t] \in Polls
    BY DEF TypeOK
  <2>4. ASSUME NEW b \in BOOLEAN
        PROVE  [poll[t] EXCEPT !.at = "completed", !.key = k, !.op = op, !.locked = b] \in Polls
    BY <2>1, <2>3 DEF Polls
  <2>5. poll' = [poll EXCEPT ![t] = [poll[t] EXCEPT !.at = "completed", !.key = k, !.op = op,
                                                    !.locked = Locks(k)]]
    BY <1>14 DEF Dispatch
  <2>6. poll' \in [Threads -> Polls]
    BY <2>2, <2>4, <2>5 DEF TypeOK
  <2>7. QED
    BY <1>14, <2>6 DEF Dispatch, TypeOK
<1>15. ASSUME NEW t \in Threads, Complete(t)
      PROVE  TypeOK'
  <2>1. \A x \in {"callback", "release"} : [poll[t] EXCEPT !.at = x] \in Polls
    BY SMTT(60) DEF TypeOK, Polls
  <2>2. QED
    BY <1>15, <2>1 DEF Complete, TypeOK, keyVars
<1>16. ASSUME NEW t \in Threads, CallbackReturns(t)
      PROVE  TypeOK'
  <2>1. [poll[t] EXCEPT !.at = "release"] \in Polls
    BY DEF TypeOK, Polls
  <2>2. QED
    BY <1>16, <2>1 DEF CallbackReturns, TypeOK, keyVars
<1>17. ASSUME NEW t \in Threads, Release(t)
      PROVE  TypeOK'
  <2>1. poll[t].key \in Keys /\ refs[poll[t].key] > 0
    BY <1>17, PolledIsActive DEF Release, Shape
  <2>2. /\ NoPoll \in Polls
        /\ [NoPoll EXCEPT !.at = "dispatch", !.events = poll[t].events \ {poll[t].key}] \in Polls
    BY DEF Polls, NoPoll, TypeOK
  <2>3. poll' \in [Threads -> Polls]
    BY <1>17, <2>2 DEF Release, TypeOK
  <2>4. refs' \in [Keys -> Nat] /\ list' \in [Keys -> {"free", "active", "closing"}]
    BY <1>17, <2>1 DEF Release, TypeOK, Decrement
  <2>5. QED
    BY <1>17, <2>3, <2>4 DEF Release, TypeOK
<1>18. CASE UNCHANGED vars
  BY <1>18 DEF vars, TypeOK
<1>19. QED
  BY <1>1, <1>2, <1>3, <1>4, <1>5, <1>6, <1>7, <1>8, <1>9, <1>10, <1>11, <1>12,
     <1>13, <1>14, <1>15, <1>16, <1>17, <1>18 DEF Next, Application, Poll

\* Each step keeps what a thread in a call or a dispatch has.
LEMMA ShapeStep ==
    ASSUME IInv, [Next]_vars
    PROVE  Shape'
<1> USE NoneAssumption DEF IInv
<1>1. ASSUME NEW t \in Threads, NEW k \in Keys, NEW f \in Fds,
             NEW concurrent \in BOOLEAN, Register(t, k, f, concurrent)
      PROVE  Shape'
  BY <1>1 DEF Register, Shape
<1>2. ASSUME NEW t \in Threads, NEW k \in Keys, NEW op \in Ops, StartRead(t, k, op)
      PROVE  Shape'
  BY <1>2 DEF StartRead, Shape, MayUse, MayCall
<1>3. ASSUME NEW t \in Threads, AddRead(t)
      PROVE  Shape'
  BY <1>3 DEF AddRead, Shape, NoCall
<1>4. ASSUME NEW t \in Threads, NEW k \in Keys, NEW op \in Ops, PostCompletion(t,
             k, op)
      PROVE  Shape'
  BY <1>4 DEF PostCompletion, Shape, MayUse, MayCall
<1>5. ASSUME NEW t \in Threads, PostReturns(t)
      PROVE  Shape'
  BY <1>5 DEF PostReturns, Shape, NoCall
<1>6. ASSUME NEW t \in Threads, NEW k \in Keys, Unregister(t, k)
      PROVE  Shape'
  BY <1>6 DEF Unregister, Shape, MayUse, MayCall
<1>7. ASSUME NEW t \in Threads, MarkClosing(t)
      PROVE  Shape'
  BY <1>7 DEF MarkClosing, Shape
<1>8. ASSUME NEW t \in Threads, EndUnregister(t)
      PROVE  Shape'
  BY <1>8 DEF EndUnregister, Shape, NoCall
<1>9. ASSUME NEW t \in Threads, PollNothing(t)
      PROVE  Shape'
  BY <1>9 DEF PollNothing, Shape
<1>10. ASSUME NEW t \in Threads, CopySet(t)
      PROVE  Shape'
  BY <1>10 DEF CopySet, Shape, TypeOK
<1>11. ASSUME NEW t \in Threads, NEW ready \in SUBSET Fds, Select(t, ready)
      PROVE  Shape'
  BY <1>11 DEF Select, Shape, NoPoll
<1>12. ASSUME NEW t \in Threads, NEW events \in SUBSET Keys, Scan(t, events)
      PROVE  Shape'
  BY <1>12 DEF Scan, Shape, NoPoll
<1>13. ASSUME NEW t \in Threads, NEW k \in Keys, DispatchStale(t, k)
      PROVE  Shape'
  BY <1>13 DEF DispatchStale, Shape, TypeOK
<1>14. ASSUME NEW t \in Threads, NEW k \in Keys, NEW op \in Ops, Dispatch(t, k, op)
      PROVE  Shape'
  BY <1>14 DEF Dispatch, Shape, TypeOK
<1>15. ASSUME NEW t \in Threads, Complete(t)
      PROVE  Shape'
  BY <1>15 DEF Complete, Shape
<1>16. ASSUME NEW t \in Threads, CallbackReturns(t)
      PROVE  Shape'
  BY <1>16 DEF CallbackReturns, Shape
<1>17. ASSUME NEW t \in Threads, Release(t)
      PROVE  Shape'
  BY <1>17 DEF Release, Shape, NoPoll
<1>18. CASE UNCHANGED vars
  BY <1>18 DEF vars, Shape
<1>19. QED
  BY <1>1, <1>2, <1>3, <1>4, <1>5, <1>6, <1>7, <1>8, <1>9, <1>10, <1>11, <1>12,
     <1>13, <1>14, <1>15, <1>16, <1>17, <1>18 DEF Next, Application, Poll

\* Each step that takes a mutex finds it free.
LEMMA MutexesStep ==
    ASSUME IInv, [Next]_vars
    PROVE  Mutexes'
<1> USE NoneAssumption DEF IInv
<1>1. ASSUME NEW t \in Threads, NEW k \in Keys, NEW f \in Fds,
             NEW concurrent \in BOOLEAN, Register(t, k, f, concurrent)
      PROVE  Mutexes'
  BY <1>1 DEF Register, Mutexes, Holds, Closes
<1>2. ASSUME NEW t \in Threads, NEW k \in Keys, NEW op \in Ops, StartRead(t, k, op)
      PROVE  Mutexes'
  BY <1>2 DEF StartRead, Mutexes, Holds, Closes
<1>3. ASSUME NEW t \in Threads, AddRead(t)
      PROVE  Mutexes'
  BY <1>3 DEF AddRead, Mutexes, Holds, NoCall, Closes
<1>4. ASSUME NEW t \in Threads, NEW k \in Keys, NEW op \in Ops, PostCompletion(t,
             k, op)
      PROVE  Mutexes'
  BY <1>4 DEF PostCompletion, Mutexes, Holds, Closes
<1>5. ASSUME NEW t \in Threads, PostReturns(t)
      PROVE  Mutexes'
  BY <1>5 DEF PostReturns, Mutexes, Holds, NoCall, Closes
<1>6. ASSUME NEW t \in Threads, NEW k \in Keys, Unregister(t, k)
      PROVE  Mutexes'
  BY <1>6 DEF Unregister, Mutexes, Holds, MayLock, Closes
<1>7. ASSUME NEW t \in Threads, MarkClosing(t)
      PROVE  Mutexes'
  BY <1>7 DEF MarkClosing, Mutexes, Holds, Closes
<1>8. ASSUME NEW t \in Threads, EndUnregister(t)
      PROVE  Mutexes'
  BY <1>8 DEF EndUnregister, Mutexes, Holds, NoCall, Closes
<1>9. ASSUME NEW t \in Threads, PollNothing(t)
      PROVE  Mutexes'
  BY <1>9 DEF PollNothing, Mutexes, Holds, Closes
<1>10. ASSUME NEW t \in Threads, CopySet(t)
      PROVE  Mutexes'
  BY <1>10 DEF CopySet, Mutexes, Holds, TypeOK, Closes
<1>11. ASSUME NEW t \in Threads, NEW ready \in SUBSET Fds, Select(t, ready)
      PROVE  Mutexes'
  BY <1>11 DEF Select, Mutexes, Holds, NoPoll, Closes
<1>12. ASSUME NEW t \in Threads, NEW events \in SUBSET Keys, Scan(t, events)
      PROVE  Mutexes'
  BY <1>12 DEF Scan, Mutexes, Holds, NoPoll, Closes
<1>13. ASSUME NEW t \in Threads, NEW k \in Keys, DispatchStale(t, k)
      PROVE  Mutexes'
  BY <1>13 DEF DispatchStale, Mutexes, Holds, TypeOK, Closes
<1>14. ASSUME NEW t \in Threads, NEW k \in Keys, NEW op \in Ops, Dispatch(t, k, op)
      PROVE  Mutexes'
  BY <1>14 DEF Dispatch, Mutexes, Holds, TypeOK, MayLock, Closes
<1>15. ASSUME NEW t \in Threads, Complete(t)
      PROVE  Mutexes'
  BY <1>15 DEF Complete, Mutexes, Holds, Closes
<1>16. ASSUME NEW t \in Threads, CallbackReturns(t)
      PROVE  Mutexes'
  BY <1>16 DEF CallbackReturns, Mutexes, Holds, Closes
<1>17. ASSUME NEW t \in Threads, Release(t)
      PROVE  Mutexes'
  BY <1>17 DEF Release, Mutexes, Holds, NoPoll, Closes
<1>18. CASE UNCHANGED vars
  BY <1>18 DEF vars, Mutexes, Holds, Closes
<1>19. QED
  BY <1>1, <1>2, <1>3, <1>4, <1>5, <1>6, <1>7, <1>8, <1>9, <1>10, <1>11, <1>12,
     <1>13, <1>14, <1>15, <1>16, <1>17, <1>18 DEF Next, Application, Poll

\* Each step keeps what its users know of a key: it comes back only when nobody has it.
LEMMA AliveStep ==
    ASSUME IInv, [Next]_vars
    PROVE  Alive'
<1> USE NoneAssumption DEF IInv
<1>1. ASSUME NEW t \in Threads, NEW k \in Keys, NEW f \in Fds,
             NEW concurrent \in BOOLEAN, Register(t, k, f, concurrent)
      PROVE  Alive'
  <2>1. \A u \in Threads, j \in Keys : Closes(u, j) => list[j] = "active"
    BY ClosedIsActive
  <2>2. \A u \in Threads : \A j \in poll[u].events : list[j] = "active"
    BY PolledIsActive
  <2>3. QED
    BY <1>1, <2>1, <2>2 DEF Register, Alive, Closes, Shape, TypeOK, Polls, Calls,
       ScanClosing, Expired
<1>2. ASSUME NEW t \in Threads, NEW k \in Keys, NEW op \in Ops, StartRead(t, k, op)
      PROVE  Alive'
  BY <1>2 DEF StartRead, Alive, Closes, MayUse, MayCall, keyVars
<1>3. ASSUME NEW t \in Threads, AddRead(t)
      PROVE  Alive'
  BY <1>3 DEF AddRead, Alive, Closes, NoCall
<1>4. ASSUME NEW t \in Threads, NEW k \in Keys, NEW op \in Ops, PostCompletion(t,
             k, op)
      PROVE  Alive'
  BY <1>4 DEF PostCompletion, Alive, Closes, MayUse, MayCall
<1>5. ASSUME NEW t \in Threads, PostReturns(t)
      PROVE  Alive'
  BY <1>5 DEF PostReturns, Alive, Closes, keyVars, NoCall
<1>6. ASSUME NEW t \in Threads, NEW k \in Keys, Unregister(t, k)
      PROVE  Alive'
  BY <1>6 DEF Unregister, Alive, Closes, TypeOK, MayUse, MayCall
<1>7. ASSUME NEW t \in Threads, MarkClosing(t)
      PROVE  Alive'
  BY <1>7 DEF MarkClosing, Alive, Closes, Shape, TypeOK, Calls
<1>8. ASSUME NEW t \in Threads, EndUnregister(t)
      PROVE  Alive'
  BY <1>8, ClosedIsActive DEF EndUnregister, Alive, Closes, Decrement, NoCall
<1>9. ASSUME NEW t \in Threads, PollNothing(t)
      PROVE  Alive'
  BY <1>9 DEF PollNothing, Alive, Closes, Shape, TypeOK, Calls, ScanClosing, Expired
<1>10. ASSUME NEW t \in Threads, CopySet(t)
      PROVE  Alive'
  BY <1>10 DEF CopySet, Alive, Closes, TypeOK, keyVars
<1>11. ASSUME NEW t \in Threads, NEW ready \in SUBSET Fds, Select(t, ready)
      PROVE  Alive'
  BY <1>11 DEF Select, Alive, Closes, TypeOK, keyVars, NoPoll
<1>12. ASSUME NEW t \in Threads, NEW events \in SUBSET Keys, Scan(t, events)
      PROVE  Alive'
  BY <1>12 DEF Scan, Alive, Closes, TypeOK, NoPoll
<1>13. ASSUME NEW t \in Threads, NEW k \in Keys, DispatchStale(t, k)
      PROVE  Alive'
  BY <1>13 DEF DispatchStale, Alive, Closes, TypeOK, keyVars
<1>14. ASSUME NEW t \in Threads, NEW k \in Keys, NEW op \in Ops, Dispatch(t, k, op)
      PROVE  Alive'
  BY <1>14 DEF Dispatch, Alive, Closes, TypeOK, Locks
<1>15. ASSUME NEW t \in Threads, Complete(t)
      PROVE  Alive'
  BY <1>15 DEF Complete, Alive, Closes, keyVars
<1>16. ASSUME NEW t \in Threads, CallbackReturns(t)
      PROVE  Alive'
  BY <1>16 DEF CallbackReturns, Alive, Closes, keyVars
<1>17. ASSUME NEW t \in Threads, Release(t)
      PROVE  Alive'
  <2>1. poll[t].key \in Keys /\ list[poll[t].key] = "active"
    BY <1>17, PolledIsActive DEF Release, Shape
  <2>2. ASSUME NEW j \in Keys, list'[j] # list[j]
        PROVE  list[j] = "active" /\ list'[j] = "closing" /\ ~Registered(j)
    <3>1. j = poll[t].key /\ refs[j] = 1 /\ list'[j] = "closing"
      BY <1>17, <2>1, <2>2 DEF Release, Decrement, TypeOK
    <3>2. Pollers(j) # {} /\ IsFiniteSet(Pollers(j))
      BY <1>17, <3>1, FS_Subset, ThreadsAssumption DEF Pollers, Release, Shape
    <3>3. Cardinality(Pollers(j)) \in Nat /\ Cardinality(Pollers(j)) # 0
      BY <3>2, FS_EmptySet, FS_CardinalityType
    <3>4. QED
      BY <2>1, <3>1, <3>3 DEF Counted
  <2>3. \A u \in Threads : /\ u # t => poll'[u] = poll[u]
                          /\ poll'[t].at \notin {"completed", "callback"}
    BY <1>17 DEF Release, TypeOK, NoPoll
  <2>4. UNCHANGED <<closing, fd, cb, allow, call>>
    BY <1>17 DEF Release
  <2>5. \A u \in Threads : call[u].at # "none" => call[u].key \in Keys
    BY DEF Shape, TypeOK, Calls
  <2>6. \A j \in Keys : Registered(j) => list'[j] = list[j]
    BY <2>2
  <2>7. \A j \in Keys : cb[j] => list'[j] = list[j]
    BY <2>6 DEF Registered
  <2>8. \A u \in Threads : call[u].at # "none" => list'[call[u].key] # "free"
    BY <2>2, <2>5 DEF Alive
  <2>9. QED
    BY <2>2, <2>3, <2>4, <2>7, <2>8 DEF Alive, Registered, Closes
<1>18. CASE UNCHANGED vars
  BY <1>18 DEF vars, Alive, Closes
<1>19. QED
  BY <1>1, <1>2, <1>3, <1>4, <1>5, <1>6, <1>7, <1>8, <1>9, <1>10, <1>11, <1>12,
     <1>13, <1>14, <1>15, <1>16, <1>17, <1>18 DEF Next, Application, Poll

\* Each step keeps the descriptors apart and the set equal to the reads that wait.
LEMMA DescriptorsStep ==
    ASSUME IInv, [Next]_vars
    PROVE  Descriptors'
<1> USE NoneAssumption DEF IInv
<1>1. ASSUME NEW t \in Threads, NEW k \in Keys, NEW f \in Fds,
             NEW concurrent \in BOOLEAN, Register(t, k, f, concurrent)
      PROVE  Descriptors'
  BY <1>1 DEF Register, Descriptors, SetMatches, Open, Alive, TypeOK, ScanClosing,
     Expired
<1>2. ASSUME NEW t \in Threads, NEW k \in Keys, NEW op \in Ops, StartRead(t, k, op)
      PROVE  Descriptors'
  BY <1>2 DEF StartRead, Descriptors, SetMatches, Open, keyVars
<1>3. ASSUME NEW t \in Threads, AddRead(t)
      PROVE  Descriptors'
  <2> DEFINE k == call[t].key
  <2>1. k \in Keys /\ (~closing[k] => cb[k] /\ fd[k] \in Fds)
    BY <1>3, ReadIsOpen DEF AddRead, TypeOK, Calls, Shape
  <2>2. /\ \A j \in Keys : j # k \/ closing[k] => reads'[j] = reads[j]
        /\ rfdset' = IF closing[k] THEN rfdset ELSE rfdset \cup {fd[k]}
    BY <1>3 DEF AddRead, Refused, TypeOK
  <2>3. UNCHANGED <<cb, fd>>
    BY <1>3 DEF AddRead
  <2>4. QED
    BY <2>1, <2>2, <2>3 DEF Descriptors, SetMatches, Open
<1>4. ASSUME NEW t \in Threads, NEW k \in Keys, NEW op \in Ops, PostCompletion(t,
             k, op)
      PROVE  Descriptors'
  BY <1>4 DEF PostCompletion, Descriptors, SetMatches, Open
<1>5. ASSUME NEW t \in Threads, PostReturns(t)
      PROVE  Descriptors'
  BY <1>5 DEF PostReturns, Descriptors, SetMatches, Open, keyVars
<1>6. ASSUME NEW t \in Threads, NEW k \in Keys, Unregister(t, k)
      PROVE  Descriptors'
  BY <1>6 DEF Unregister, Descriptors, SetMatches, Open, TypeOK
<1>7. ASSUME NEW t \in Threads, MarkClosing(t)
      PROVE  Descriptors'
  BY <1>7 DEF MarkClosing, Descriptors, SetMatches, Open
<1>8. ASSUME NEW t \in Threads, EndUnregister(t)
      PROVE  Descriptors'
  BY <1>8 DEF EndUnregister, Descriptors, SetMatches, Open
<1>9. ASSUME NEW t \in Threads, PollNothing(t)
      PROVE  Descriptors'
  BY <1>9 DEF PollNothing, Descriptors, SetMatches
<1>10. ASSUME NEW t \in Threads, CopySet(t)
      PROVE  Descriptors'
  BY <1>10 DEF CopySet, Descriptors, SetMatches, Open, keyVars
<1>11. ASSUME NEW t \in Threads, NEW ready \in SUBSET Fds, Select(t, ready)
      PROVE  Descriptors'
  BY <1>11 DEF Select, Descriptors, SetMatches, Open, keyVars
<1>12. ASSUME NEW t \in Threads, NEW events \in SUBSET Keys, Scan(t, events)
      PROVE  Descriptors'
  BY <1>12 DEF Scan, Descriptors, SetMatches, Open
<1>13. ASSUME NEW t \in Threads, NEW k \in Keys, DispatchStale(t, k)
      PROVE  Descriptors'
  BY <1>13 DEF DispatchStale, Descriptors, SetMatches, Open, keyVars
<1>14. ASSUME NEW t \in Threads, NEW k \in Keys, NEW op \in Ops, Dispatch(t, k, op)
      PROVE  Descriptors'
  <2>1. list[k] = "active" /\ ~Closes(t, k)
    BY <1>14, PolledIsActive DEF Dispatch, Shape, Closes
  <2>2. cb[k] /\ fd[k] \in Fds
    BY <1>14, <2>1, LockedIsOpen DEF Dispatch
  <2>3. /\ \A j \in Keys : reads'[j] \subseteq reads[j]
        /\ reads'[k] # {} => rfdset' = rfdset
    BY <1>14 DEF Dispatch, TypeOK
  <2>4. rfdset' \subseteq rfdset /\ rfdset \ {fd[k]} \subseteq rfdset'
    BY <1>14 DEF Dispatch
  <2>5. UNCHANGED <<cb, fd>>
    BY <1>14 DEF Dispatch
  <2>6. ASSUME NEW j \in Keys, cb[j], NEW o \in reads'[j]
        PROVE  fd[j] \in rfdset'
    <3>1. o \in reads[j]
      BY <2>3, <2>6
    <3>2. fd[j] \in rfdset
      BY <2>6, <3>1 DEF Descriptors, SetMatches
    <3>3. CASE j = k
      BY <2>3, <2>6, <3>2, <3>3
    <3>4. CASE j # k
      <4>1. fd[j] # fd[k]
        BY <2>2, <2>6, <3>4, <1>14 DEF Descriptors, Dispatch
      <4>2. QED
        BY <2>4, <3>2, <4>1
    <3>5. QED
      BY <3>3, <3>4
  <2>7. rfdset' \subseteq Open'
    BY <2>4, <2>5 DEF Descriptors, SetMatches, Open
  <2>8. QED
    BY <2>5, <2>6, <2>7 DEF Descriptors, SetMatches
<1>15. ASSUME NEW t \in Threads, Complete(t)
      PROVE  Descriptors'
  BY <1>15 DEF Complete, Descriptors, SetMatches, Open, keyVars
<1>16. ASSUME NEW t \in Threads, CallbackReturns(t)
      PROVE  Descriptors'
  BY <1>16 DEF CallbackReturns, Descriptors, SetMatches, Open, keyVars
<1>17. ASSUME NEW t \in Threads, Release(t)
      PROVE  Descriptors'
  BY <1>17 DEF Release, Descriptors, SetMatches, Open
<1>18. CASE UNCHANGED vars
  BY <1>18 DEF vars, Descriptors, SetMatches, Open
<1>19. QED
  BY <1>1, <1>2, <1>3, <1>4, <1>5, <1>6, <1>7, <1>8, <1>9, <1>10, <1>11, <1>12,
     <1>13, <1>14, <1>15, <1>16, <1>17, <1>18 DEF Next, Application, Poll

\* Each step keeps an operation in one place.
LEMMA PlacesStep ==
    ASSUME IInv, [Next]_vars
    PROVE  Places'
<1> USE NoneAssumption DEF IInv
<1>1. ASSUME NEW t \in Threads, NEW k \in Keys, NEW f \in Fds,
             NEW concurrent \in BOOLEAN, Register(t, k, f, concurrent)
      PROVE  Places'
  BY <1>1 DEF Register, Places, TypeOK
<1>2. ASSUME NEW t \in Threads, NEW k \in Keys, NEW op \in Ops, StartRead(t, k, op)
      PROVE  Places'
  BY <1>2 DEF StartRead, Places, keyVars, Pending
<1>3. ASSUME NEW t \in Threads, AddRead(t)
      PROVE  Places'
  <2> DEFINE k == call[t].key
             op == call[t].op
  <2>1. k \in Keys /\ op \in Ops /\ call[t].at = "recv"
    BY <1>3 DEF AddRead, TypeOK, Calls, Shape
  <2>2. \A j \in Keys : reads'[j] = IF j = k /\ ~closing[k] THEN reads[j] \cup {op} ELSE reads[j]
    <3>1. CASE closing[k]
      BY <1>3, <3>1 DEF AddRead, Refused
    <3>2. CASE ~closing[k]
      <4>1. reads' = [reads EXCEPT ![k] = @ \cup {op}]
        BY <1>3, <3>2 DEF AddRead, Refused
      <4>2. QED
        BY <2>1, <3>2, <4>1 DEF TypeOK
    <3>3. QED
      BY <3>1, <3>2
  <2>3. \A u \in Threads : IF u = t THEN call'[u].at = "none" ELSE call'[u] = call[u]
    BY <1>3 DEF AddRead, NoCall, TypeOK
  <2>4. UNCHANGED <<cb, poll>>
    BY <1>3 DEF AddRead
  <2>5. \A u \in Threads : call'[u].at = "recv" => call'[u] = call[u] /\ u # t
    BY <2>3
  <2>6. \A o \in Ops, j \in Keys : o \in reads'[j] => o \in reads[j] \/ (o = op /\ j = k)
    BY <2>2
  <2>7. QED
    BY <2>1, <2>4, <2>5, <2>6 DEF Places
<1>4. ASSUME NEW t \in Threads, NEW k \in Keys, NEW op \in Ops, PostCompletion(t,
             k, op)
      PROVE  Places'
  BY <1>4 DEF PostCompletion, Places
<1>5. ASSUME NEW t \in Threads, PostReturns(t)
      PROVE  Places'
  BY <1>5 DEF PostReturns, Places, keyVars, NoCall
<1>6. ASSUME NEW t \in Threads, NEW k \in Keys, Unregister(t, k)
      PROVE  Places'
  BY <1>6 DEF Unregister, Places
<1>7. ASSUME NEW t \in Threads, MarkClosing(t)
      PROVE  Places'
  BY <1>7 DEF MarkClosing, Places
<1>8. ASSUME NEW t \in Threads, EndUnregister(t)
      PROVE  Places'
  BY <1>8 DEF EndUnregister, Places, NoCall
<1>9. ASSUME NEW t \in Threads, PollNothing(t)
      PROVE  Places'
  BY <1>9 DEF PollNothing, Places
<1>10. ASSUME NEW t \in Threads, CopySet(t)
      PROVE  Places'
  BY <1>10 DEF CopySet, Places, TypeOK, keyVars
<1>11. ASSUME NEW t \in Threads, NEW ready \in SUBSET Fds, Select(t, ready)
      PROVE  Places'
  BY <1>11 DEF Select, Places, keyVars, NoPoll
<1>12. ASSUME NEW t \in Threads, NEW events \in SUBSET Keys, Scan(t, events)
      PROVE  Places'
  BY <1>12 DEF Scan, Places, NoPoll
<1>13. ASSUME NEW t \in Threads, NEW k \in Keys, DispatchStale(t, k)
      PROVE  Places'
  BY <1>13 DEF DispatchStale, Places, TypeOK, keyVars
<1>14. ASSUME NEW t \in Threads, NEW k \in Keys, NEW op \in Ops, Dispatch(t, k, op)
      PROVE  Places'
  <2>1. list[k] = "active" /\ ~Closes(t, k)
    BY <1>14, PolledIsActive DEF Dispatch, Shape, Closes
  <2>2. cb[k]
    BY <1>14, <2>1, LockedIsOpen DEF Dispatch
  <2>3. \A j \in Keys : reads'[j] = IF j = k THEN reads[j] \ {op} ELSE reads[j]
    BY <1>14 DEF Dispatch, TypeOK
  <2>4. \A u \in Threads : IF u = t THEN poll'[u].at = "completed" /\ poll'[u].op = op
                                   ELSE poll'[u] = poll[u]
    BY <1>14 DEF Dispatch, TypeOK, Polls
  <2>5. UNCHANGED <<cb, call>> /\ poll[t].at = "dispatch" /\ op \in reads[k]
    BY <1>14 DEF Dispatch
  <2>6. /\ \A o \in Ops, j \in Keys : o \in reads'[j] => o \in reads[j]
        /\ \A j \in Keys : cb[j] => op \notin reads'[j]
    BY <2>2, <2>3, <2>5, ZenonT(60) DEF Places
  <2>7. \A u \in Threads : u # t => /\ poll'[u] = poll[u]
                                   /\ ~(poll[u].at = "completed" /\ poll[u].op = op)
    BY <2>2, <2>4, <2>5 DEF Places
  <2>8. \A u \in Threads : ~(call[u].at = "recv" /\ call[u].op = op)
    BY <2>2, <2>5 DEF Places
  <2>9. QED
    BY <2>4, <2>5, <2>6, <2>7, <2>8 DEF Places
<1>15. ASSUME NEW t \in Threads, Complete(t)
      PROVE  Places'
  BY <1>15 DEF Complete, Places, keyVars
<1>16. ASSUME NEW t \in Threads, CallbackReturns(t)
      PROVE  Places'
  BY <1>16 DEF CallbackReturns, Places, keyVars
<1>17. ASSUME NEW t \in Threads, Release(t)
      PROVE  Places'
  BY <1>17 DEF Release, Places, NoPoll
<1>18. CASE UNCHANGED vars
  BY <1>18 DEF vars, Places
<1>19. QED
  BY <1>1, <1>2, <1>3, <1>4, <1>5, <1>6, <1>7, <1>8, <1>9, <1>10, <1>11, <1>12,
     <1>13, <1>14, <1>15, <1>16, <1>17, <1>18 DEF Next, Application, Poll

\* A step that leaves the events and the registrations leaves the references.
LEMMA SameCounts ==
    ASSUME Counted, refs' = refs,
           \A k \in Keys : list'[k] = "active" <=> list[k] = "active",
           \A u \in Threads : poll'[u].events = poll[u].events,
           \A k \in Keys : Registered(k)' <=> Registered(k)
    PROVE  Counted'
<1>1. \A k \in Keys : Pollers(k)' = Pollers(k)
  BY DEF Pollers
<1>2. QED
  BY <1>1 DEF Counted

\* Each thread but t is where it was, and t has the same events.
LEMMA SameEvents ==
    ASSUME TypeOK, NEW t \in Threads, NEW p,
           poll' = [poll EXCEPT ![t] = p], p.events = poll[t].events
    PROVE  \A u \in Threads : poll'[u].events = poll[u].events
BY DEF TypeOK

\* One reference goes, that of a poll or that of the registration.
LEMMA OneLess ==
    ASSUME TypeOK, Counted, NEW k \in Keys, list[k] = "active", refs[k] > 0, Decrement(k),
           refs[k] - 1 = Cardinality(Pollers(k)') + (IF Registered(k)' THEN 1 ELSE 0),
           \A j \in Keys \ {k} : Pollers(j)' = Pollers(j) /\ (Registered(j)' <=> Registered(j))
    PROVE  Counted'
<1>1. refs'[k] = refs[k] - 1 /\ (list'[k] = "active" <=> refs'[k] > 0)
  BY DEF Decrement, TypeOK
<1>2. \A j \in Keys \ {k} : refs'[j] = refs[j] /\ list'[j] = list[j]
  BY DEF Decrement, TypeOK
<1>3. ASSUME NEW j \in Keys
      PROVE  /\ refs'[j] = Cardinality(Pollers(j)') + (IF Registered(j)' THEN 1 ELSE 0)
             /\ list'[j] = "active" <=> refs'[j] > 0
  <2>1. CASE j = k
    BY <1>1, <2>1
  <2>2. CASE j # k
    BY <1>2, <2>2 DEF Counted
  <2>3. QED
    BY <2>1, <2>2
<1>4. QED
  BY <1>3 DEF Counted

\* Each step changes the count of a key as it changes its events and its registration.
LEMMA CountedStep ==
    ASSUME IInv, [Next]_vars
    PROVE  Counted'
<1> USE NoneAssumption DEF IInv
<1>1. ASSUME NEW t \in Threads, NEW k \in Keys, NEW f \in Fds,
             NEW concurrent \in BOOLEAN,
             Register(t, k, f, concurrent)
      PROVE  Counted'
  <2>1. \A j \in Keys : Pollers(j)' = Pollers(j)
    BY <1>1 DEF Register, Pollers
  <2>2. list[k] # "active" /\ list'[k] = "active" /\ refs'[k] = refs[k] + 1 /\ Registered(k)'
    BY <1>1 DEF Register, ScanClosing, Expired, TypeOK, Registered
  <2>3. Cardinality(Pollers(k)) \in Nat
    BY FS_Subset, FS_CardinalityType, ThreadsAssumption DEF Pollers
  <2>6. refs[k] = 0 /\ ~Registered(k) /\ Cardinality(Pollers(k)) = 0
    BY <2>2, <2>3 DEF Counted, TypeOK
  <2>4. ASSUME NEW j \in Keys, j # k
        PROVE  /\ refs'[j] = refs[j] /\ (list'[j] = "active" <=> list[j] = "active")
               /\ Registered(j)' <=> Registered(j)
    BY <1>1, <2>4 DEF Register, ScanClosing, Expired, TypeOK, Registered, Closes
  <2>5. QED
    BY <2>1, <2>2, <2>4, <2>6 DEF Counted
<1>2. ASSUME NEW t \in Threads, NEW k \in Keys, NEW op \in Ops, StartRead(t, k, op)
      PROVE  Counted'
  <2>1. \A j \in Keys : Registered(j)' <=> Registered(j)
    BY <1>2 DEF StartRead, Registered, Closes, MayUse, MayCall, keyVars, TypeOK, Calls
  <2>2. QED
    BY <1>2, <2>1, SameCounts DEF StartRead, keyVars
<1>3. ASSUME NEW t \in Threads, NEW k \in Keys, NEW op \in Ops, PostCompletion(t,
             k, op)
      PROVE  Counted'
  <2>1. \A j \in Keys : Registered(j)' <=> Registered(j)
    BY <1>3 DEF PostCompletion, Registered, Closes, MayUse, MayCall, TypeOK, Calls
  <2>2. QED
    BY <1>3, <2>1, SameCounts DEF PostCompletion
<1>4. ASSUME NEW t \in Threads, AddRead(t)
      PROVE  Counted'
  <2>1. \A j \in Keys : Registered(j)' <=> Registered(j)
    BY <1>4 DEF AddRead, Registered, Closes, NoCall, TypeOK
  <2>2. QED
    BY <1>4, <2>1, SameCounts DEF AddRead
<1>5. ASSUME NEW t \in Threads, PostReturns(t)
      PROVE  Counted'
  <2>1. \A j \in Keys : Registered(j)' <=> Registered(j)
    BY <1>5 DEF PostReturns, Registered, Closes, NoCall, TypeOK, keyVars
  <2>2. QED
    BY <1>5, <2>1, SameCounts DEF PostReturns, keyVars
<1>6. ASSUME NEW t \in Threads, NEW k \in Keys, Unregister(t, k)
      PROVE  Counted'
  <2>1. Closes(t, k)' /\ Registered(k)
    BY <1>6 DEF Unregister, Closes, Registered, TypeOK
  <2>2. \A j \in Keys \ {k} : Registered(j)' <=> Registered(j)
    BY <1>6 DEF Unregister, Closes, Registered, MayUse, MayCall, TypeOK
  <2>3. Registered(k)'
    BY <2>1 DEF Registered
  <2>4. \A j \in Keys : Registered(j)' <=> Registered(j)
    BY <2>1, <2>2, <2>3
  <2>5. QED
    BY <1>6, <2>4, SameCounts DEF Unregister
<1>7. ASSUME NEW t \in Threads, MarkClosing(t)
      PROVE  Counted'
  <2>1. \A u \in Threads, j \in Keys : Closes(u, j)' <=> Closes(u, j)
    BY <1>7 DEF MarkClosing, Closes, TypeOK, Calls
  <2>2. \A j \in Keys : Registered(j)' <=> Registered(j)
    BY <1>7, <2>1 DEF MarkClosing, Registered
  <2>3. QED
    BY <1>7, <2>2, SameCounts DEF MarkClosing
<1>8. ASSUME NEW t \in Threads, EndUnregister(t)
      PROVE  Counted'
  <2> PICK k \in Keys : k = call[t].key
    BY <1>8 DEF EndUnregister, Shape, TypeOK, Calls
  <2>1. Closes(t, k) /\ Registered(k) /\ ~cb[k]
    BY <1>8 DEF EndUnregister, Closes, Registered, Alive
  <2>2. list[k] = "active" /\ refs[k] > 0
    BY <2>1, ClosedIsActive
  <2>3. \A j \in Keys : Pollers(j)' = Pollers(j)
    BY <1>8 DEF EndUnregister, Pollers
  <2>4. ~Registered(k)'
    <3>1. \A u \in Threads \ {t} : ~Closes(u, k)
      BY <2>1 DEF Mutexes, Holds
    <3>2. \A u \in Threads : ~Closes(u, k)'
      BY <1>8, <3>1 DEF EndUnregister, Closes, NoCall, TypeOK
    <3>3. cb' = cb
      BY <1>8 DEF EndUnregister
    <3>4. QED
      BY <2>1, <3>2, <3>3 DEF Registered
  <2>5. \A j \in Keys \ {k} : Registered(j)' <=> Registered(j)
    BY <1>8 DEF EndUnregister, Registered, Closes, NoCall, TypeOK
  <2>6. refs[k] - 1 = Cardinality(Pollers(k)')
    <3>1. Cardinality(Pollers(k)) \in Nat
      BY FS_Subset, FS_CardinalityType, ThreadsAssumption DEF Pollers
    <3>2. QED
      BY <2>1, <2>3, <3>1 DEF Counted
  <2>7. Decrement(k)
    BY <1>8 DEF EndUnregister
  <2>9. refs[k] - 1 = Cardinality(Pollers(k)') + (IF Registered(k)' THEN 1 ELSE 0)
    <3>1. Cardinality(Pollers(k)') \in Nat
      BY <2>3, FS_Subset, FS_CardinalityType, ThreadsAssumption DEF Pollers
    <3>2. QED
      BY <2>4, <2>6, <3>1
  <2>8. QED
    BY <2>2, <2>3, <2>5, <2>7, <2>9, OneLess
<1>9. ASSUME NEW t \in Threads, PollNothing(t)
      PROVE  Counted'
  <2>1. \A j \in Keys : list'[j] = "active" <=> list[j] = "active"
    BY <1>9 DEF PollNothing, ScanClosing, Expired
  <2>2. \A j \in Keys : Registered(j)' <=> Registered(j)
    BY <1>9 DEF PollNothing, Registered, Closes
  <2>3. QED
    BY <1>9, <2>1, <2>2, SameCounts DEF PollNothing
<1>10. ASSUME NEW t \in Threads, CopySet(t)
      PROVE  Counted'
  <2>1. \A u \in Threads : poll'[u].events = poll[u].events
    BY <1>10 DEF CopySet, TypeOK, Polls
  <2>2. \A j \in Keys : Registered(j)' <=> Registered(j)
    BY <1>10 DEF CopySet, keyVars, Registered, Closes
  <2>3. QED
    BY <1>10, <2>1, <2>2, SameCounts DEF CopySet, keyVars
<1>11. ASSUME NEW t \in Threads, NEW ready \in SUBSET Fds, Select(t, ready)
      PROVE  Counted'
  <2>1. \A u \in Threads : poll'[u].events = poll[u].events
    BY <1>11 DEF Select, NoPoll, Shape, TypeOK
  <2>2. \A j \in Keys : Registered(j)' <=> Registered(j)
    BY <1>11 DEF Select, keyVars, Registered, Closes
  <2>3. QED
    BY <1>11, <2>1, <2>2, SameCounts DEF Select, keyVars
<1>12. ASSUME NEW t \in Threads, NEW events \in SUBSET Keys, Scan(t, events)
      PROVE  Counted'
  <2>1. poll[t].events = {} /\ poll'[t].events = events
    BY <1>12 DEF Scan, NoPoll, Shape, TypeOK
  <2>2. \A u \in Threads \ {t} : poll'[u] = poll[u]
    BY <1>12 DEF Scan, TypeOK
  <2>3. \A j \in Keys : Registered(j)' <=> Registered(j)
    BY <1>12 DEF Scan, Registered, Closes
  <2>4. ASSUME NEW j \in Keys
        PROVE  /\ refs'[j] = Cardinality(Pollers(j)') + (IF Registered(j)' THEN 1 ELSE 0)
               /\ list'[j] = "active" <=> refs'[j] > 0
    <3>1. CASE j \notin events
      <4>1. Pollers(j)' = Pollers(j)
        BY <2>1, <2>2, <3>1 DEF Pollers
      <4>2. refs'[j] = refs[j] /\ list' = list
        BY <1>12, <3>1 DEF Scan, Counts
      <4>3. QED
        BY <2>3, <4>1, <4>2 DEF Counted
    <3>2. CASE j \in events
      <4>1. Pollers(j)' = Pollers(j) \cup {t} /\ t \notin Pollers(j)
        BY <2>1, <2>2, <3>2 DEF Pollers
      <4>2. IsFiniteSet(Pollers(j))
        BY FS_Subset, ThreadsAssumption DEF Pollers
      <4>3. /\ Cardinality(Pollers(j)') = Cardinality(Pollers(j)) + 1
            /\ Cardinality(Pollers(j)) \in Nat
        BY <4>1, <4>2, FS_AddElement, FS_CardinalityType
      <4>4. refs'[j] = refs[j] + 1 /\ list'[j] = "active"
        BY <1>12, <3>2 DEF Scan, Counts, Eligible
      <4>5. QED
        BY <2>3, <4>3, <4>4 DEF Counted
    <3>3. QED
      BY <3>1, <3>2
  <2>5. QED
    BY <2>4 DEF Counted
<1>13. ASSUME NEW t \in Threads, NEW k \in Keys, DispatchStale(t, k)
      PROVE  Counted'
  <2>1. \A u \in Threads : poll'[u].events = poll[u].events
    BY <1>13 DEF DispatchStale, TypeOK, Polls
  <2>2. \A j \in Keys : Registered(j)' <=> Registered(j)
    BY <1>13 DEF DispatchStale, keyVars, Registered, Closes
  <2>3. QED
    BY <1>13, <2>1, <2>2, SameCounts DEF DispatchStale, keyVars
<1>14. ASSUME NEW t \in Threads, NEW k \in Keys, NEW op \in Ops, Dispatch(t, k, op)
      PROVE  Counted'
  <2>1. \A u \in Threads : poll'[u].events = poll[u].events
    BY <1>14 DEF Dispatch, TypeOK, Polls
  <2>2. \A j \in Keys : Registered(j)' <=> Registered(j)
    BY <1>14 DEF Dispatch, Registered, Closes
  <2>3. QED
    BY <1>14, <2>1, <2>2, SameCounts DEF Dispatch
<1>15. ASSUME NEW t \in Threads, Complete(t)
      PROVE  Counted'
  <2>1. \A u \in Threads : poll'[u].events = poll[u].events
    BY <1>15 DEF Complete, TypeOK, Polls
  <2>2. \A j \in Keys : Registered(j)' <=> Registered(j)
    BY <1>15 DEF Complete, keyVars, Registered, Closes
  <2>3. QED
    BY <1>15, <2>1, <2>2, SameCounts DEF Complete, keyVars
<1>16. ASSUME NEW t \in Threads, CallbackReturns(t)
      PROVE  Counted'
  <2>1. \A u \in Threads : poll'[u].events = poll[u].events
    BY <1>16 DEF CallbackReturns, TypeOK, Polls
  <2>2. \A j \in Keys : Registered(j)' <=> Registered(j)
    BY <1>16 DEF CallbackReturns, keyVars, Registered, Closes
  <2>3. QED
    BY <1>16, <2>1, <2>2, SameCounts DEF CallbackReturns, keyVars
<1>17. ASSUME NEW t \in Threads, Release(t)
       PROVE  Counted'
  <2> PICK k \in Keys : k = poll[t].key
    BY <1>17, PolledIsActive DEF Release, Shape
  <2>1. k \in poll[t].events /\ list[k] = "active" /\ refs[k] > 0
    BY <1>17, PolledIsActive DEF Release, Shape
  <2>2. poll'[t].events = poll[t].events \ {k}
    BY <1>17 DEF Release, NoPoll, TypeOK
  <2>3. \A u \in Threads \ {t} : poll'[u] = poll[u]
    BY <1>17 DEF Release, TypeOK
  <2>4. \A j \in Keys : Registered(j)' <=> Registered(j)
    BY <1>17 DEF Release, Registered, Closes
  <2>5. \A j \in Keys \ {k} : Pollers(j)' = Pollers(j)
    BY <2>2, <2>3 DEF Pollers
  <2>6. Pollers(k)' = Pollers(k) \ {t} /\ t \in Pollers(k)
    BY <2>1, <2>2, <2>3 DEF Pollers
  <2>7. IsFiniteSet(Pollers(k))
    BY FS_Subset, ThreadsAssumption DEF Pollers
  <2>8. Cardinality(Pollers(k)') = Cardinality(Pollers(k)) - 1 /\ Cardinality(Pollers(k)) \in Nat
    BY <2>6, <2>7, FS_RemoveElement, FS_CardinalityType
  <2>9. refs[k] - 1 = Cardinality(Pollers(k)') + (IF Registered(k)' THEN 1 ELSE 0)
    BY <2>1, <2>4, <2>8 DEF Counted
  <2>10. Decrement(k)
    BY <1>17 DEF Release
  <2>11. QED
    BY <2>1, <2>4, <2>5, <2>9, <2>10, OneLess
<1>18. CASE UNCHANGED vars
  BY <1>18, SameCounts DEF vars, Registered, Closes
<1>19. QED
  BY <1>1, <1>2, <1>3, <1>4, <1>5, <1>6, <1>7, <1>8, <1>9, <1>10, <1>11, <1>12,
     <1>13, <1>14, <1>15, <1>16, <1>17, <1>18 DEF Next, Application, Poll

\* The initial state satisfies the invariant.
LEMMA InitIInv == Init => IInv
<1> SUFFICES ASSUME Init PROVE IInv
  OBVIOUS
<1>1. NoPoll \in Polls /\ NoCall \in Calls
  BY DEF NoPoll, NoCall, Polls, Calls
<1>2. TypeOK
  BY <1>1 DEF Init, TypeOK
<1>3. Shape /\ Mutexes /\ Alive /\ Places
  BY DEF Init, Shape, Mutexes, Holds, Closes, Alive, Places, NoPoll, NoCall
<1>4. Descriptors
  BY DEF Init, Descriptors, SetMatches, Open
<1>5. \A k \in Keys : Pollers(k) = {} /\ ~Registered(k)
  BY DEF Init, Pollers, Registered, Closes, NoPoll, NoCall
<1>6. Counted
  BY <1>5, FS_EmptySet DEF Init, Counted
<1>7. QED
  BY <1>2, <1>3, <1>4, <1>6 DEF IInv

\* Each step keeps the invariant.
LEMMA NextKeepsIInv == IInv /\ [Next]_vars => IInv'
BY TypeOKStep, ShapeStep, MutexesStep, AliveStep, CountedStep, DescriptorsStep,
   PlacesStep DEF IInv

\* Only unregister takes the callbacks, and with them the socket, from a key.
LEMMA UnregisterOnly ==
    ASSUME TypeOK, [Next]_vars, NEW k \in Keys, cb[k], ~cb'[k]
    PROVE  \E t \in Threads : Unregister(t, k)
<1>1. ASSUME NEW t \in Threads, Poll(t)
      PROVE  cb' = cb
  BY <1>1 DEF Poll, PollNothing, CopySet, Select, Scan, DispatchStale, Dispatch,
     Complete,
     CallbackReturns, Release, keyVars
<1>2. ASSUME NEW t \in Threads,
             AddRead(t) \/ PostReturns(t) \/ MarkClosing(t) \/ EndUnregister(t)
      PROVE  cb' = cb
  BY <1>2 DEF AddRead, PostReturns, MarkClosing, EndUnregister, keyVars
<1>3. ASSUME NEW t \in Threads, NEW j \in Keys, NEW op \in Ops,
             StartRead(t, j, op) \/ PostCompletion(t, j, op)
      PROVE  cb' = cb
  BY <1>3 DEF StartRead, PostCompletion, keyVars
<1>4. ASSUME NEW t \in Threads, NEW j \in Keys, NEW f \in Fds, NEW c \in BOOLEAN,
             Register(t, j, f, c)
      PROVE  cb'[k] = cb[k] \/ cb'[k]
  BY <1>4 DEF Register
<1>5. ASSUME NEW t \in Threads, NEW j \in Keys, Unregister(t, j)
      PROVE  j = k
  BY <1>5 DEF Unregister
<1>6. CASE UNCHANGED vars
  BY <1>6 DEF vars
<1>7. QED
  BY <1>1, <1>2, <1>3, <1>4, <1>5, <1>6 DEF Next, Application

\* The inductive invariant holds, with the types of all variables: for any number
\* of threads, keys, descriptors and operations.
THEOREM Safety == Spec => []IInv
BY InitIInv, NextKeepsIInv, PTL DEF Spec

\* select() is given every descriptor that a read waits for, and none that was
\* closed (the second test of IS_CLOSING, ticket #913).
THEOREM SetsMatch == Spec => []SetMatches
<1>1. IInv => SetMatches
  BY DEF IInv, Descriptors
<1>2. QED
  BY <1>1, Safety, PTL

\* A key in the hands of a polling thread is not put away, and one that is has
\* no references and is closing.
THEOREM KeysAreKept == Spec => []KeyKept
<1>1. IInv => KeyKept
  BY PolledIsActive DEF IInv, KeyKept, Counted, Alive
<1>2. QED
  BY <1>1, Safety, PTL

\* With concurrency disabled a callback of a key is alone, and its key is not
\* unregistered by another thread meanwhile.
THEOREM CallbacksAreExclusive == Spec => Exclusive
<1> DEFINE Alone == \A t \in Threads, k \in Keys :
                       InCallback(t, k) /\ ~allow[k]
                       => /\ \A u \in Threads \ {t} : ~InCallback(u, k)
                          /\ cb[k] /\ ~cb'[k] => call'[t] # call[t]
<1>1. ASSUME IInv, [Next]_vars
      PROVE  Alone
  <2> SUFFICES ASSUME NEW t \in Threads, NEW k \in Keys, InCallback(t, k), ~allow[k]
               PROVE  /\ \A u \in Threads \ {t} : ~InCallback(u, k)
                      /\ cb[k] /\ ~cb'[k] => call'[t] # call[t]
    OBVIOUS
  <2>1. \A u \in Threads : InCallback(u, k) => Holds(u, k)
    BY <1>1 DEF IInv, Alive, InCallback, Holds
  <2>2. \A u \in Threads \ {t} : ~InCallback(u, k)
    BY <1>1, <2>1 DEF IInv, Mutexes
  <2>3. ASSUME cb[k], ~cb'[k]
        PROVE  call'[t] # call[t]
    <3>1. PICK u \in Threads : Unregister(u, k)
      BY <1>1, <2>3, UnregisterOnly DEF IInv
    <3>2. u = t
      BY <2>1, <3>1 DEF Unregister, MayLock
    <3>3. call[t].at = "none" /\ call'[t].at = "closed"
      BY <1>1, <3>1, <3>2 DEF Unregister, MayUse, MayCall, IInv, TypeOK
    <3>4. QED
      BY <3>3
  <2>4. QED
    BY <2>2, <2>3
<1>2. QED
  BY <1>1, Safety, PTL DEF Spec, Exclusive

\* An operation that is under way is in one place: it is reported once.
THEOREM ReportedOnce == Spec => []OnePlace
<1>1. IInv => OnePlace
  BY DEF IInv, Places, OnePlace
<1>2. QED
  BY <1>1, Safety, PTL

=============================================================================
