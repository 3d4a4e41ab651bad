------------------------------ MODULE TimerSet ------------------------------
(***************************************************************************)
(* What pjlib promises of a timer heap (pjlib/include/pj/timer.h): a set   *)
(* of entries, each with a time.  A poll takes entries out that are due,   *)
(* the earliest first, and calls them back; a cancelled entry is not       *)
(* called.  TimerHeap implements it with an array and a table of ids.      *)
(***************************************************************************)
EXTENDS Naturals

CONSTANTS Entries, Pollers, None

VARIABLES armed,    \* the entries scheduled
          when,     \* their times
          calling,  \* calling[p]: the entry whose callback poller p owes, or None
          clock

setVars == <<armed, when, calling, clock>>

SetInit == /\ armed = {}
           /\ when = [e \in Entries |-> 0]
           /\ calling = [p \in Pollers |-> None]
           /\ clock = 0

Arm(e) == /\ e \notin armed
          /\ armed' = armed \cup {e}
          /\ when' \in [Entries -> Nat]
          /\ \A f \in Entries \ {e} : when'[f] = when[f]
          /\ UNCHANGED <<calling, clock>>

Disarm(e) == /\ e \in armed
             /\ armed' = armed \ {e}
             /\ UNCHANGED <<when, calling, clock>>

\* Due, and none earlier.
Expire(p, e) == /\ e \in armed /\ calling[p] = None
                /\ when[e] <= clock
                /\ \A f \in armed : when[e] <= when[f]
                /\ armed' = armed \ {e}
                /\ calling' = [calling EXCEPT ![p] = e]
                /\ UNCHANGED <<when, clock>>

Called(p) == /\ calling[p] # None
             /\ calling' = [calling EXCEPT ![p] = None]
             /\ UNCHANGED <<armed, when, clock>>

Tick == clock' = clock + 1 /\ UNCHANGED <<armed, when, calling>>

SetNext == \/ \E e \in Entries : Arm(e) \/ Disarm(e)
           \/ \E p \in Pollers : Called(p) \/ \E e \in Entries : Expire(p, e)
           \/ Tick

SetSpec == SetInit /\ [][SetNext]_setVars
=============================================================================
