----------------------------- MODULE EventQueue -----------------------------
(***************************************************************************)
(* What the input event queue of the server promises (server/mi/mieq.c):   *)
(* events are handled one at a time in the order in which they were        *)
(* enqueued, except that a motion overwrites the event before it when that *)
(* is a motion of the same device that still waits.  An event may be       *)
(* tossed when the queue cannot grow, which changes nothing here.          *)
(***************************************************************************)
EXTENDS Naturals, Sequences

CONSTANTS
    Events,            \* records with fields "dev", "motion" and "data"
    NoEvent            \* a value that is no event

VARIABLES
    queue,             \* the events that wait
    current            \* the event that is being handled

eqVars == <<queue, current>>

\* e is a motion of the device whose motion is the last of q.
Supersedes(e, q) ==
    /\ q # <<>> /\ e.motion
    /\ q[Len(q)].motion /\ q[Len(q)].dev = e.dev

Init == queue = <<>> /\ current = NoEvent

Post(e) ==
    /\ queue' = IF Supersedes(e, queue) THEN [queue EXCEPT ![Len(queue)] = e]
                ELSE Append(queue, e)
    /\ UNCHANGED current

Take ==
    /\ current = NoEvent /\ queue # <<>>
    /\ current' = Head(queue)
    /\ queue' = Tail(queue)

Handled ==
    /\ current # NoEvent
    /\ current' = NoEvent
    /\ UNCHANGED queue

Next == Take \/ Handled \/ \E e \in Events : Post(e)

Spec == Init /\ [][Next]_eqVars

\* No event waits for ever.
FairSpec == Spec /\ WF_eqVars(Take)

=============================================================================
