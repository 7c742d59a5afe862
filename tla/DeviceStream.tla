---------------------------- MODULE DeviceStream ----------------------------
(***************************************************************************)
(* What the server promises about the events of its input devices, however *)
(* clients freeze and thaw them (server/dix/events.c): the events of one   *)
(* device are processed in the order in which they were read, and none is  *)
(* passed over, except that a motion which still waits is superseded by    *)
(* the next event of its device if that is a motion too.                   *)
(***************************************************************************)
EXTENDS Naturals

CONSTANT Devices

VARIABLES
    read,              \* for each device, how many events were read
    waiting,           \* those that wait: records with fields "kind" and "n",
                       \* where n is the number under which one was read
    handled            \* the number of the last one that was processed

streamVars == <<read, waiting, handled>>

Kinds == {"motion", "press", "release"}

Init ==
    /\ read = [d \in Devices |-> 0]
    /\ waiting = [d \in Devices |-> {}]
    /\ handled = [d \in Devices |-> 0]

Reads(d) == read' = [read EXCEPT ![d] = @ + 1]

Earliest(e, d) == e \in waiting[d] /\ \A f \in waiting[d] : e.n <= f.n
Latest(e, d) == e \in waiting[d] /\ \A f \in waiting[d] : f.n <= e.n

\* An event may be processed at once if none of its device waits.
Pass(d) ==
    /\ Reads(d) /\ waiting[d] = {}
    /\ handled' = [handled EXCEPT ![d] = read[d] + 1]
    /\ UNCHANGED waiting

Hold(d) ==
    /\ Reads(d) /\ UNCHANGED handled
    /\ \E kind \in Kinds :
           waiting' = [waiting EXCEPT ![d] = @ \cup {[kind |-> kind, n |-> read[d] + 1]}]

Supersede(d) ==
    /\ Reads(d) /\ UNCHANGED handled
    /\ \E e \in waiting[d] :
         /\ Latest(e, d) /\ e.kind = "motion"
         /\ waiting' = [waiting EXCEPT ![d] =
                            (@ \ {e}) \cup {[kind |-> "motion", n |-> read[d] + 1]}]

Take(d) ==
    /\ UNCHANGED read
    /\ \E e \in waiting[d] :
         /\ Earliest(e, d)
         /\ handled' = [handled EXCEPT ![d] = e.n]
         /\ waiting' = [waiting EXCEPT ![d] = @ \ {e}]

Next == \E d \in Devices : Pass(d) \/ Hold(d) \/ Supersede(d) \/ Take(d)

Spec == Init /\ [][Next]_streamVars

=============================================================================
