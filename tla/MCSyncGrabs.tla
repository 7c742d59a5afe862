---------------------------- MODULE MCSyncGrabs -----------------------------
(***************************************************************************)
(* Instances of SyncGrabs for TLC.                                         *)
(***************************************************************************)
EXTENDS SyncGrabs

CONSTANTS a, b

\* A grab freezes its own device or the paired one.
OneDevice == {<<TRUE, FALSE>>, <<FALSE, TRUE>>}

Passive(c, d, w, own, paired) ==
    [client |-> c, device |-> d, window |-> w, own |-> own, paired |-> paired]

\* Two clients grab the button, one below the other.
TwoPassive ==
    {Passive(a, "pointer", 1, TRUE, FALSE), Passive(b, "pointer", 2, TRUE, TRUE)}

\* The pointer is pressed and moved or released, a key is pressed.
FewEvents == [d \in Devices |-> IF d = "pointer" THEN 2 ELSE 1]

=============================================================================
