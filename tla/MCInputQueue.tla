---------------------------- MODULE MCInputQueue ----------------------------
(***************************************************************************)
(* Instances of InputQueue for TLC.                                        *)
(***************************************************************************)
EXTENDS InputQueue

\* With an input thread no client destroys a barrier under pressure.
SafeSetups == {[threaded |-> TRUE, barriers |-> FALSE],
               [threaded |-> FALSE, barriers |-> TRUE]}

=============================================================================
