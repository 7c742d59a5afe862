------------------------------ MODULE XorgList ------------------------------
(***************************************************************************)
(* The lists of clients the server keeps (server/include/list.h), as       *)
(* sequences.  An element has one link for each kind of list, so it is on  *)
(* such a list once or not at all.                                         *)
(***************************************************************************)
EXTENDS Integers, Sequences, SequencesExt

Once(list) == \A i, j \in 1 .. Len(list) : list[i] = list[j] => i = j

\* Where a client that is on the list stands.
Place(list, c) == CHOOSE i \in DOMAIN list : list[i] = c

\* xorg_list_del: nothing happens to an element that is on no list.
Without(list, c) ==
    IF c \in Range(list) THEN RemoveAt(list, Place(list, c)) ELSE list

=============================================================================
