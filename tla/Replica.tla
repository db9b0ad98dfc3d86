------------------------------- MODULE Replica --------------------------------
(***************************************************************************)
(* What app-state sync promises: every collection is a log of patches kept *)
(* by the server, and the local copy of a collection is at all times what  *)
(* some prefix of its log contains, a prefix that only grows.              *)
(***************************************************************************)
EXTENDS Naturals, SequencesExt

CONSTANTS Collections, Indexes, Writes

VARIABLES
  log,   \* the server's patches of each collection
  have   \* the local copy of each collection: its version and its contents

-----------------------------------------------------------------------------
\* A patch or the contents of a collection: the write at each index, if any.
NoWrite == 0
Values == [Indexes -> Writes \cup {NoWrite}]
Nothing == [i \in Indexes |-> NoWrite]

\* Per index the last patch that touches it counts.
Contents(patches) ==
  [i \in Indexes |->
     LET touching == {v \in DOMAIN patches : patches[v][i] # NoWrite}
     IN IF touching = {} THEN NoWrite ELSE patches[Max(touching)][i]]

Copy(c, n) == [version |-> n, map |-> Contents(SubSeq(log[c], 1, n))]

Init == /\ log = [c \in Collections |-> <<>>]
        /\ have = [c \in Collections |-> [version |-> 0, map |-> Nothing]]

\* The devices of the account add patches.
Publish ==
  /\ log' \in [Collections -> Seq(Values)]
  /\ \A c \in Collections : IsPrefix(log[c], log'[c])
  /\ UNCHANGED have

\* Some local copies catch up, as far as they get.
CatchUp ==
  /\ have' = [c \in Collections |-> Copy(c, have'[c].version)]
  /\ \A c \in Collections : have'[c].version \in have[c].version..Len(log[c])
  /\ UNCHANGED log

Next == Publish \/ CatchUp

Spec == Init /\ [][Next]_<<log, have>>
=============================================================================
