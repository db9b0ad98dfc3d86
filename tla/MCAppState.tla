------------------------------ MODULE MCAppState -------------------------------
(* One user call, which touches both collections, and another device that   *)
(* changes two indexes of one of them.                                      *)
EXTENDS AppState

CONSTANTS c1, c2, i1, i2

MCCalls == {{<<c1, i1>>, <<c2, i1>>}}
MCChanges == {<<c1, i1>>, <<c1, i2>>}
=============================================================================
