---------------------------- MODULE MCSimMailbox ----------------------------
(* SimMailbox for TLC: speeds of four values, drifts that go up, down and  *)
(* stand still, and requests of one key, of two, of none, of a key that    *)
(* does not exist and of a value out of its range.                         *)
EXTENDS SimMailbox

AtIdle == [rpm |-> 2, drift |-> 0, on |-> 1, depth |-> 0]
AllForms ==
  {[rpm |-> 2], [rpm |-> 9], [drift |-> 1], [drift |-> 0], [drift |-> -1],
   [on |-> 0], [on |-> 1], [depth |-> 1], [drift |-> 0, rpm |-> 2],
   [knock |-> 1, drift |-> 1], << >>}
=============================================================================
