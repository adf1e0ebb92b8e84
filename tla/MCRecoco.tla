------------------------------ MODULE MCRecoco ------------------------------
(***************************************************************************)
(* The tasks in pairs, with what makes each pair interact.                 *)
(***************************************************************************)
EXTENDS Recoco

Setup(ts, c, m) == [tasks |-> ts, calls |-> c, msgs |-> m]
MCSetups ==
    {Setup({"later", "io"}, 1, 0), Setup({"later", "timer"}, 2, 0),
     Setup({"io", "timer"}, 0, 1), Setup({"timer", "block"}, 0, 0)}
=============================================================================
