------------------------------ MODULE MCEvents ------------------------------
(***************************************************************************)
(* Two sinks: one waits for both components, the other for one of them.    *)
(***************************************************************************)
EXTENDS Events
CONSTANTS a, b, s, t

MCWants == (s :> {a, b}) @@ (t :> {b})
=============================================================================
