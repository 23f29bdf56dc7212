----------------------------- MODULE MCDispatch -----------------------------
(* Instances of OmccDispatch for TLC; the configurations give the constants. *)
EXTENDS OmccDispatch

\* Two sessions of one kernel instance, where the newer one can overtake the
\* older, and the first session of another instance, lower than the newer one.
TwoInstances ==
  {<<"normal", 1, 1>>, <<"normal", 1, 2>>, <<"high", 1, 2>>, <<"high", 2, 1>>}
OneSession == Prio \X {1} \X {1}
=============================================================================
