------------------------------- MODULE MCRouter -------------------------------
(***************************************************************************)
(* A small instance of the router: two requests for a name that may have   *)
(* one of two values, or for no name.                                      *)
(***************************************************************************)
EXTENDS Router, TLC

CONSTANTS d, e, v, w, s1, s2, p, q1, q2

\* The value of the name, unsigned, as a peer without a key has it.
MCRelayed ==
    {[hash |-> d, ns |-> "base", value |-> v, ts |-> 1, by |-> Unsigned, form |-> 0,
      highS |-> FALSE, source |-> p]}

\* The keys are alike, and so are the requests; of the values one is the peer's.
MCSymmetry == Permutations({s1, s2}) \cup Permutations({q1, q2})
===============================================================================
