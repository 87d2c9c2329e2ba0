------------------------------ MODULE MCImpacts ------------------------------
(* The first round may strike twice, or hurt before the impact is told of;   *)
(* the second one may leave no trace, miss, or hurt; the third one misses. Of  *)
(* records, one fewer is kept than there are rounds.                           *)
EXTENDS Impacts

MCPatterns ==
  <<{<<"impact", "hurt">>, <<"impact", "impact", "hurt">>, <<"hurt", "impact">>},
    {<<>>, <<"impact">>, <<"impact", "report", "hurt">>},
    {<<"impact">>}>>

Symmetry == Permutations(Players)
============================================================================
