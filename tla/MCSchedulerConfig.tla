-------------------------- MODULE MCSchedulerConfig --------------------------
(***************************************************************************)
(* Props for TLC: the values around each bound of the validations.         *)
(***************************************************************************)
EXTENDS SchedulerConfig

MCSeconds == {-1, 0, 1, 59, 60, 61, 1800, 1801, 6900, 6901}

\* Nothing, one name, two, the same twice, a blank one.
MCRegionLists ==
    {<<>>, <<"r1">>, <<"r1", "r2">>, <<"r1", "r1">>, <<"r1", "">>}
===============================================================================
