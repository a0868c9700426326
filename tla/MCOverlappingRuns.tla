--------------------------- MODULE MCOverlappingRuns ---------------------------
(***************************************************************************)
(* Statuses of OverlappingRuns for TLC.                                    *)
(***************************************************************************)
EXTENDS OverlappingRuns

\* Transitions complete, a stop goes on with storage optimization, a running
\* resource may be modified.
MCStatuses ==
    {"available", "stopped", "starting", "stopping", "storage-optimization", "modifying"}
MCDrift ==
    { <<"starting", "available">>, <<"stopping", "stopped">>,
      <<"stopping", "storage-optimization">>, <<"storage-optimization", "stopped">>,
      <<"available", "modifying">>, <<"modifying", "available">> }
===============================================================================
