------------------------- MODULE MCResourceProcessing -------------------------
(***************************************************************************)
(* Small instances of ResourceProcessing for TLC.                          *)
(***************************************************************************)
EXTENDS ResourceProcessing

\* Both stable states, a transition each way, a status the code cannot handle,
\* and deletion.
MCStatuses ==
    {"available", "stopped", "starting", "stopping", "incompatible-restore",
     "gone"}

\* RDS completes its transitions, a start or stop can be somebody else's, again and
\* again, a transition can go wrong, a resource can be deleted.
MCDrift ==
    { <<"starting", "available">>, <<"stopping", "stopped">>,
      <<"available", "stopping">>, <<"stopped", "starting">>,
      <<"starting", "incompatible-restore">>, <<"available", "gone">> }

\* RDS on its own: nobody else starts or stops the resource, which may turn to
\* maintenance for ever.
QuietStatuses ==
    {"available", "stopped", "starting", "stopping", "modifying", "gone"}
QuietDrift ==
    { <<"starting", "available">>, <<"stopping", "stopped">>,
      <<"available", "modifying">>, <<"modifying", "available">> }

\* <<interval, max>>: one wait only; three waits; a maximum that the interval
\* does not divide.
MCWaitSettings == {<<1, 1>>, <<2, 5>>}
OneWaitSetting == {<<2, 5>>}
===============================================================================
