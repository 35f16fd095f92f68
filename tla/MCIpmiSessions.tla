--------------------------- MODULE MCIpmiSessions ---------------------------
(***************************************************************************)
(* IpmiSessions with two commands at a time.                               *)
(***************************************************************************)
EXTENDS IpmiSessions

\* The console commands with each other, and each of the commands that only ask or switch next
\* to one of them.  The order of a pair makes no difference: the runs are treated alike.
MCScenarios ==
  {<<"sol", "sol">>, <<"sol", "force">>, <<"force", "force">>, <<"debug", "force">>,
   <<"info", "sol">>, <<"power", "sol">>, <<"status", "force">>}
=============================================================================
