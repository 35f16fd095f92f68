---------------------------- MODULE MCSolConsole ----------------------------
(***************************************************************************)
(* SolConsole with chunks that cut the escape sequences: the escape key    *)
(* alone, which may be doubled across two chunks, and a chunk whose first  *)
(* key ends such a sequence (a break before the key "k") or passes, and    *)
(* which holds a whole one, to quit.                                       *)
(***************************************************************************)
EXTENDS SolConsole

MCInputs == {<<Esc>>, <<"b", "k", Esc, "q">>}

=============================================================================
