----------------------------- MODULE MCHostConsole -----------------------------
(***************************************************************************)
(* Scripts for HostConsole: two programs in a row, a program and a block,  *)
(* input with type-ahead, a broken pipeline, the REPL.                     *)
(***************************************************************************)
EXTENDS HostConsole

MCScripts == {
  <<"program", "program", "builtin", "python">>,
  <<"missing", "program", "python", "program">>,
  <<"input", "python", "program", "blank">>,
  <<"python", "input", "blank", "program">>,
  <<"open", "python", "blank", "program">>,
  <<"open", "input", "enter", "blank">>,
  <<"enter", "open", "leave", "program">>,
  <<"enter", "program", "leave", "leave">>}
=============================================================================
