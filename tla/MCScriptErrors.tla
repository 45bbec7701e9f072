--------------------------- MODULE MCScriptErrors ---------------------------
(* Two errors and a buffer of two.                                          *)
EXTENDS ScriptErrors
CONSTANTS e1, e2

MCErrors == {e1, e2}
=============================================================================
