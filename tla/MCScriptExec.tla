---------------------------- MODULE MCScriptExec ----------------------------
(* Instances of ScriptExec for TLC: three scripts of up to a message and a  *)
(* return value or error, queues of two.                                    *)
EXTENDS ScriptExec

=============================================================================
