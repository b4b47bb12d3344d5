---------------------------- MODULE MCLineEditor ----------------------------
(* A small alphabet for LineEditor: two letters, the prompt, one command.  *)
EXTENDS LineEditor

CONSTANTS a, b

\* completes from one letter, within the limit
SmallCommands == {<<a, b>>}
==============================================================================
