-------------------------- MODULE MCClientTerminal --------------------------
(* Small instances of ClientTerminal for TLC. *)
EXTENDS ClientTerminal

AnyAtty    == {{}, {"in"}, {"out"}, {"in", "out", "err"}}
OnTerminal == {{"in", "out", "err"}}
InputOnly  == {{"in"}}
=============================================================================
