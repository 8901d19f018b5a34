------------------------------ MODULE MCExecCmd ------------------------------
(* Small instances of ExecCmd for TLC.                                      *)
EXTENDS ExecCmd

MCVersions == {"v1", "v2"}
MCMessages == {<<"m", ".", "nl">>, <<"m", ".", "nl", "m", ".", "m", "nl">>}
MCOutputs == UNION {[1 .. k -> {"m", "nl", "NUL"}] : k \in 0 .. 4}
=============================================================================
