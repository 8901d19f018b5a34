---------------------------- MODULE MCLinuxMonitor ----------------------------
(* Small instances of LinuxMonitor for TLC.                                 *)
EXTENDS LinuxMonitor

MCNames == {"w", "a"}
MCWatchName == "w"
MCFileKinds == {"create", "delete", "modify"}
=============================================================================
