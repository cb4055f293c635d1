--------------------------- MODULE MCToothLogger ---------------------------
(* ToothLogger with one client, the tool's channel or the SD card thread. *)
EXTENDS ToothLogger

MCDeployments == {{"usb"}, {"sd"}}
=============================================================================
