----------------------------- MODULE MCSandboxes ------------------------------
(* An instance of Sandboxes for TLC: two missions, a reserve of one machine. *)
EXTENDS Sandboxes

Directories == 0 .. 3
===============================================================================
