----------------------------- MODULE MCHostInfo -----------------------------
(***************************************************************************)
(* Instances of HostInfo for TLC.                                          *)
(***************************************************************************)
EXTENDS HostInfo

(* One or two resolver threads, room for two pending lookups or for one (a  *)
(* configured 0); the policy may also be switched off.                      *)
MCDefault == [enabled |-> TRUE, threads |-> 1, maxQueue |-> 2]
MCOptions ==
  {[enabled |-> TRUE, threads |-> 2, maxQueue |-> 0],
   [enabled |-> FALSE, threads |-> 1, maxQueue |-> 2]}

=============================================================================
