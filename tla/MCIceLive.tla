------------------------------- MODULE MCIceLive -------------------------------
(***************************************************************************)
(* The networks of MCIceChecks, for IceLive.                               *)
(***************************************************************************)
EXTENDS MCIceChecks, IceLive
====
