--------------------------- MODULE MCOutlookSync ---------------------------
(***************************************************************************)
(* A small instance of OutlookSync for TLC: one inbox in which two messages *)
(* arrive, the first is changed twice, and something is deleted at the end. *)
(***************************************************************************)
EXTENDS OutlookSync, TLC

CONSTANTS o1, m1, m2, gone

MCChanges == o1 :> <<m1, m1, m2, m1, gone>>
=============================================================================
