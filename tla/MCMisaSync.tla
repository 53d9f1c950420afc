----------------------------- MODULE MCMisaSync -----------------------------
(***************************************************************************)
(* A small instance of MisaSync for TLC.                                   *)
(***************************************************************************)
EXTENDS MisaSync

(* A customer on one page and its invoice on the next.                     *)
MCPages ==
    << <<[kind |-> "customer", external_id |-> "CUS-1", version |-> 1]>>,
       <<[kind |-> "invoice", external_id |-> "INV-1", version |-> 1]>> >>
=============================================================================
