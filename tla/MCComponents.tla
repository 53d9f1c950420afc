---------------------------- MODULE MCComponents ----------------------------
(***************************************************************************)
(* Small instances of the components for TLC.                              *)
(***************************************************************************)
EXTENDS Components

CONSTANTS c1, c2, i1, i2, b1, b2, u1, u2, u3

(* Every revision may be the target of a command.                          *)
MCTargets == 0 .. 12

(* Invoice files that name two invoices in opposite orders, with different *)
(* amounts and customer names; a statement with a repeated line.           *)
Customer(c, name) == [table |-> "customers", key |-> c, value |-> <<name>>]
Invoice(i, c, amount) == [table |-> "invoices", key |-> i, value |-> <<c, amount>>]
Bank(b) == [table |-> "bank", key |-> b, value |-> <<"row">>]
MCFiles ==
    { <<Customer(c1, "A"), Invoice(i1, c1, 1), Customer(c2, "A"), Invoice(i2, c2, 1)>>,
      <<Customer(c2, "A"), Invoice(i2, c2, 2), Customer(c1, "B"), Invoice(i1, c1, 1)>>,
      <<Bank(b1), Bank(b2), Bank(b1)>>, <<Bank(b2), Bank(b1)>> }

(* Rules whose periods meet in a day, are contained in each other, or are  *)
(* apart; of equal and of different scope, priority, value and version.    *)
Rule(scope, priority, from, to, value, version) ==
    [type |-> "due_date", scope |-> scope, priority |-> priority, from |-> from, to |-> to,
     value |-> value, version |-> version]
MCDrafts == {Rule("tenant", 1, 3, 3, "b", 1)}
MCDefinitions ==
    {Rule("default", 1, 1, 1000, "a", 1), Rule("default", 1, 1, 2, "b", 2),
     Rule("default", 1, 2, 3, "c", 3), Rule("tenant", 2, 2, 2, "a", 1),
     Rule("tenant", 1, 3, 3, "b", 1), Rule("tenant", 1, 3, 3, "b", 2)}

(* Pages that repeat a record of their own sync and of an earlier one; a   *)
(* payment has the identity of a customer.                                 *)
Record(kind, id, version) == [kind |-> kind, external_id |-> id, version |-> version]
MCPages ==
    << <<Record("customer", "A", 1), Record("invoice", "B", 1)>>,
       <<Record("invoice", "B", 1), Record("customer", "A", 2)>>,
       <<Record("invoice", "C", 1), Record("payment", "A", 1)>> >>

(* One policy of every mode; the last two are refused.                     *)
Requested(mode, kill, canary, confirmed) ==
    [mode |-> mode, kill_switch |-> kill, canary |-> canary, confirmed |-> confirmed]
MCPolicies ==
    {Requested("shadow", FALSE, 0, FALSE), Requested("canary", FALSE, 10, TRUE),
     Requested("enabled", FALSE, 0, TRUE), Requested("disabled", TRUE, 0, FALSE),
     Requested("enabled", TRUE, 0, TRUE), Requested("canary", FALSE, 10, FALSE)}
=============================================================================
