---------------------------- MODULE MCDashboard ----------------------------
(* Dashboard on a small instance: one member, two permissions, of which the *)
(* role gives one; two invoices, of which one is paid.                      *)
EXTENDS Dashboard

MCPrice   == [inv1 |-> 3, inv2 |-> 2]
MCPaid0   == [inv1 |-> 2, inv2 |-> 2]
MCAmounts == -1 .. 2
=============================================================================
