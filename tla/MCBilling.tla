------------------------------ MODULE MCBilling ------------------------------
(* Two subscriptions bought for different plans, one of which is cancelled  *)
(* and the other not paid; the reads are in one process and overlap,        *)
(* webhooks arrive at both.                                                 *)
EXTENDS Billing, TLC

CONSTANTS i1, s1, s2, basic, pro, p1, r1, r2

MCPlanOf == (s1 :> basic) @@ (s2 :> pro)
MCSays == {<<s1, "canceled">>}
MCInvoiceEvents ==
  {[invoice |-> i1, sub |-> s1, named |-> FALSE, status |-> "open", paid |-> FALSE],
   [invoice |-> i1, sub |-> s1, named |-> FALSE, status |-> "paid", paid |-> TRUE],
   [invoice |-> i1, sub |-> s1, named |-> TRUE, status |-> Unsaid, paid |-> FALSE]}
MCAt == (r1 :> p1) @@ (r2 :> p1)
=============================================================================
