--------------------------- MODULE MCBreachMonitor ---------------------------
(* An update investigates an incident as a breach, resolves it, or takes    *)
(* the classification back.                                                 *)
EXTENDS BreachMonitor

MCDtos ==
  { [status |-> "investigating", breach |-> "yes"],
    [status |-> "resolved", breach |-> NoChange],
    [status |-> NoChange, breach |-> "no"] }
=============================================================================
