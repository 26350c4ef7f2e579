--------------------------- MODULE AppendOnlyLog ---------------------------
(***************************************************************************)
(* What the audit trail promises each tenant: a log that only ever grows,  *)
(* by one entry at its end, every entry written at most once.              *)
(* AuditChain implements it (see AuditChain!LogRefinement).                *)
(***************************************************************************)
EXTENDS Sequences, Functions

CONSTANTS Tenants,  \* the tenants
          Entries   \* identities of the entries that can be logged

VARIABLE log        \* log[t]: the entries of tenant t, oldest first

Logged == UNION {Range(log[t]) : t \in Tenants}

Init == log = [t \in Tenants |-> <<>>]

AppendEntry(t, e) == log' = [log EXCEPT ![t] = Append(@, e)]

Next == \E e \in Entries \ Logged, t \in Tenants : AppendEntry(t, e)

Spec == Init /\ [][Next]_log
=============================================================================
