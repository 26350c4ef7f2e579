---------------------------- MODULE MCAuditChain ----------------------------
(* Three log() calls and one consumer insert over three tenants: t1 and t2 *)
(* share an advisory lock key, t3's key does not fit in an int8.           *)
EXTENDS AuditChain

MCTenantDigest == [t \in Tenants |-> IF t = "t3" THEN 9 ELSE 2]

(* The whole trail, the entries of the second instant, and of the first.   *)
MCRanges == {<<NoDate, NoDate>>, <<1, NoDate>>, <<NoDate, 0>>}
=============================================================================
