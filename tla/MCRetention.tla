---------------------------- MODULE MCRetention ----------------------------
(***************************************************************************)
(* Retention for model checking: two windows and two hosts, of which one   *)
(* may be erased; one row of a class; one row that may arrive late.        *)
(***************************************************************************)
EXTENDS Retention

Row(id, win, host, class) == [id |-> id, win |-> win, host |-> host, class |-> class]

MCRows == {Row(1, 0, "a", FALSE), Row(2, 0, "b", FALSE), Row(3, 0, "a", TRUE), Row(4, 1, "b", FALSE)}
MCBacklog == {r \in MCRows : r.id \in {2, 3}}
MCStragglers == {r \in MCRows : r.id = 1}
MCPredicates == {[host |-> "a", label |-> FALSE, from |-> 0, to |-> 2]}
=============================================================================
