------------------------------ MODULE MCRBTree ------------------------------
(***************************************************************************)
(* Four element handles, two of them equivalent (equal keys), so that an   *)
(* INSERT can meet an equivalent element and a loop has elements on both   *)
(* sides of the current one.                                               *)
(***************************************************************************)
EXTENDS RBTree

CONSTANTS e1, e2, e3, e4

MCElems == {e1, e2, e3, e4}
MCKey   == [e \in MCElems |-> CASE e = e1 -> 1 [] e = e2 -> 2 [] e = e3 -> 2 [] OTHER -> 3]

=============================================================================
