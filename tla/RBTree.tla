------------------------------- MODULE RBTree -------------------------------
(***************************************************************************)
(* The red-black tree API of                                               *)
(* src/rbtree/include_public/avsystem/commons/rbtree.h, modelled from the  *)
(* contract its macros and their documentation state (the tree's          *)
(* implementation is not in the repository).  A tree is the set of         *)
(* elements attached to it, ordered by the comparator; the balancing is    *)
(* invisible through the API and left out.                                 *)
(*                                                                         *)
(* Elements are handles with a life cycle: Free (not allocated), Detached  *)
(* (allocated, in no tree) and Attached.  The comparator is the order of   *)
(* the elements' keys, Key[e]; elements with equal keys are equivalent.    *)
(* One client runs the operations, and may run AVS_RBTREE_FOREACH or       *)
(* AVS_RBTREE_FOREACH_REVERSE with any of the other operations as the      *)
(* loop body.  ret is what the last call returned.                         *)
(***************************************************************************)
EXTENDS Integers, Sequences, FiniteSets

CONSTANTS
  Elems,              \* element handles the client may allocate
  Key,                \* [Elems -> Int]: what the comparator compares
  NULL,               \* the null pointer
  MayDetachCurrent    \* whether a FOREACH body may DETACH the current element

ASSUME Key \in [Elems -> Int] /\ NULL \notin Elems /\ MayDetachCurrent \in BOOLEAN

VARIABLES
  tree,      \* AVS_RBTREE(type): TRUE when the tree pointer is not NULL
  elem,      \* [Elems -> {"Free", "Detached", "Attached"}]
  ret,       \* the last call's result
  it,        \* the FOREACH iterator, NULL when no loop runs
  dir,       \* "next" for FOREACH, "prev" for FOREACH_REVERSE
  visited,   \* history: the set of elements the running loop has visited
  stable     \* history: the elements attached since the loop began

vars == <<tree, elem, ret, it, dir, visited, stable>>

Attached == {e \in Elems : elem[e] = "Attached"}
Looping  == it # NULL

\* avs_rbtree_element_comparator_t: negative, zero or positive.
Cmp(a, b) == Key[a] - Key[b]

\* The least (cmp < 0 first) element of a set, NULL for the empty set.
Least(S)    == IF S = {} THEN NULL ELSE CHOOSE x \in S : \A y \in S : Cmp(x, y) <= 0
Greatest(S) == IF S = {} THEN NULL ELSE CHOOSE x \in S : \A y \in S : Cmp(x, y) >= 0

\* AVS_RBTREE_SIZE
Size == Cardinality(Attached)

\* AVS_RBTREE_FIND: the attached element equivalent to the value, or NULL.
Find(v) == IF \E x \in Attached : Cmp(x, v) = 0
           THEN CHOOSE x \in Attached : Cmp(x, v) = 0 ELSE NULL

\* Mutant: the first element is taken from the wrong end of the tree.
First_wrong_end == Greatest(Attached)

\* AVS_RBTREE_FIRST and AVS_RBTREE_LAST.
First == Least(Attached)
Last  == Greatest(Attached)

\* AVS_RBTREE_ELEM_NEXT: the successor, NULL for the last or a detached element.
ElemNext(e) ==
  IF elem[e] # "Attached" THEN NULL ELSE Least({x \in Attached : Cmp(x, e) > 0})

\* AVS_RBTREE_ELEM_PREV: the predecessor, NULL for the first or a detached one.
ElemPrev(e) ==
  IF elem[e] # "Attached" THEN NULL ELSE Greatest({x \in Attached : Cmp(x, e) < 0})

\* AVS_RBTREE_INSERT of a detached element: it is attached and returned
\* unless an equivalent element is attached, which is returned instead.
Insert(e) ==
  IF Find(e) = NULL
  THEN elem' = [elem EXCEPT ![e] = "Attached"] /\ ret' = e
  ELSE ret' = Find(e) /\ UNCHANGED elem

-----------------------------------------------------------------------------
(* Operations.  The tree macros are undefined on a NULL tree, and so       *)
(* are guarded by tree; a loop body may not free the tree nor the current  *)
(* element, nor (unless MayDetachCurrent) detach the current element.      *)

Body == UNCHANGED <<it, dir, visited>>

\* AVS_RBTREE_NEW: a new empty tree, or NULL when allocation fails.
RbtreeNew ==
  /\ ~tree
  /\ tree' \in BOOLEAN
  /\ UNCHANGED <<elem, ret, it, dir, visited, stable>>

\* AVS_RBTREE_DELETE: every attached element is released (after the
\* deleter ran on it) and *tree_ptr is set to NULL.
RbtreeDelete ==
  /\ tree /\ ~Looping
  /\ tree' = FALSE
  /\ elem' = [e \in Elems |-> IF elem[e] = "Attached" THEN "Free" ELSE elem[e]]
  /\ UNCHANGED <<ret, it, dir, visited, stable>>

\* AVS_RBTREE_ELEM_NEW(_BUFFER): a detached element, or NULL.
ElemNew(e) ==
  /\ elem[e] = "Free"
  /\ \E ok \in BOOLEAN :
       /\ elem' = [elem EXCEPT ![e] = IF ok THEN "Detached" ELSE "Free"]
       /\ ret' = IF ok THEN e ELSE NULL
  /\ UNCHANGED <<tree, stable>> /\ Body

\* AVS_RBTREE_ELEM_DELETE_DETACHED
ElemDeleteDetached(e) ==
  /\ elem[e] = "Detached" /\ e # it
  /\ elem' = [elem EXCEPT ![e] = "Free"]
  /\ UNCHANGED <<tree, ret, stable>> /\ Body

\* AVS_RBTREE_INSERT
RbtreeInsert(e) ==
  /\ tree /\ elem[e] = "Detached"
  /\ Insert(e)
  /\ UNCHANGED <<tree, stable>> /\ Body

\* AVS_RBTREE_DETACH of an attached element, which it returns.
RbtreeDetach(e) ==
  /\ tree /\ elem[e] = "Attached"
  /\ e = it => MayDetachCurrent
  /\ elem' = [elem EXCEPT ![e] = "Detached"]
  /\ ret' = e
  /\ stable' = stable \ {e}
  /\ UNCHANGED tree /\ Body

\* AVS_RBTREE_DELETE_ELEM: detach (asserting it was found), deleter, free.
RbtreeDeleteElem(e) ==
  /\ tree /\ elem[e] = "Attached" /\ e # it
  /\ elem' = [elem EXCEPT ![e] = "Free"]
  /\ stable' = stable \ {e}
  /\ UNCHANGED <<tree, ret>> /\ Body

\* The queries: SIZE, FIND (by an element's value), FIRST, LAST,
\* ELEM_NEXT and ELEM_PREV outside a loop.
Query ==
  /\ tree
  /\ \/ ret' = Size
     \/ \E v \in Elems : ret' = Find(v)
     \/ ret' = First
     \/ ret' = Last
     \/ \E e \in Elems \ {x \in Elems : elem[x] = "Free"} :
          ret' \in {ElemNext(e), ElemPrev(e)}
  /\ UNCHANGED <<tree, elem, stable>> /\ Body

\* The initialisation of AVS_RBTREE_FOREACH (FIRST) or _REVERSE (LAST).
ForeachBegin ==
  /\ tree /\ ~Looping
  /\ \E d \in {"next", "prev"} :
       /\ dir' = d
       /\ it' = IF d = "next" THEN First ELSE Last
  /\ visited' = IF it' = NULL THEN {} ELSE {it'}
  /\ stable' = Attached
  /\ UNCHANGED <<tree, elem, ret>>

\* Mutant: the loop body runs once more with it = NULL.
ForeachStep_no_null_test ==
  /\ Looping
  /\ it' = IF dir = "next" THEN ElemNext(it) ELSE ElemPrev(it)
  /\ visited' = visited \cup {it'}
  /\ UNCHANGED <<tree, elem, ret, dir, stable>>

\* The increment of the loop: it = ELEM_NEXT(it) (or ELEM_PREV); the loop
\* ends when it is NULL.
ForeachStep ==
  /\ Looping
  /\ it' = IF dir = "next" THEN ElemNext(it) ELSE ElemPrev(it)
  /\ visited' = IF it' = NULL THEN visited ELSE visited \cup {it'}
  /\ UNCHANGED <<tree, elem, ret, dir, stable>>

Init ==
  /\ tree = FALSE
  /\ elem = [e \in Elems |-> "Free"]
  /\ ret = NULL
  /\ it = NULL
  /\ dir = "next"
  /\ visited = {}
  /\ stable = {}

Next ==
  \/ RbtreeNew \/ RbtreeDelete \/ Query \/ ForeachBegin \/ ForeachStep
  \/ \E e \in Elems :
       \/ ElemNew(e) \/ ElemDeleteDetached(e) \/ RbtreeInsert(e)
       \/ RbtreeDetach(e) \/ RbtreeDeleteElem(e)

Spec == Init /\ [][Next]_vars

-----------------------------------------------------------------------------
(* Properties.                                                             *)

TypeOK ==
  /\ tree \in BOOLEAN
  /\ elem \in [Elems -> {"Free", "Detached", "Attached"}]
  /\ it \in Elems \cup {NULL}
  /\ dir \in {"next", "prev"}
  /\ visited \subseteq Elems
  /\ stable \subseteq Elems

\* A FOREACH loop that has ended visited every element that stayed attached
\* from its start to its end.
ForeachComplete ==
  tree /\ ~Looping => stable \subseteq visited

=============================================================================
