----------------------------- MODULE MCTickBuffers -----------------------------
(***************************************************************************)
(* Model-checking instance of TickBuffers.                                 *)
(***************************************************************************)
EXTENDS TickBuffers, TLC

Rule(components) ==
  [components |-> components, priority |-> Cardinality(components), fns |-> components]

\* Every choice of rules over the components, groups first.
AllRuleLists ==
  {SetToSortSeq({Rule(s) : s \in chosen}, LAMBDA r, q : r.priority > q.priority) :
     chosen \in (SUBSET ((SUBSET Components) \ {{}})) \ {{}}}
=============================================================================
