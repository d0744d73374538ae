---------------------------- MODULE MCReconcile ----------------------------
(***************************************************************************)
(* Small instance of Reconcile: one managed setting, and operators who     *)
(* write it, delete it, read it, or do two of these in one group.          *)
(***************************************************************************)
EXTENDS Reconcile

On(verb, v) == [verb |-> verb, uri |-> "x", value |-> v]
WantA == [u \in {"x"} |-> "a"]
Edits ==
    {<<On("replace", "b")>>, <<On("delete", None)>>, <<On("get", None)>>,
     <<On("replace", "b"), On("get", None)>>, <<On("get", None), On("replace", "b")>>,
     <<On("get", None), On("get", None)>>}
=============================================================================
