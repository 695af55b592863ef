------------------------------ MODULE MCEditJob ------------------------------
EXTENDS EditJob, EditOperations

\* EditJob does not look at an operation's name: operations that differ in nothing else are one.
Unnamed(ops) == {[o EXCEPT !.op = "any"] : o \in ops}

\* The jobs of two operations, and those whose files are proved, are made of these.
First ==
    {o \in EditOps : \/ o.op = "table_patch_cells" /\ o.n = 1
                     \/ o.op = "align_paragraph" /\ o.n = 0}
Second == {o \in EditOps : o.op = "control_delete_by_anchor" /\ o.n = 1}
Edits(lists, proofs, baselines) ==
    [task : {"edit_and_convert"}, ops : lists, proof : proofs, baseline : baselines]

MCJobs ==
    {[task |-> "convert", ops |-> <<>>, proof |-> "none", baseline |-> FALSE]}
    \cup Edits({<<o>> : o \in Unnamed(EditOps)}, {"none"}, {FALSE})
    \cup Edits({<<o>> : o \in Unnamed(First)}, {"file", "cell"}, {TRUE})
    \cup Edits({<<o, s>> : o \in Unnamed(First), s \in Unnamed(Second)}, {"cell"}, {FALSE})
=============================================================================
