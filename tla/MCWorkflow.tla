----------------------------- MODULE MCWorkflow -----------------------------
EXTENDS Workflow

\* Two approvals in a row.
Straight == [start |-> "review", nodes |-> {"review", "sign"},
             approve |-> [n \in {"review", "sign"} |-> IF n = "review" THEN "sign" ELSE NoNode],
             reject |-> [n \in {"review", "sign"} |-> NoNode]]

\* A rejection leads to a node the graph does not have.
Dangling == [start |-> "review", nodes |-> {"review"},
             approve |-> [n \in {"review"} |-> NoNode],
             reject |-> [n \in {"review"} |-> "sign"]]

BothGraphs == {Straight, Dangling}

=============================================================================
