------------------------ MODULE MCDataFactoryWorkflow ------------------------
(* Every graph of three nodes with at most three edges, for a few choices of *)
(* the nodes' types. *)
EXTENDS DataFactoryWorkflow

NodeTypes ==
    {<<"http", "condition", "http">>, <<"parallel", "http", "http">>, <<"http", "http", "http">>}

AnyEdges == Nodes \X Nodes \X {"always", "success", "failure", "true"}
TwoOutcomes == Nodes \X Nodes \X {"always", "failure"}
EdgeSets ==
    {{}} \cup {{a, b} : a, b \in AnyEdges} \cup {{a, b, c} : a, b, c \in TwoOutcomes}

SmallGraphs == [type : NodeTypes, edges : EdgeSets, limit : {1}]
=============================================================================
