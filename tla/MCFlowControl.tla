---------------------------- MODULE MCFlowControl ----------------------------
EXTENDS FlowControl, TLC

MCInitialLimit == [data |-> 1, stream |-> 1, streams |-> 1]

MCMaxSize == (0 :> 1) @@ (1 :> 1)
=============================================================================
