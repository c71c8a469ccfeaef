------------------------------ MODULE MC_Server ------------------------------
(* TLC instance of Server: model-value paths and handler goroutines.       *)
EXTENDS Server

CONSTANTS p1, p2, h1, h2

MCPaths == {p1, p2}
MCOnePath == {p1}
MCHandlers == {h1, h2}

=============================================================================
