------------------------------ MODULE MC_Expand ------------------------------
(* TLC instance of Expand and of frame serving: two store directories, a  *)
(* request path that is not a directory, and sources with and without a   *)
(* query.                                                                   *)
EXTENDS ExpandFrame

MCExpandPaths == {Chars("/d/_expand"), Chars("/e/_expand"), Chars("/d_expand")}

\* a source path and a stored object that names no URL; then a source
\* whose URL has a query, the first level of the example at client.go:96
MCVideos == {Chars("/d/http://h/v"), Chars("/d/v")}
MCQueryVideos == {Chars("/d/http://h/v?a=1")}

\* under 0.01 s, half a second, and 10 s (11 frames, two-digit seconds)
MCDurations == {5000, 500000, 10000000}

=============================================================================
