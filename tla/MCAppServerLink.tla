--------------------------- MODULE MCAppServerLink ---------------------------
(* Two turns "a" (a follow-up, its context may end) and "b" that both may      *)
(* start the server; or a turn, an EnsureThread "d" and a tool call "t".       *)
EXTENDS AppServerLink

LinkCrews == {{"a", "b"}, {"a", "d", "t"}}
=============================================================================
