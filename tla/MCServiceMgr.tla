---------------------------- MODULE MCServiceMgr ----------------------------
(* ServiceMgr with two services, and a message of each of the two shapes   *)
(* that get_uri tells apart.                                               *)
EXTENDS ServiceMgr, TLC

CONSTANTS default, echo, empty, m1, m2

Json(ok, uri) == [parses |-> ok, uri |-> uri]
Option(format, json) == [format |-> format, json |-> json]

\* m1 names its service in the extended header and another one in an option;
\* m2 has no extended header and a binary option before the JSON one.
MixedContent ==
  m1 :> [exh     |-> <<Json(TRUE, echo), Json(TRUE, default)>>,
         options |-> <<Option("fmt_json", Json(TRUE, default))>>]
  @@
  m2 :> [exh     |-> <<>>,
         options |-> <<Option("fmt_binary", Json(TRUE, echo)), Option("fmt_json", Json(TRUE, default))>>]

\* Services differ only in the uris they are given; sound for safety.
Symmetry == Permutations(Services)
=============================================================================
