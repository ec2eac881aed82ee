--------------------------- MODULE MCEventStream ---------------------------
(***************************************************************************)
(* EventStream with one operation more than a page of GET /sync holds, a   *)
(* stream page of one event, one retained listing and one place for a      *)
(* stream: every limit is met.                                             *)
(***************************************************************************)
EXTENDS EventStream

CONSTANTS a, b, q, c1, c2, none

MCRes  == {a, b, q}
MCConn == {c1, c2}

============================================================================
