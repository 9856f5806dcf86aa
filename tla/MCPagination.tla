---------------------------- MODULE MCPagination ----------------------------
(* Small instances of cursor pagination for TLC. *)
EXTENDS Pagination

Ids == 1..5
SomeLimits == {-1, 0, 1, 2, 5, NoLimit}
=============================================================================
