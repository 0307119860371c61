---------------------------- MODULE MCPagination ----------------------------
(***************************************************************************)
(* Small instances of Pagination.tla.  The windows are scaled down from    *)
(* 25 (the controller's default page) and 200 (listPageLimit) to 1 and 3,  *)
(* so that a handful of rows needs several GETs and ends in a partial one. *)
(***************************************************************************)
EXTENDS Pagination

FullOnly   == {"full"}
ShortOnly  == {"short"}
EveryPaging == Paging

GrowOnly   == {"append"}
EveryEdit  == Changes
NoEdit     == {}

\* A negative total, none, one that is too low, one that is never filled.
Claims == {-7, 0, 1, 4, 9}
=============================================================================
