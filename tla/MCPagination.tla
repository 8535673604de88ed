---------------------------- MODULE MCPagination ----------------------------
(* Five ids, pages of one to three rows, and page sizes 0 (the default) and  *)
(* 4 (too large): walks of up to five pages over every table.                *)
EXTENDS Pagination

MCSizes == 0 .. 4
=============================================================================
