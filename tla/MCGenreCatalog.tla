--------------------------- MODULE MCGenreCatalog --------------------------
(* A small instance of GenreCatalog for TLC: an unusable payload and two   *)
(* catalogues of which one holds a genre the other lacks.                  *)
EXTENDS GenreCatalog

CONSTANTS horror, comedy

SmallPayloads == {{}, {horror}, {horror, comedy}}

=============================================================================
