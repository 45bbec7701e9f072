--------------------------- MODULE MCAsyncQueries ---------------------------
(* AsyncQueries for TLC: three tasks of one database, two at a time.        *)
EXTENDS AsyncQueries
CONSTANTS db1

OneDatabase == {db1}
=============================================================================
