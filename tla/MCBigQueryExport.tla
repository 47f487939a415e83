-------------------------- MODULE MCBigQueryExport --------------------------
(***************************************************************************)
(* Two runs of the job and a table of one or two rows.                     *)
(***************************************************************************)
EXTENDS BigQueryExport

CONSTANTS e1, e2, p, q
=============================================================================
