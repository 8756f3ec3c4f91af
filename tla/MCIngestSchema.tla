----------------------------- MODULE MCIngestSchema -----------------------------
(***************************************************************************)
(* A small instance of IngestSchema: three states of a warehouse.          *)
(***************************************************************************)
EXTENDS IngestSchema

CONSTANTS t1, t2, sys, a, b, c, x

Row(table, column, data_type) ==
  [table |-> table, column |-> column, data_type |-> data_type]

\* Before and after a migration: the type of a column changes, one is added
\* behind another; a system table is excluded; two names with dots meet in the
\* identifier of column a; and a warehouse without a readable table.
MCCatalogs == {
  <<Row(t1, a, "int"), Row(t1, b, "int"), Row(t2, c, "int")>>,
  <<Row(sys, x, "int"), Row(t1, a, "int"), Row(t1, a, "text"), Row(t2, c, "text")>>,
  <<>> }
=============================================================================
