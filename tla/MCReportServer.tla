--------------------------- MODULE MCReportServer ---------------------------
(* Model-checking instance of ReportServer. *)
EXTENDS ReportServer
=============================================================================
