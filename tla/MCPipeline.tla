----------------------------- MODULE MCPipeline -----------------------------
(***************************************************************************)
(* Pipeline under both policies and in every report mode.                  *)
(***************************************************************************)
EXTENDS Pipeline

BothPolicies == {"strict", "partial"}
AllReportModes == {"human", "machine", "html", "sarif", "both", "all"}
=============================================================================
