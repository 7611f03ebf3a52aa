-------------------------- MODULE MCReportProgress --------------------------
(* ReportProgress with three channels, two of them enabled.                *)
EXTENDS ReportProgress

ThreeChannels == <<"A", "B", "N">>
=============================================================================
