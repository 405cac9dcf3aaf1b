---------------------------- MODULE MCReportJob ----------------------------
(***************************************************************************)
(* Three of the four services for TLC.                                     *)
(***************************************************************************)
EXTENDS ReportJob

ThreeServices == <<"quant_symbols", "quant_daily_bars", "quant_momentum">>

=============================================================================
