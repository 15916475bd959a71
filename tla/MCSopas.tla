------------------------------ MODULE MCSopas ------------------------------
(***************************************************************************)
(* Commands for the SOPAS connection: two that share their keyword, as     *)
(* queryMultiScanFiltersettings and writeMultiScanFiltersettings send for  *)
(* LFPlayerFilter, and one of a keyword of its own.                        *)
(***************************************************************************)
EXTENDS SopasLink

MCCommands == {<<"sRN", "LFPlayerFilter">>, <<"sWN", "LFPlayerFilter">>, <<"sMN", "Run">>}
=============================================================================
