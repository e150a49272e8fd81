----------------------------- MODULE MCUiClient -----------------------------
(***************************************************************************)
(* Clicks on one page and a start of another for UiClient.                 *)
(***************************************************************************)
EXTENDS UiClient
=============================================================================
