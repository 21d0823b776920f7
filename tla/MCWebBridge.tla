----------------------------- MODULE MCWebBridge -----------------------------
(* Instances of WebBridge for TLC. *)
EXTENDS WebBridge
CONSTANTS b1, b2
OneBrowser == {b1}
TwoBrowsers == {b1, b2}
=============================================================================
