----------------------------- MODULE MCDetector -----------------------------
(* An instance of Detector for TLC: three schemas, one of them unbuildable, *)
(* and one edit that breaks in one direction only.                          *)
EXTENDS Detector
CONSTANTS s1, s2, s3
MCBreakingEdit == {<<s2, s1>>, <<s1, s3>>}
=============================================================================
