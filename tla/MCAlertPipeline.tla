--------------------------- MODULE MCAlertPipeline ----------------------------
(* Instances of AlertPipeline for TLC: one graded target, a disk with two   *)
(* severities.  Its observations contain those of a binary target but for   *)
(* the severity, and targets share only the mute snapshot and the crash.    *)
EXTENDS AlertPipeline

CONSTANT disk
===============================================================================
