---------------------------- MODULE MCScanPipeline ----------------------------
(***************************************************************************)
(* Small instances of ScanPipeline for TLC.                                *)
(***************************************************************************)
EXTENDS ScanPipeline

(* Every surface carries data of one day's lifetime. *)
MCBinding == [s \in Surfaces |-> 1]
=============================================================================
