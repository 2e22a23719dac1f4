------------------------------- MODULE MCAnyFlow -------------------------------
(* All programs with the inputs they are written with: nothing to bound. *)
EXTENDS AnyFlow
================================================================================
