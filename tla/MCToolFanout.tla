----------------------------- MODULE MCToolFanout -----------------------------
(* Model-checking instance of ToolFanout: three workers, two at a time. *)
EXTENDS ToolFanout
==============================================================================
