----------------------------- MODULE MCStreaming -----------------------------
(* Small instances of Streaming. *)
EXTENDS Streaming

\* One that is copied into another container, and one that has to be encoded.
Two == {Format("mov", "aac"), Format("ogg", "opus")}
==============================================================================
