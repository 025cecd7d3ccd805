--------------------------- MODULE MCTranscriptRelay ---------------------------
(* The first turn streams text and reasoning, the second makes a tool call. *)
EXTENDS TranscriptRelay

Kinds == [answer |-> "text", thought |-> "reasoning", command |-> "tool"]
Names == <<{"answer", "thought"}, {"command"}>>
===============================================================================
