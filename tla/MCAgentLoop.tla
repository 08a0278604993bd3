---------------------------- MODULE MCAgentLoop ----------------------------
(* Instances of AgentLoop: transcripts as older builds and failed runs left them. *)
EXTENDS AgentLoop

Ask == Message("user", "ask", 0)
Text == Message("assistant", "text", 0)
Empty == Message("assistant", "none", 0)
MCTranscripts == {<<Ask, Ask, Empty, Note, Ask, Text, Ask>>}
=============================================================================
