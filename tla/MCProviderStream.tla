---------------------------- MODULE MCProviderStream ----------------------------
(***************************************************************************)
(* Replies of up to one fragment of text and two tool calls of up to two   *)
(* fragments each; two records can be on the wire, so that a chunk may     *)
(* end one, hold one and start one.                                        *)
(***************************************************************************)
EXTENDS ProviderStream

AllTransports == {"chat_completions", "anthropic_messages", "codex_responses"}
=============================================================================
