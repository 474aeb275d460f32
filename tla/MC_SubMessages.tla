---------------------------- MODULE MC_SubMessages ----------------------------
(* Small instances of the dispatch of sub-messages, for TLC.               *)
EXTENDS SubMessages
=============================================================================
