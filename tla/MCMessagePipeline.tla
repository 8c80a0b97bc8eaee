------------------------- MODULE MCMessagePipeline --------------------------
(* MessagePipeline with messages that all ask for the same service.        *)
EXTENDS MessagePipeline

CONSTANTS default, empty

SameContent ==
  [m \in Messages |-> [exh |-> <<[parses |-> TRUE, uri |-> default]>>, options |-> <<>>]]
=============================================================================
