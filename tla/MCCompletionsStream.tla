------------------------- MODULE MCCompletionsStream -------------------------
EXTENDS CompletionsStream

MCEvents ==
  { [kind |-> k, parts |-> {}] : k \in {"done", "empty", "unparsable"} }
    \cup { [kind |-> "text", parts |-> p] :
             p \in {{"content"}, {"content", "finish"}, {"usage"}, {}} }

=============================================================================
