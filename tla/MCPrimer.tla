------------------------------ MODULE MCPrimer ------------------------------
EXTENDS Primer

\* A pronunciation policy without and with a review of the spoken text.
Narrators ==
  {[spoken |-> TRUE, review |-> FALSE, words |-> 1, voice |-> 1],
   [spoken |-> TRUE, review |-> TRUE, words |-> 1, voice |-> 1]}

=============================================================================
