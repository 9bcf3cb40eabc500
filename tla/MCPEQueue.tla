----------------------------- MODULE MCPEQueue -----------------------------
\* The queue of tokens with as many chares as it takes for the last token to
\* belong above the hole that remove() fills with it.
EXTENDS PEQueue
=============================================================================
