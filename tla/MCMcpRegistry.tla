--------------------------- MODULE MCMcpRegistry ---------------------------
\* McpRegistry for TLC: one server, which the host, a reconcile and the cold
\* load work on at the same time.  Two connections are as many as anybody needs:
\* who waits for one to close is the only one to start the next.
EXTENDS McpRegistry

=============================================================================
