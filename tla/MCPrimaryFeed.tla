--------------------------- MODULE MCPrimaryFeed ---------------------------
EXTENDS PrimaryFeed

CONSTANTS a, b, c

MCQueries == {{a}, {b, c}}
=============================================================================
