--------------------------- MODULE MCPyodideCache ---------------------------
EXTENDS PyodideCache

CONSTANTS p1, p2, p3

=============================================================================
