--------------------------- MODULE MCCatalogSync ---------------------------
\* CatalogSync on two pods and two XRDs, one of them without a service id.
EXTENDS CatalogSync

CONSTANTS p1, p2, x1, x2

MCPods == {p1, p2}
MCXRDs == {x1, x2}
MCIdentified == {x1}
=============================================================================
