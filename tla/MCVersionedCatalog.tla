------------------------- MODULE MCVersionedCatalog -------------------------
\* VersionedCatalog with two described versions, each of which validates one of
\* two payloads: what is good for the one is refused by the other. A third version
\* has no schema of its parameters.
EXTENDS VersionedCatalog

MCVersions == {"v1", "v2", "v3"}
MCDescribed == {"v1", "v2"}
MCPayloads == {"a", "b"}
MCAccepts == [v1 |-> {"a"}, v2 |-> {"b"}, v3 |-> {}]
=============================================================================
