--------------------------- MODULE MCFingerprint ---------------------------
\* The fingerprint scripts with two of the five simultaneous creations of
\* case H; the bounds are in the configurations.
EXTENDS Fingerprint

MCRaceSlots == {"H1", "H2"}
=============================================================================
