--------------------------- MODULE MCPublicFetch ---------------------------
EXTENDS PublicFetch

AllAdapters == DOMAIN Checks \cup {"replay"}
=============================================================================
