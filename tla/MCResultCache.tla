--------------------------- MODULE MCResultCache ----------------------------
EXTENDS ResultCache
=============================================================================
