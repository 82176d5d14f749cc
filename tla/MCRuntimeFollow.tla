-------------------------- MODULE MCRuntimeFollow --------------------------
EXTENDS RuntimeFollow
=============================================================================
