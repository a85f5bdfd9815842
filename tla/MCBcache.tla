------------------------------ MODULE MCBcache ------------------------------
\* The instances of Bcache for TLC; the configurations give the constants.
EXTENDS Bcache
=============================================================================
