------------------------------ MODULE MCIpiAlloc ------------------------------
\* Instances of IpiAlloc for TLC: two U54s that run OpenSBI.
EXTENDS IpiAlloc
=============================================================================
