----------------------------- MODULE MCRelease ------------------------------
\* Release, on the three accounts two overlapping deliveries can leave behind.
EXTENDS Release
=============================================================================
