--------------------------- MODULE MCRunLifecycle ---------------------------
EXTENDS RunLifecycle

MCIntervals == {0, 2}
=============================================================================
