------------------------------- MODULE MCVideo -------------------------------
\* The instance of VideoLaunch that TLC checks.
EXTENDS VideoLaunch, TLC
=============================================================================
