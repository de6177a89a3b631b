---------------------------- MODULE MCHostSessions ---------------------------
\* Two requests at a time over two directories, two sessions and two conversations.
EXTENDS HostSessions
=============================================================================
