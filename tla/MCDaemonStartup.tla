--------------------------- MODULE MCDaemonStartup ---------------------------
EXTENDS DaemonStartup, TLC

\* What processes that are gone may have left behind: a command its lock, a daemon its
\* PID file and socket.
Remains == {{}, {"lock"}, {"pid", "socket"}}

=============================================================================
