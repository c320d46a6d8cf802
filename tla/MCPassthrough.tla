--------------------------- MODULE MCPassthrough ---------------------------
EXTENDS Passthrough

\* A child that may be restarted once; a probe and the process it proves; the
\* modern and, after a fallback, the legacy handshake over HTTP, reopened once.
SmallLinks == {[transport |-> "stdio", mode |-> "legacy", insts |-> 2, closes |-> 1],
               [transport |-> "stdio", mode |-> "auto", insts |-> 2, closes |-> 0],
               [transport |-> "http", mode |-> "auto", insts |-> 2, closes |-> 1]}
=============================================================================
