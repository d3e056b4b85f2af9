--------------------------- MODULE MCAppLifecycle ---------------------------
(***************************************************************************)
(* AppLifecycle with every command line, two requests, and files that are  *)
(* valid but for at most one entry.                                        *)
(***************************************************************************)
EXTENDS AppLifecycle

CONSTANTS r1, r2

MCCommandLines ==
  [command : Commands, flags : {"parsed", "-help", "unknown flag", "extra argument"}]

Good == [readable |-> TRUE, logDirectory |-> "logs", localBind |-> "host:port",
         remoteURL |-> "http", providerURL |-> "http", remoteBind |-> "host:port"]

MCFiles ==
  {Good, [Good EXCEPT !.readable = FALSE], [Good EXCEPT !.logDirectory = ""]}
    \union {[Good EXCEPT !.localBind = a] : a \in Addresses}
    \union {[Good EXCEPT !.remoteBind = a] : a \in Addresses}
    \union {[Good EXCEPT !.remoteURL = u] : u \in URLs}
    \union {[Good EXCEPT !.providerURL = u] : u \in URLs}

=============================================================================
