---------------------------- MODULE MCLocalServer ----------------------------
(***************************************************************************)
(* An instance of LocalServer for TLC: the deployments the repository      *)
(* describes.                                                              *)
(***************************************************************************)
EXTENDS LocalServer

CONSTANT r1   \* a request, asked again and again

Config(enabled, runPoller, useStore) ==
  [enabled |-> enabled, runPoller |-> runPoller, useStore |-> useStore,
   sound |-> TRUE, logs |-> TRUE]

\* The local server with DynamoDB, and with SQLite: where the log cannot
\* always be written, where the interval is no number, and with inbound off;
\* and the web function on Lambda.
Described ==
  {Config(TRUE, TRUE, TRUE),
   [Config(TRUE, TRUE, FALSE) EXCEPT !.logs = FALSE],
   [Config(TRUE, TRUE, FALSE) EXCEPT !.sound = FALSE],
   Config(FALSE, TRUE, FALSE), Config(TRUE, FALSE, TRUE)}
=============================================================================
