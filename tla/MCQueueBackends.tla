-------------------------- MODULE MCQueueBackends --------------------------
(* QueueBackends for TLC: every deployment over a database, and in memory  *)
(* the ones without a transport, or with one that is not configured.       *)
EXTENDS QueueBackends

MCDeployments == {s \in Settings : s.dsn \/ ResolveQueueBackend(s) = "none"}
=============================================================================
