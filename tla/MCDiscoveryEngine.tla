-------------------------- MODULE MCDiscoveryEngine --------------------------
(* Instances of DiscoveryEngine for TLC: a service that two sources see and *)
(* that may also be registered by hand, and a tool call beside the jobs.    *)
EXTENDS DiscoveryEngine

CONSTANTS x1, traefik, authentik, tool
=============================================================================
