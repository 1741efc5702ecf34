----------------------------- MODULE MCProposals -----------------------------
(* An auth conflict, the kind of finding the hook opens proposals for, and  *)
(* an image update, which the Dockhand webhook brings.                      *)
EXTENDS Proposals, TLC

CONSTANTS auth, image, call, other

OneCreatorEach == (Hook :> {auth}) @@ (call :> {image})
AlertStorm == (Hook :> {}) @@ (call :> {image}) @@ (other :> {image})
=============================================================================
