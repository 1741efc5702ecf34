----------------------------- MODULE MCRevisions -----------------------------
(* Two proposals, a trusted reviewer and a stranger, one comment per page,  *)
(* and a server that may come up polling, trusting nobody, or read-only.    *)
EXTENDS Revisions

Conf(clone, users) == [enabled |-> TRUE, git |-> TRUE, clone |-> clone, cfg |-> TRUE,
                       key |-> TRUE, allowed |-> users]
MCConfigs == {Conf(TRUE, {"owner"}), Conf(TRUE, {}), Conf(FALSE, {"owner"})}
=============================================================================
