--------------------------- MODULE MCServiceMatching ---------------------------
(* A service behind one router that Authentik guards under another name and *)
(* that also runs as a container; and, for MCTwoRouters, a second router    *)
(* for the same host.                                                       *)
EXTENDS ServiceMatching, TLC

MCSourceOf == [t \in Passes |-> t]
MCNameOf == ("app@docker" :> "app") @@ ("web@docker" :> "web")
MCHostsOf == ("app@docker" :> {"h"}) @@ ("web@docker" :> {"h"})
             @@ ("sso" :> {"h"}) @@ ("box" :> {"h"})
MCRouters == <<"app@docker">>
MCTwoRouters == <<"app@docker", "web@docker">>
MCApps == <<"sso">>
MCContainers == <<"box">>
MCNone == <<>>
=============================================================================
