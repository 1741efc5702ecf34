------------------------------ MODULE Environment ------------------------------
(***************************************************************************)
(* An environment (config.py), what the configuration report says of it    *)
(* (config_report.py), and what a server that is started with it does      *)
(* (server.py: build_app, build_runtime_scheduler, and the register_*      *)
(* functions it calls).                                                    *)
(*                                                                         *)
(* The report has a table of its own of what each feature needs and reads, *)
(* which "mirrors the gates in the code": Feature is that table, Part the  *)
(* gates.  Settings that play the same role are one here: the tuning of a  *)
(* feature, git_repo (as git_token), the halves of a credential, and all   *)
(* that Infisical and OAuth need.  A value is empty or not; values of      *)
(* blanks only are left out.  dspy_model is one of Anthropic's, one of     *)
(* another provider, or one that asks for no key.  A provider's library    *)
(* takes a key that DSPY_API_KEY does not give it from the environment,    *)
(* where it is no setting of this server; if there, it has a value.        *)
(***************************************************************************)
VARIABLE env        \* the keys that are set, with their values

None == "none"
Empty == ""

Flags == {"dockhand_allow_write", "dspy_enabled", "proposal_auto_create",
          "proposal_comment_poll_enabled", "normalization_enabled",
          "adoption_enabled", "service_deploy_enabled", "secrets_enabled",
          "infisical_enabled", "dockhand_webhook_enabled",
          "patchmon_webhook_enabled", "mcp_auth_enabled"}
Numbers == {"traefik_tuning", "authentik_tuning", "dockhand_tuning",
            "dockhand_action_tuning", "docker_tuning", "docs_tuning",
            "dozzle_tuning", "dspy_tuning", "comment_poll_interval",
            "adoption_draft_ttl", "secrets_allow_decrypt", "patchmon_api_timeout",
            "inventory_ttl"}
Texts == {"git_tuning", "notification_topic", "notification_smtp_tuning",
          "normalization_schedule", "normalization_tuning",
          "normalization_shared_networks", "ssh_default_user",
          "service_deploy_tuning", "service_deploy_conventions_path",
          "infisical_tuning", "dockhand_webhook_tuning",
          "patchmon_webhook_tuning", "mcp_auth_tuning"}
Choices == {"git_provider", "notification_provider", "mcp_transport", "dspy_model"}
Lists == {"proposal_comment_allowed_users"}
Optional == {"traefik_api_url", "authentik_api_url", "authentik_token",
             "dockhand_api_url", "dockhand_token", "docker_base_url",
             "docs_mcp_url", "docs_mcp_token", "dozzle_mcp_url",
             "dozzle_mcp_token", "dspy_api_key", "git_base_url", "git_token",
             "notification_url", "notification_token", "notification_smtp_host",
             "notification_email", "secrets_repo_path", "secrets_key_path",
             "secrets_git_crypt_key", "ansible_cfg_path", "ssh_key_path",
             "infisical_account", "dockhand_webhook_secret",
             "patchmon_webhook_secret", "patchmon_approval_base_url",
             "patchmon_ansible_playbook", "patchmon_api_url", "patchmon_api_key",
             "mcp_auth_provider", "ansible_inventory_path"}

Settings == Flags \cup Numbers \cup Texts \cup Choices \cup Lists \cup Optional

ProviderKeys == {"anthropic_api_key", "other_api_key"}

\* The settings given explicitly (model_fields_set).
Set == DOMAIN env \cap Settings

Default == [s \in Settings |->
    IF s = "secrets_enabled" THEN "true"
    ELSE IF s \in Flags THEN "false"
    ELSE IF s \in Numbers \cup Texts THEN "default"
    ELSE IF s \in Lists THEN Empty
    ELSE IF s = "git_provider" THEN "gitea"
    ELSE IF s = "mcp_transport" THEN "streamable-http"
    ELSE IF s = "dspy_model" THEN "anthropic"
    ELSE None]

ValuesOf == [s \in Settings |->
    IF s \in Flags THEN {"true", "false"}
    ELSE IF s \in Numbers THEN {"default", "given"}
    ELSE IF s \in Texts THEN {"default", "given", Empty}
    ELSE IF s = "git_provider" THEN {"gitea", "github", "gitlab"}
    ELSE IF s = "notification_provider" THEN {None, "ntfy", "smtp"}
    ELSE IF s = "mcp_transport" THEN {"streamable-http", "sse", "stdio"}
    ELSE IF s = "dspy_model" THEN {"anthropic", "other", "keyless", Empty}
    ELSE {"given", Empty}]

Value(s) == IF s \in DOMAIN env THEN env[s] ELSE Default[s]
Has(s) == Value(s) \notin {None, Empty, "false"}

-----------------------------------------------------------------------------
(* The report.  A need is a set of settings of which one will do.           *)

\* Two tables as one.
Both(f, g) == [x \in DOMAIN f \cup DOMAIN g |-> IF x \in DOMAIN f THEN f[x] ELSE g[x]]

Row(switch, needs, uses) == [switch |-> switch, needs |-> needs, uses |-> uses]
Each(settings) == {{s} : s \in settings}

Git == {"git_base_url", "git_token"}
GitCryptKey == {"secrets_key_path", "secrets_git_crypt_key"}
Mail == {"notification_smtp_host", "notification_email"}

UpstreamFeature ==
    [traefik |-> Row({"traefik_api_url"}, {}, {"traefik_tuning"}),
     authentik |-> LET api == {"authentik_api_url", "authentik_token"}
                   IN  Row(api, Each(api), {"authentik_tuning"}),
     dockhand |-> LET api == {"dockhand_api_url", "dockhand_token"}
                  IN  Row(api, Each(api), {"dockhand_tuning"}),
     dockhand_actions |-> Row({"dockhand_allow_write"},
                              Each({"dockhand_api_url", "dockhand_token"}),
                              {"dockhand_action_tuning"}),
     docker |-> Row({"docker_base_url"}, {}, {"docker_tuning"}),
     docs |-> LET api == {"docs_mcp_url", "docs_mcp_token"}
              IN  Row(api, Each(api), {"docs_tuning"}),
     dozzle |-> Row({"dozzle_mcp_url", "dozzle_mcp_token"}, Each({"dozzle_mcp_url"}),
                    {"dozzle_mcp_token", "dozzle_tuning"}),
     reasoning |-> Row({"dspy_enabled"}, {},
                       {"dspy_model", "dspy_api_key", "dspy_tuning"}),
     git |-> Row(Git, Each(Git), {"git_provider", "git_tuning"}),
     ntfy |-> Row({}, Each({"notification_url"}),
                  {"notification_topic", "notification_token"}),
     smtp |-> Row({}, Each(Mail), {"notification_smtp_tuning"})]

ServerFeature ==
    [auto_create |-> Row({"proposal_auto_create"},
                         Each(Git \cup {"dspy_enabled"}), {}),
     comment_poll |-> Row({"proposal_comment_poll_enabled"},
                          Each(Git \cup {"dspy_enabled",
                                         "proposal_comment_allowed_users"}),
                          {"comment_poll_interval"}),
     normalization |-> Row({"normalization_enabled"}, Each(Git),
                           {"normalization_schedule", "normalization_tuning",
                            "normalization_shared_networks"}),
     adoption |-> Row({"adoption_enabled"},
                      Each(Git \cup {"secrets_repo_path", "ssh_key_path",
                                     "dspy_enabled"}) \cup {GitCryptKey},
                      {"ssh_default_user", "adoption_draft_ttl"}),
     intake |-> Row({"service_deploy_enabled"}, {}, {"service_deploy_tuning"}),
     compose |-> Row({"service_deploy_enabled"}, Each({"dspy_enabled"}),
                     {"service_deploy_conventions_path",
                      "normalization_shared_networks"}),
     git_crypt |-> Row({"secrets_repo_path"}, {GitCryptKey},
                       {"secrets_allow_decrypt"}),
     infisical |-> Row({"infisical_enabled"}, Each({"infisical_account"}),
                       {"infisical_tuning"}),
     dockhand_webhook |-> Row({"dockhand_webhook_enabled"},
                              Each(Git \cup {"dockhand_webhook_secret"}),
                              {"dockhand_webhook_tuning"}),
     patchmon_webhook |-> Row({"patchmon_webhook_enabled"},
                              Each(Mail \cup {"patchmon_webhook_secret",
                                              "patchmon_approval_base_url",
                                              "patchmon_ansible_playbook",
                                              "ansible_cfg_path", "ssh_key_path"}),
                              {"patchmon_webhook_tuning", "ssh_default_user"}),
     patchmon_api |-> Row({"patchmon_api_url"}, Each({"patchmon_api_key"}),
                          {"patchmon_api_timeout"}),
     hardware |-> LET ssh == {"ansible_cfg_path", "ssh_key_path"}
                  IN  Row(ssh, Each(ssh), {"ssh_default_user"}),
     oauth |-> Row({"mcp_auth_enabled"}, Each({"mcp_auth_provider"}),
                   {"mcp_auth_tuning"}),
     inventory |-> Row({"ansible_inventory_path"}, {}, {"inventory_ttl"})]

Features == DOMAIN UpstreamFeature \cup DOMAIN ServerFeature
Feature == Both(UpstreamFeature, ServerFeature)

On(f) ==
    IF f \in {"ntfy", "smtp"} THEN Value("notification_provider") = f
    ELSE /\ \E s \in Feature[f].switch : Has(s)
         /\ f = "git_crypt" => Has("secrets_enabled")

\* Slip: every alternative of a need must be set.
MissingUnlessAll(f) == {need \in Feature[f].needs : \E s \in need : ~Has(s)}

Missing(f) == {need \in Feature[f].needs : \A s \in need : ~Has(s)}

Warned(f) ==
    \/ /\ f = "reasoning" /\ ~Has("dspy_api_key")
       /\ Value("dspy_model") = "anthropic" /\ "anthropic_api_key" \notin DOMAIN env
    \/ f = "oauth" /\ Value("mcp_transport") = "stdio"
    \/ f = "patchmon_webhook" /\ Value("notification_provider") # "smtp"

\* Settings whose default an empty value replaces.
Replaced == {s \in Set : env[s] = Empty /\ Default[s] \notin {None, Empty}}

Listed(f) ==
    Missing(f) # {} \/ Warned(f) \/ (f = "reasoning" /\ "dspy_model" \in Replaced)

\* Slip: the health check's paths are forgotten.
ReadRegardlessOfPaths == {"dspy_enabled"}

ReadRegardless ==
    {"secrets_repo_path", "ansible_cfg_path", "ssh_key_path", "dspy_enabled"}

Readers == [s \in Settings |->
    {f \in Features : s \in Feature[f].uses \cup UNION Feature[f].needs}]

SameAsDefault == {s \in Set : env[s] = Default[s]}
ForFeaturesOff == {s \in Set \ (SameAsDefault \cup ReadRegardless) :
                      Readers[s] # {} /\ \A f \in Readers[s] : ~On(f)}
ReadsAsUnset == {s \in Set \ (SameAsDefault \cup ForFeaturesOff) :
                    env[s] = Empty /\ Default[s] \in {None, Empty}}

DoesNothing == SameAsDefault \cup ForFeaturesOff \cup ReadsAsUnset

-----------------------------------------------------------------------------
(* The server: when each of its parts does its work, and what it reads.     *)

Runs(gate, reads) == [gate |-> gate, reads |-> reads]

Healthy == /\ Has("secrets_repo_path")
           /\ Has("ansible_cfg_path")
           /\ Has("ssh_key_path")
GitBuilt == /\ \A s \in Git : Has(s)
            /\ Value("git_provider") # "gitlab"
Writes == GitBuilt /\ Healthy
Reasons == Has("dspy_enabled")
Mails == Value("notification_provider") = "smtp" /\ \A s \in Mail : Has(s)
ServesHTTP == Value("mcp_transport") # "stdio"
Decrypts == Has("secrets_repo_path") /\ \E s \in GitCryptKey : Has(s)

PatchmonRoutes ==
    /\ Has("patchmon_webhook_enabled") /\ Has("patchmon_webhook_secret")
    /\ Has("patchmon_approval_base_url") /\ Has("patchmon_ansible_playbook")
    /\ Mails

ServesPatchmon == PatchmonRoutes /\ ServesHTTP
RunsPatches == ServesPatchmon /\ Healthy

DockhandRoute ==
    Has("dockhand_webhook_enabled") /\ Has("dockhand_webhook_secret") /\ ServesHTTP
HandlesAlerts == DockhandRoute /\ Writes
AsksAuthentik == Has("authentik_api_url") /\ Has("authentik_token")
AsksDockhand == Has("dockhand_api_url") /\ Has("dockhand_token")
AsksDocs == Has("docs_mcp_url") /\ Has("docs_mcp_token")
ActsOnDockhand == Has("dockhand_allow_write") /\ AsksDockhand /\ Healthy
\* The key of the server, or the one of the provider in the environment.
KeyFor(key) == Has("dspy_api_key") \/ key \in DOMAIN env
ModelAnswers ==
    /\ Reasons
    /\ \/ Value("dspy_model") = "keyless"
       \/ Value("dspy_model") = "anthropic" /\ KeyFor("anthropic_api_key")
       \/ Value("dspy_model") = "other" /\ KeyFor("other_api_key")
AsksInfisical == Has("infisical_enabled") /\ Has("infisical_account")
AsksPatchMon == Has("patchmon_api_url") /\ Has("patchmon_api_key")
DiscoversHosts == Healthy /\ Has("ansible_cfg_path") /\ Has("ssh_key_path")
SyncsInventory == Has("ansible_inventory_path") /\ Healthy
OpensSecrets == Has("secrets_enabled") /\ Decrypts

DraftsAdoption == /\ Has("adoption_enabled") /\ Writes /\ Reasons
                  /\ Has("secrets_repo_path") /\ Has("ssh_key_path")
Adopts == DraftsAdoption /\ Decrypts

Polls == /\ Has("proposal_comment_poll_enabled")
         /\ Has("proposal_comment_allowed_users") /\ Writes /\ Reasons
Sweeps == Has("normalization_enabled") /\ Writes
AutoCreates == Has("proposal_auto_create") /\ Writes /\ Reasons

Pushes == Value("notification_provider") = "ntfy" /\ Has("notification_url")
ChecksTokens == /\ Has("mcp_auth_enabled") /\ Has("mcp_auth_provider")
                /\ Value("mcp_transport") = "streamable-http"

TakesIn == Has("service_deploy_enabled")
Composes == TakesIn /\ Reasons

\* What a sweep reads, whether the schedule or the proposal_normalize tool starts it.
ReadBySweeps == {"normalization_tuning", "normalization_shared_networks"}

\* Reading: sources, passthroughs and what only answers.
ReadPart ==
    [health |-> Runs(TRUE, {"secrets_repo_path", "ansible_cfg_path", "ssh_key_path"}),
     traefik |-> Runs(Has("traefik_api_url"), {"traefik_api_url", "traefik_tuning"}),
     authentik |-> Runs(AsksAuthentik, {"authentik_api_url", "authentik_token",
                                        "authentik_tuning"}),
     dockhand |-> Runs(AsksDockhand, {"dockhand_api_url", "dockhand_token",
                                      "dockhand_tuning"}),
     docker |-> Runs(Has("docker_base_url"), {"docker_base_url", "docker_tuning"}),
     docs |-> Runs(AsksDocs, {"docs_mcp_url", "docs_mcp_token", "docs_tuning"}),
     dozzle |-> Runs(Has("dozzle_mcp_url"),
                     {"dozzle_mcp_url", "dozzle_mcp_token", "dozzle_tuning"}),
     reasoning |-> Runs(ModelAnswers, {"dspy_model", "dspy_api_key", "dspy_tuning"}),
     infisical |-> Runs(AsksInfisical, {"infisical_account", "infisical_tuning"}),
     patchmon_api |-> Runs(AsksPatchMon, {"patchmon_api_url", "patchmon_api_key",
                                         "patchmon_api_timeout"}),
     hardware |-> Runs(DiscoversHosts, {"ansible_cfg_path", "ssh_key_path",
                                       "ssh_default_user"})]

WritePart ==
    [pull_requests |-> Runs(GitBuilt, Git \cup {"git_provider", "git_tuning"}),
     git |-> Runs(Writes, Git \cup {"git_provider", "git_tuning"}),
     ntfy |-> Runs(Pushes, {"notification_url", "notification_topic",
                            "notification_token"}),
     smtp |-> Runs(Mails, Mail \cup {"notification_smtp_tuning"}),
     auto_create |-> Runs(AutoCreates, {}),
     comment_poll |-> Runs(Polls, {"proposal_comment_allowed_users",
                                  "comment_poll_interval"}),
     normalization |-> Runs(Sweeps, {"normalization_schedule"}),
     proposal_normalize |-> Runs(Writes, ReadBySweeps),
     adoption_draft |-> Runs(DraftsAdoption, {"ssh_key_path", "ssh_default_user",
                                             "adoption_draft_ttl"}),
     adoption |-> Runs(Adopts, {"secrets_repo_path"} \cup GitCryptKey),
     intake |-> Runs(TakesIn, {"service_deploy_tuning"}),
     compose |-> Runs(Composes, {"service_deploy_conventions_path",
                                "normalization_shared_networks"}),
     git_crypt |-> Runs(OpensSecrets, {"secrets_repo_path", "secrets_allow_decrypt"}
                                     \cup GitCryptKey),
     dockhand_actions |-> Runs(ActsOnDockhand, {"dockhand_action_tuning"}),
     dockhand_route |-> Runs(DockhandRoute, {"dockhand_webhook_secret",
                                            "dockhand_webhook_tuning"}),
     dockhand_webhook |-> Runs(HandlesAlerts, {}),
     patchmon_routes |-> Runs(ServesPatchmon,
                              {"patchmon_webhook_secret", "patchmon_approval_base_url",
                               "patchmon_webhook_tuning"}),
     patchmon_webhook |-> Runs(RunsPatches,
                               {"patchmon_ansible_playbook", "ssh_default_user"}),
     oauth |-> Runs(ChecksTokens, {"mcp_auth_provider", "mcp_auth_tuning"}),
     inventory |-> Runs(SyncsInventory, {"ansible_inventory_path", "inventory_ttl"})]

\* build_auth raises, and the server does not start.
RefusesToStart ==
    Has("mcp_auth_enabled") /\ (~Has("mcp_auth_provider") \/ Value("mcp_transport") = "sse")

Read(s) == IF Default[s] \in {None, Empty} /\ ~Has(s) THEN None ELSE Value(s)

Part == Both(ReadPart, WritePart)

\* What a server started with this environment does, and with which values.
Server ==
    LET part == Part
        atWork == {p \in DOMAIN part : part[p].gate}
    IN  IF RefusesToStart THEN {}
        ELSE {<<p, "runs", None>> : p \in atWork}
             \cup UNION {{<<p, s, Read(s)>> : s \in part[p].reads} : p \in atWork}

Working == {item[1] : item \in {x \in Server : x[2] = "runs"}}

-----------------------------------------------------------------------------
(* The operator sets a key, or removes one the report says does nothing.    *)

Change(s, v) ==
    /\ Value(s) # v
    /\ env' = [t \in DOMAIN env \cup {s} |-> IF t = s THEN v ELSE env[t]]

Remove == \E s \in DoesNothing : env' = [t \in DOMAIN env \ {s} |-> env[t]]

Tend == (\E s \in Settings : \E v \in ValuesOf[s] : Change(s, v)) \/ Remove

-----------------------------------------------------------------------------
\* What the report cannot tell: where such a model has its key from.
UnseenKey == Value("dspy_model") = "other" /\ ~Has("dspy_api_key")

(* The report's table mirrors the gates: a feature that is on stays off, or *)
(* fails some call, exactly when the report names something it lacks --     *)
(* given what the report does not look at: the read-only mode of a server   *)
(* without its control-plane paths, the GitLab provider that falls back to  *)
(* none, a transport that serves no routes or no OAuth, and the key of a    *)
(* model that is not Anthropic's, of which the report says nothing.         *)
MirrorsTheGates ==
    LET working == Working
        inSight == /\ Healthy /\ Value("git_provider") # "gitlab"
                   /\ Value("mcp_transport") = "streamable-http" /\ ~RefusesToStart
    IN  \A f \in {g \in Features : On(g)} :
            /\ Listed(f) => f \notin working
            /\ inSight /\ ~Listed(f) /\ ~(f = "reasoning" /\ UnseenKey)
               => f \in working

(* Removing a key the report lists as doing nothing -- set to its default,  *)
(* set for features that are off, or empty -- changes nothing of what the   *)
(* server does, nor a value any of its parts reads.                         *)
SafeToRemove ==
    [][DOMAIN env \ DOMAIN env' # {} => Server' = Server]_env

(* The same but for the settings that the proposal_normalize tool reads     *)
(* although NORMALIZATION_ENABLED is off (tools/proposal.py:89).            *)
SafeToRemoveButForSweeps ==
    [][DOMAIN env \ (DOMAIN env' \cup ReadBySweeps) # {} => Server' = Server]_env
=============================================================================
