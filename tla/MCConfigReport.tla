---------------------------- MODULE MCConfigReport ----------------------------
(* An operator who has set up any two features, with or without the paths  *)
(* the health check wants, and then changes one key and tidies up.         *)
EXTENDS ConfigReport

Complete(f) ==
    {<<s, IF s \in Flags THEN "true" ELSE "given">> :
        s \in Feature[f].switch
              \cup {CHOOSE s \in need : TRUE : need \in Feature[f].needs}}
    \cup (IF f \in {"smtp", "patchmon_webhook"}
          THEN {<<"notification_provider", "smtp">>} ELSE {})

Paths == {<<s, "given">> : s \in {"secrets_repo_path", "ansible_cfg_path",
                                  "ssh_key_path"}}

\* The reasoning layer with the default model or another, and keys or none.
Models == {{}, {<<"dspy_api_key", "given">>}, {<<"anthropic_api_key", "given">>},
           {<<"dspy_model", "keyless">>}, {<<"dspy_model", "other">>},
           {<<"dspy_model", "other">>, <<"other_api_key", "given">>}}

AsFunction(pairs) ==
    [s \in {p[1] : p \in pairs} |-> (CHOOSE p \in pairs : p[1] = s)[2]]

AnyTwo == {AsFunction(Complete(f) \cup Complete(g) \cup paths) :
              f \in Features, g \in Features, paths \in {{}, Paths}}
          \cup {AsFunction(Complete("reasoning") \cup Complete(f) \cup paths \cup model) :
                   f \in Features, paths \in {{}, Paths}, model \in Models}
=============================================================================
