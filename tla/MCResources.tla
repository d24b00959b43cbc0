----------------------------- MODULE MCResources -----------------------------
(* Two requests, one after the other or together, in every family of tables. *)
EXTENDS CorsCache, TLC

Sym == Permutations(Requests) \cup Permutations(Lookups)
All == [a \in Actions |-> "all"]
Mine == [a \in Actions |-> IF a = "CREATE" THEN "all" ELSE "mine"]
Denied == [a \in Actions |-> "nothing"]
Reader == [a \in Actions |-> IF a \in {"READ", "SEARCH"} THEN "all" ELSE "none"]
Editor == [a \in Actions |-> IF a = "CREATE" THEN "none" ELSE IF a \in {"READ", "SEARCH"} THEN "all" ELSE "mine"]
MCCallers == {[user |-> 1, grants |-> All], [user |-> 2, grants |-> Mine],
              [user |-> 1, grants |-> Editor], [user |-> 2, grants |-> Reader],
              [user |-> 1, grants |-> Denied]}

MCScenes ==
    {{"users", "roles", "user_roles"}, {"roles", "api_keys"}, {"users", "groups", "group_users"},
     {"feature_flags", "roles", "feature_flag_role_assignments"},
     {"feature_flags", "users", "feature_flag_user_assignments"},
     {"provider_connections", "llms"}, {"provider_connections", "llms", "llm_usage"},
     {"sandbox_templates", "sandbox_configs", "api_keys"}, {"sandbox_templates", "sandbox_snapshots"},
     {"sandbox_configs", "conversation_records", "events"}, {"sandbox_configs", "sandbox_usage"},
     {"users", "oauth_providers", "oauth_sessions"}, {"secret_providers"}, {"static_secrets"},
     {"mcp_server_configs", "mcp_usage"}, {"oauth_clients", "oauth_client_redirect_uris"},
     {"allowed_origins"},
     {"users", "refresh_tokens", "idp_refresh_tokens", "idp_access_tokens",
      "llm_aggregated_usage", "mcp_aggregated_usage", "jobs"}}
MCCrowded ==
    MCScenes \ {{"sandbox_templates", "sandbox_configs", "api_keys"}, {"users", "oauth_providers", "oauth_sessions"}}
(* Bound: a client pages or the cache of origins is in use, not both.      *)
PagingOrCaching ==
    reader = NoReader \/ (clock = 0 /\ cache = NoCache /\ \A l \in Lookups : lookup[l] = NoLookup)
MCBatched == {{"static_secrets"}, {"secret_providers"}}
=============================================================================
