------------------------------- MODULE Tables -------------------------------
(***************************************************************************)
(* The schema of the database as the initial migration creates it: for     *)
(* every table its foreign keys, what a delete of the parent does to the   *)
(* row, and its unique key.  Columns that take part in neither are the     *)
(* value of a row and have no entry here.  "name" stands for the natural   *)
(* key of a table (an email, an origin, a client id, a hash); the primary  *)
(* key is the row's number.                                                *)
(***************************************************************************)
EXTENDS Naturals, FiniteSets

Ref(parent, onDelete) == [to |-> parent, del |-> onDelete]
Creator == Ref("users", "cascade")
NoColumns == {}

UsersTable == [refs |-> <<>>, unique |-> {"name"}]
ApiKeysTable ==
    [refs |-> [creator_id |-> Creator, role_id |-> Ref("roles", "null")], unique |-> NoColumns]
RefreshTokensTable == [refs |-> [creator_id |-> Creator], unique |-> NoColumns]
IdpRefreshTokensTable == [refs |-> [creator_id |-> Creator], unique |-> NoColumns]
IdpAccessTokensTable ==
    [refs |-> [refresh_token_id |-> Ref("idp_refresh_tokens", "cascade")], unique |-> NoColumns]
OAuthClientsTable == [refs |-> <<>>, unique |-> {"name"}]
OAuthClientRedirectUrisTable ==
    [refs |-> [client_id |-> Ref("oauth_clients", "cascade")], unique |-> NoColumns]
AllowedOriginsTable == [refs |-> <<>>, unique |-> {"name"}]
RolesTable == [refs |-> <<>>, unique |-> {"name"}]
UserRolesTable ==
    [refs |-> [role_id |-> Ref("roles", "cascade"), user_id |-> Ref("users", "cascade")],
     unique |-> {"role_id", "user_id"}]
SecretProvidersTable == [refs |-> [creator_id |-> Creator], unique |-> NoColumns]
StaticSecretsTable == [refs |-> [creator_id |-> Creator], unique |-> {"name"}]
OAuthProvidersTable == [refs |-> [creator_id |-> Creator], unique |-> {"name"}]
OAuthSessionsTable ==
    [refs |-> [creator_id |-> Creator,
               oauth_provider_id |-> Ref("oauth_providers", "restrict")],
     unique |-> NoColumns]
MCPServerConfigsTable == [refs |-> [creator_id |-> Creator], unique |-> NoColumns]
ProviderConnectionsTable == [refs |-> [creator_id |-> Creator], unique |-> NoColumns]
LlmsTable ==
    [refs |-> [creator_id |-> Creator,
               provider_connection_id |-> Ref("provider_connections", "cascade")],
     unique |-> NoColumns]
FeatureFlagsTable == [refs |-> <<>>, unique |-> {"name"}]
FeatureFlagRoleAssignmentsTable ==
    [refs |-> [feature_flag_id |-> Ref("feature_flags", "cascade"),
               role_id |-> Ref("roles", "cascade")],
     unique |-> {"feature_flag_id", "role_id"}]
FeatureFlagUserAssignmentsTable ==
    [refs |-> [feature_flag_id |-> Ref("feature_flags", "cascade"),
               user_id |-> Ref("users", "cascade")],
     unique |-> {"feature_flag_id", "user_id"}]
GroupsTable == [refs |-> [creator_id |-> Creator], unique |-> NoColumns]
GroupUsersTable ==
    [refs |-> [creator_id |-> Creator,
               group_id |-> Ref("groups", "cascade"),
               user_id |-> Ref("users", "cascade")],
     unique |-> {"group_id", "user_id"}]
LlmUsageTable ==
    [refs |-> [creator_id |-> Creator,
               provider_connection_id |-> Ref("provider_connections", "cascade"),
               llm_id |-> Ref("llms", "null")],
     unique |-> NoColumns]
LlmAggregatedUsageTable ==
    [refs |-> [creator_id |-> Creator], unique |-> {"creator_id", "name"}]
MCPUsageTable ==
    [refs |-> [creator_id |-> Creator,
               mcp_server_config_id |-> Ref("mcp_server_configs", "cascade")],
     unique |-> NoColumns]
MCPAggregatedUsageTable ==
    [refs |-> [creator_id |-> Creator], unique |-> {"creator_id", "name"}]
SandboxTemplatesTable == [refs |-> [creator_id |-> Creator], unique |-> NoColumns]
SandboxConfigsTable ==
    [refs |-> [creator_id |-> Creator,
               sandbox_template_id |-> Ref("sandbox_templates", "restrict")],
     unique |-> NoColumns]
SandboxSnapshotsTable ==
    [refs |-> [creator_id |-> Creator,
               sandbox_template_id |-> Ref("sandbox_templates", "restrict")],
     unique |-> NoColumns]
SandboxUsageTable ==
    [refs |-> [sandbox_config_id |-> Ref("sandbox_configs", "restrict")], unique |-> NoColumns]
ConversationRecordsTable ==
    [refs |-> [sandbox_config_id |-> Ref("sandbox_configs", "cascade")], unique |-> NoColumns]
EventsTable ==
    [refs |-> [conversation_record_id |-> Ref("conversation_records", "cascade")],
     unique |-> NoColumns]
JobsTable == [refs |-> [creator_id |-> Creator], unique |-> NoColumns]

Schema ==
    [users |-> UsersTable, api_keys |-> ApiKeysTable, refresh_tokens |-> RefreshTokensTable,
     idp_refresh_tokens |-> IdpRefreshTokensTable, idp_access_tokens |-> IdpAccessTokensTable,
     oauth_clients |-> OAuthClientsTable,
     oauth_client_redirect_uris |-> OAuthClientRedirectUrisTable,
     allowed_origins |-> AllowedOriginsTable, roles |-> RolesTable, user_roles |-> UserRolesTable,
     secret_providers |-> SecretProvidersTable, static_secrets |-> StaticSecretsTable,
     oauth_providers |-> OAuthProvidersTable, oauth_sessions |-> OAuthSessionsTable,
     mcp_server_configs |-> MCPServerConfigsTable,
     provider_connections |-> ProviderConnectionsTable, llms |-> LlmsTable,
     feature_flags |-> FeatureFlagsTable,
     feature_flag_role_assignments |-> FeatureFlagRoleAssignmentsTable,
     feature_flag_user_assignments |-> FeatureFlagUserAssignmentsTable,
     groups |-> GroupsTable, group_users |-> GroupUsersTable, llm_usage |-> LlmUsageTable,
     llm_aggregated_usage |-> LlmAggregatedUsageTable, mcp_usage |-> MCPUsageTable,
     mcp_aggregated_usage |-> MCPAggregatedUsageTable,
     sandbox_templates |-> SandboxTemplatesTable, sandbox_configs |-> SandboxConfigsTable,
     sandbox_snapshots |-> SandboxSnapshotsTable, sandbox_usage |-> SandboxUsageTable,
     conversation_records |-> ConversationRecordsTable, events |-> EventsTable,
     jobs |-> JobsTable]

Tables == DOMAIN Schema
Refs(t) == Schema[t].refs
Owned(t) == "creator_id" \in DOMAIN Refs(t)

(* Every foreign key points at a table of the schema, and following them   *)
(* never leads back: a cascade ends.                                       *)
Parents(S) == UNION {{Refs(t)[c].to : c \in DOMAIN Refs(t)} : t \in S}
ASSUME SchemaAssumption ==
    /\ Parents(Tables) \subseteq Tables
    /\ Parents(Parents(Parents(Parents(Parents(Tables))))) = {}
=============================================================================
