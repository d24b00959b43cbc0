------------------------------ MODULE Entities ------------------------------
(***************************************************************************)
(* What the service and the router of each resource put into the common    *)
(* request cycle of module Resources.  For a resource X:                   *)
(*   XCreate  the rows a create may insert for some payload, or the status *)
(*            its checks refuse it with                                    *)
(*   XPatch   what an update may turn a row into                           *)
(*   XRows    the rows that get, get_many, search, count, update and       *)
(*            delete can address                                           *)
(*   XVerbs   the operations the service has (alone and in a batch)        *)
(*   XRoutes  the permission each read route asks for, and the answer of   *)
(*            the batch route to an anonymous caller                       *)
(*   XErrors  the statuses the write routes turn failures into; 500 where  *)
(*            nothing catches the failure                                  *)
(* A view v maps the tables in play to their visible rows.  Encryption,    *)
(* payload validation and the wording of answers are left out.             *)
(***************************************************************************)
EXTENDS Tables, FiniteSetsExt

CONSTANTS
    MaxId,    \* bound: primary keys of a table
    Names     \* natural keys that payloads carry

ASSUME EntitiesAssumption == MaxId \in Nat \ {0} /\ Names \subseteq Nat \ {0}

Ids == 1..MaxId
Null == 0
NoSuchId == MaxId + 1
NoRow == [refs |-> <<>>, name |-> 0, val |-> 0]

(* A caller is a user with what the policies of the user's roles grant for *)
(* each action: "all" rows, "mine", or "none", which its guard refuses.    *)
(* Several roles that each deny leave "nothing": a filter that passes the  *)
(* guard and matches no row.  No role has a creator policy on a table      *)
(* without creators.                                                       *)
Scope(c, t, action) ==
    IF c.grants[action] = "mine" /\ ~Owned(t) THEN "none" ELSE c.grants[action]
Matches(c, t, action, row) ==
    \/ Scope(c, t, action) = "all"
    \/ Scope(c, t, action) = "mine" /\ row.refs.creator_id = c.user
Matching(c, t, action, v) == {i \in DOMAIN v[t] : Matches(c, t, action, v[t][i])}

(* Outcomes of the checks of an operation.                                 *)
Refuse(status) ==
    [refuse |-> status, row |-> NoRow, rewrites |-> {}, add |-> {}, drop |-> {}]
Write(row) == [refuse |-> 0, row |-> row, rewrites |-> {}, add |-> {}, drop |-> {}]
Insert(refs, name) == Write([refs |-> refs, name |-> name, val |-> 0])

(* Ids a payload can carry for a parent: rows that exist and one that      *)
(* does not.  Parents that are not in play exist.                          *)
Targets(v, p) == IF p \in DOMAIN v THEN DOMAIN v[p] \cup {NoSuchId} ELSE {1}
NewVal(row) == [row EXCEPT !.val = 1 - @]
Renamed(row) == {[row EXCEPT !.name = n] : n \in Names \ {row.name}}

AllVerbs == {"create", "update", "delete"}
LinkVerbs == {"create", "delete"}
Routes(count, anonymous) ==
    [get |-> "READ", many |-> "READ", search |-> "SEARCH", count |-> count, anonymous |-> anonymous]
Errors(scope, unique, fk, restrict) ==
    [scope |-> scope, unique |-> unique, fk |-> fk, restrict |-> restrict, missing |-> 404]

-----------------------------------------------------------------------------
(* Users, roles, grants and API keys.                                      *)

UserCreate(c, v) == {Insert(<<>>, n) : n \in Names}
UserPatch(c, v, row) == {Write(r) : r \in Renamed(row) \cup {NewVal(row)}}
UserRows(c, action, v) == Matching(c, "users", action, v)
UserVerbs == AllVerbs
UserRoutes == Routes("SEARCH", 403)
UserErrors == Errors(403, 409, 409, 500)

RoleCreate(c, v) == {Insert(<<>>, n) : n \in Names}
RolePatch(c, v, row) == {Write(r) : r \in Renamed(row) \cup {NewVal(row)}}
RoleRows(c, action, v) == Matching(c, "roles", action, v)
RoleVerbs == AllVerbs
RoleRoutes == Routes("SEARCH", 403)
RoleErrors == Errors(403, 409, 409, 500)

UserRoleCreate(c, v) ==
    {Insert([role_id |-> p[1], user_id |-> p[2]], 0) : p \in Targets(v, "roles") \X Targets(v, "users")}
UserRoleRows(c, action, v) == Matching(c, "user_roles", action, v)
UserRoleVerbs == LinkVerbs
UserRoleRoutes == Routes("SEARCH", 403)
(* Mutant: the service lets the IntegrityError of a missing parent pass.   *)
UserRoleErrorsUncaught == Errors(403, 409, 500, 500)

UserRoleErrors == Errors(403, 409, 404, 500)

(* The key may be restricted to a role; nothing checks that the role       *)
(* exists, and an update never takes the restriction away.                 *)
ApiKeyCreate(c, v) ==
    {Insert([creator_id |-> c.user, role_id |-> i], 0) : i \in Targets(v, "roles") \cup {Null}}
ApiKeyPatch(c, v, row) ==
    {Write(NewVal(row))} \cup {Write([row EXCEPT !.refs.role_id = i]) : i \in Targets(v, "roles")}
ApiKeyRows(c, action, v) == Matching(c, "api_keys", action, v)
ApiKeyVerbs == AllVerbs
ApiKeyRoutes == Routes("SEARCH", 403)
ApiKeyErrors == Errors(403, 500, 500, 500)

(* An OAuth client is written with its redirect URIs; an update deletes    *)
(* the URIs it sees and inserts the new ones.                              *)
Uri(i, n) == [table |-> "oauth_client_redirect_uris",
              row |-> [refs |-> [client_id |-> i], name |-> n, val |-> 0]]
OAuthClientCreate(c, v) ==
    {[Insert(<<>>, n) EXCEPT !.add = {Uri(Null, m)}] : n \in Names, m \in Names}
ReplaceRedirectUris(v, i, n) ==
    [add |-> {Uri(i, n)},
     drop |-> {k \in {"oauth_client_redirect_uris"} \X DOMAIN v.oauth_client_redirect_uris :
                 v.oauth_client_redirect_uris[k[2]].refs.client_id = i}]
OAuthClientPatch(c, v, row, i) ==
    {Write(NewVal(row))} \cup
    {LET new == ReplaceRedirectUris(v, i, n)
     IN [Write(row) EXCEPT !.add = new.add, !.drop = new.drop] : n \in Names}
OAuthClientRows(c, action, v) == Matching(c, "oauth_clients", action, v)
OAuthClientVerbs == AllVerbs
OAuthClientRoutes == [get |-> "READ", many |-> "READ", search |-> "SEARCH", anonymous |-> 403]
OAuthClientErrors == Errors(403, 409, 500, 500)

(* The filters of allowed origins open or close the routes as a whole, and *)
(* the filter of several denials opens them.                               *)
OriginCreate(c, v) == {Insert(<<>>, n) : n \in Names}
IgnoresFilter(t) == t = "allowed_origins"
OriginRows(c, action, v) ==
    IF Scope(c, "allowed_origins", action) = "none" THEN {} ELSE DOMAIN v.allowed_origins
OriginVerbs == LinkVerbs
OriginRoutes == [many |-> "READ", search |-> "SEARCH", anonymous |-> 403]
OriginErrors == Errors(403, 409, 409, 500)

-----------------------------------------------------------------------------
(* Feature flags: the flag's own id is its natural key.  An override needs *)
(* a flag and a role or user that its caller may read.                     *)

FlagCreate(c, v) == {Insert(<<>>, n) : n \in Names}
FlagPatch(c, v, row) == {Write(NewVal(row))}
FlagRows(c, action, v) == Matching(c, "feature_flags", action, v)
FlagVerbs == AllVerbs
FlagRoutes == Routes("SEARCH", 403)
FlagErrors == Errors(403, 409, 409, 500)

Readable(c, v, t, i) == t \in DOMAIN v => i \in Matching(c, t, "READ", v)
Override(c, v, t, i, j, refs) ==
    IF Scope(c, "feature_flags", "READ") = "none" \/ Scope(c, t, "READ") = "none" THEN Refuse(403)
    ELSE IF Readable(c, v, "feature_flags", i) /\ Readable(c, v, t, j) THEN Insert(refs, 0)
    ELSE Refuse(404)

FlagRoleCreate(c, v) ==
    {Override(c, v, "roles", p[1], p[2], [feature_flag_id |-> p[1], role_id |-> p[2]]) :
        p \in Targets(v, "feature_flags") \X Targets(v, "roles")}
FlagRoleRows(c, action, v) == Matching(c, "feature_flag_role_assignments", action, v)
FlagRoleVerbs == LinkVerbs
FlagRoleRoutes == Routes("SEARCH", 403)
FlagRoleErrors == Errors(404, 409, 404, 500)

FlagUserCreate(c, v) ==
    {Override(c, v, "users", p[1], p[2], [feature_flag_id |-> p[1], user_id |-> p[2]]) :
        p \in Targets(v, "feature_flags") \X Targets(v, "users")}
FlagUserRows(c, action, v) == Matching(c, "feature_flag_user_assignments", action, v)
FlagUserVerbs == LinkVerbs
FlagUserRoutes == Routes("SEARCH", 403)
FlagUserErrors == Errors(404, 409, 404, 500)

-----------------------------------------------------------------------------
(* Groups and their members.                                               *)

GroupCreate(c, v) == {Insert([creator_id |-> c.user], 0)}
GroupPatch(c, v, row) == {Write(NewVal(row))}
GroupRows(c, action, v) == Matching(c, "groups", action, v)
GroupVerbs == AllVerbs
GroupRoutes == Routes("SEARCH", 403)
GroupErrors == Errors(403, 403, 403, 500)

(* Mutant: the membership is written without its creator.                  *)
GroupUserCreateUnowned(c, v) ==
    {Insert([group_id |-> p[1], user_id |-> p[2]], 0) :
        p \in Targets(v, "groups") \X Targets(v, "users")}

GroupUserCreate(c, v) ==
    {Insert([creator_id |-> c.user, group_id |-> p[1], user_id |-> p[2]], 0) :
        p \in Targets(v, "groups") \X Targets(v, "users")}
GroupUserRows(c, action, v) == Matching(c, "group_users", action, v)
GroupUserVerbs == LinkVerbs
GroupUserRoutes == Routes("SEARCH", 403)
GroupUserErrors == Errors(403, 409, 404, 500)

-----------------------------------------------------------------------------
(* Secrets, OAuth providers and MCP servers.                               *)

SecretProviderCreate(c, v) == {Insert([creator_id |-> c.user], 0)}
SecretProviderPatch(c, v, row) == {Write(NewVal(row))}
SecretProviderRows(c, action, v) == Matching(c, "secret_providers", action, v)
SecretProviderVerbs == AllVerbs
SecretProviderRoutes == Routes("READ", 401)
SecretProviderErrors == Errors(403, 500, 500, 403)

StaticSecretCreate(c, v) == {Insert([creator_id |-> c.user], n) : n \in Names}
StaticSecretPatch(c, v, row) == {Write(r) : r \in Renamed(row) \cup {NewVal(row)}}
(* Mutant: the permission filter is left out of the query.                 *)
StaticSecretRowsUnfiltered(c, action, v) == DOMAIN v.static_secrets

StaticSecretRows(c, action, v) == Matching(c, "static_secrets", action, v)
StaticSecretVerbs == AllVerbs
StaticSecretRoutes == Routes("READ", 401)
StaticSecretErrors == Errors(403, 409, 409, 500)

OAuthProviderCreate(c, v) == {Insert([creator_id |-> c.user], n) : n \in Names}
OAuthProviderPatch(c, v, row) == {Write(r) : r \in Renamed(row) \cup {NewVal(row)}}
OAuthProviderRows(c, action, v) == Matching(c, "oauth_providers", action, v)
OAuthProviderVerbs == AllVerbs
OAuthProviderRoutes == Routes("READ", 401)
OAuthProviderErrors == Errors(403, 409, 409, 403)

(* An update validates the merged configuration and writes every stored    *)
(* field of it; those that are encrypted afresh always differ.             *)
MCPServerConfigCreate(c, v) == {Insert([creator_id |-> c.user], 1), Refuse(422)}
MCPServerConfigPatch(c, v, row) ==
    {[Write(r) EXCEPT !.rewrites = {"val"}] : r \in Renamed(row) \cup {NewVal(row)}}
        \cup {Refuse(422)}
MCPServerConfigRows(c, action, v) == Matching(c, "mcp_server_configs", action, v)
MCPServerConfigVerbs == AllVerbs
MCPServerConfigRoutes == Routes("SEARCH", 401)
MCPServerConfigErrors == Errors(403, 500, 500, 500)

-----------------------------------------------------------------------------
(* Provider connections and LLMs.                                          *)

ConnectionCreate(c, v) == {Insert([creator_id |-> c.user], 0)}
ConnectionPatch(c, v, row) == {Write(NewVal(row))}
ConnectionRows(c, action, v) == Matching(c, "provider_connections", action, v)
ConnectionVerbs == AllVerbs
ConnectionRoutes == Routes("SEARCH", 401)
ConnectionErrors == Errors(403, 500, 500, 500)

OwnConnection(v, i, owner) ==
    i \in DOMAIN v.provider_connections /\ v.provider_connections[i].refs.creator_id = owner

(* Mutant: the connection only has to exist.                               *)
LlmCreateAnyConnection(c, v) ==
    {IF i \in DOMAIN v.provider_connections
     THEN Insert([creator_id |-> c.user, provider_connection_id |-> i], 0) ELSE Refuse(403) :
        i \in Targets(v, "provider_connections")} \cup {Refuse(422)}

LlmCreate(c, v) ==
    {IF OwnConnection(v, i, c.user)
     THEN Insert([creator_id |-> c.user, provider_connection_id |-> i], 0) ELSE Refuse(403) :
        i \in Targets(v, "provider_connections")} \cup {Refuse(422)}
LlmPatch(c, v, row) ==
    LET keep == row.refs.provider_connection_id
    IN {IF OwnConnection(v, i, row.refs.creator_id)
        THEN Write([row EXCEPT !.refs.provider_connection_id = i]) ELSE Refuse(403) :
           i \in Targets(v, "provider_connections")}
       \cup {IF keep \in DOMAIN v.provider_connections THEN Write(NewVal(row)) ELSE Refuse(403),
             Refuse(422)}
LlmRows(c, action, v) == Matching(c, "llms", action, v)
LlmVerbs == AllVerbs
LlmRoutes == Routes("SEARCH", 401)
LlmErrors == Errors(403, 500, 500, 500)

-----------------------------------------------------------------------------
(* Sandbox templates, sandbox configs and conversation records.            *)

TemplateCreate(c, v) == {Insert([creator_id |-> c.user], 0)}
TemplatePatch(c, v, row) == {Write(NewVal(row))}
TemplateRows(c, action, v) == Matching(c, "sandbox_templates", action, v)
TemplateVerbs == AllVerbs
TemplateRoutes == Routes("SEARCH", 401)
TemplateErrors == Errors(403, 500, 500, 409)

(* A config is created with a system API key of its creator.               *)
SystemKey(u) == [table |-> "api_keys",
                 row |-> [refs |-> [creator_id |-> u, role_id |-> Null], name |-> 0, val |-> 0]]
ConfigCreate(c, v) ==
    {IF "sandbox_templates" \in DOMAIN v => i \in DOMAIN v.sandbox_templates
     THEN [Insert([creator_id |-> c.user, sandbox_template_id |-> i], 0)
             EXCEPT !.add = IF "api_keys" \in DOMAIN v THEN {SystemKey(c.user)} ELSE {}]
     ELSE Refuse(404) : i \in Targets(v, "sandbox_templates")}
ConfigPatch(c, v, row) == {Write(NewVal(row))}
ConfigRows(c, action, v) == Matching(c, "sandbox_configs", action, v)
ConfigVerbs == AllVerbs
ConfigRoutes == Routes("SEARCH", 401)
ConfigErrors == Errors(403, 500, 500, 500)

ConversationCreate(c, v) ==
    {Insert([sandbox_config_id |-> i], 0) : i \in Targets(v, "sandbox_configs")}
ConversationPatch(c, v, row) == {Write(NewVal(row))}
ConversationRows(c, action, v) == Matching(c, "conversation_records", action, v)
ConversationVerbs == AllVerbs
ConversationRoutes == Routes("SEARCH", 403)
ConversationErrors == Errors(403, 500, 500, 500)

-----------------------------------------------------------------------------
(* The resources by table.                                                 *)

Verbs ==
    [users |-> UserVerbs, roles |-> RoleVerbs, user_roles |-> UserRoleVerbs, api_keys |-> ApiKeyVerbs,
     oauth_clients |-> OAuthClientVerbs, allowed_origins |-> OriginVerbs, feature_flags |-> FlagVerbs,
     feature_flag_role_assignments |-> FlagRoleVerbs, feature_flag_user_assignments |-> FlagUserVerbs,
     groups |-> GroupVerbs, group_users |-> GroupUserVerbs, secret_providers |-> SecretProviderVerbs,
     static_secrets |-> StaticSecretVerbs, oauth_providers |-> OAuthProviderVerbs,
     mcp_server_configs |-> MCPServerConfigVerbs, provider_connections |-> ConnectionVerbs,
     llms |-> LlmVerbs, sandbox_templates |-> TemplateVerbs, sandbox_configs |-> ConfigVerbs,
     conversation_records |-> ConversationVerbs]

ReadRoutes ==
    [users |-> UserRoutes, roles |-> RoleRoutes, user_roles |-> UserRoleRoutes, api_keys |-> ApiKeyRoutes,
     oauth_clients |-> OAuthClientRoutes, allowed_origins |-> OriginRoutes, feature_flags |-> FlagRoutes,
     feature_flag_role_assignments |-> FlagRoleRoutes, feature_flag_user_assignments |-> FlagUserRoutes,
     groups |-> GroupRoutes, group_users |-> GroupUserRoutes, secret_providers |-> SecretProviderRoutes,
     static_secrets |-> StaticSecretRoutes, oauth_providers |-> OAuthProviderRoutes,
     mcp_server_configs |-> MCPServerConfigRoutes, provider_connections |-> ConnectionRoutes,
     llms |-> LlmRoutes, sandbox_templates |-> TemplateRoutes, sandbox_configs |-> ConfigRoutes,
     conversation_records |-> ConversationRoutes]

WriteErrors ==
    [users |-> UserErrors, roles |-> RoleErrors, user_roles |-> UserRoleErrors, api_keys |-> ApiKeyErrors,
     oauth_clients |-> OAuthClientErrors, allowed_origins |-> OriginErrors, feature_flags |-> FlagErrors,
     feature_flag_role_assignments |-> FlagRoleErrors, feature_flag_user_assignments |-> FlagUserErrors,
     groups |-> GroupErrors, group_users |-> GroupUserErrors, secret_providers |-> SecretProviderErrors,
     static_secrets |-> StaticSecretErrors, oauth_providers |-> OAuthProviderErrors,
     mcp_server_configs |-> MCPServerConfigErrors, provider_connections |-> ConnectionErrors,
     llms |-> LlmErrors, sandbox_templates |-> TemplateErrors, sandbox_configs |-> ConfigErrors,
     conversation_records |-> ConversationErrors]

Managed == DOMAIN Verbs

Creates(t, c, v) ==
    CASE t = "users" -> UserCreate(c, v)
      [] t = "roles" -> RoleCreate(c, v)
      [] t = "user_roles" -> UserRoleCreate(c, v)
      [] t = "api_keys" -> ApiKeyCreate(c, v)
      [] t = "oauth_clients" -> OAuthClientCreate(c, v)
      [] t = "allowed_origins" -> OriginCreate(c, v)
      [] t = "feature_flags" -> FlagCreate(c, v)
      [] t = "feature_flag_role_assignments" -> FlagRoleCreate(c, v)
      [] t = "feature_flag_user_assignments" -> FlagUserCreate(c, v)
      [] t = "groups" -> GroupCreate(c, v)
      [] t = "group_users" -> GroupUserCreate(c, v)
      [] t = "secret_providers" -> SecretProviderCreate(c, v)
      [] t = "static_secrets" -> StaticSecretCreate(c, v)
      [] t = "oauth_providers" -> OAuthProviderCreate(c, v)
      [] t = "mcp_server_configs" -> MCPServerConfigCreate(c, v)
      [] t = "provider_connections" -> ConnectionCreate(c, v)
      [] t = "llms" -> LlmCreate(c, v)
      [] t = "sandbox_templates" -> TemplateCreate(c, v)
      [] t = "sandbox_configs" -> ConfigCreate(c, v)
      [] t = "conversation_records" -> ConversationCreate(c, v)

Patches(t, c, v, i) ==
    LET row == v[t][i]
    IN CASE t = "users" -> UserPatch(c, v, row)
         [] t = "roles" -> RolePatch(c, v, row)
         [] t = "api_keys" -> ApiKeyPatch(c, v, row)
         [] t = "oauth_clients" -> OAuthClientPatch(c, v, row, i)
         [] t = "feature_flags" -> FlagPatch(c, v, row)
         [] t = "groups" -> GroupPatch(c, v, row)
         [] t = "secret_providers" -> SecretProviderPatch(c, v, row)
         [] t = "static_secrets" -> StaticSecretPatch(c, v, row)
         [] t = "oauth_providers" -> OAuthProviderPatch(c, v, row)
         [] t = "mcp_server_configs" -> MCPServerConfigPatch(c, v, row)
         [] t = "provider_connections" -> ConnectionPatch(c, v, row)
         [] t = "llms" -> LlmPatch(c, v, row)
         [] t = "sandbox_templates" -> TemplatePatch(c, v, row)
         [] t = "sandbox_configs" -> ConfigPatch(c, v, row)
         [] t = "conversation_records" -> ConversationPatch(c, v, row)

Rows(t, c, action, v) ==
    CASE t = "users" -> UserRows(c, action, v)
      [] t = "roles" -> RoleRows(c, action, v)
      [] t = "user_roles" -> UserRoleRows(c, action, v)
      [] t = "api_keys" -> ApiKeyRows(c, action, v)
      [] t = "oauth_clients" -> OAuthClientRows(c, action, v)
      [] t = "allowed_origins" -> OriginRows(c, action, v)
      [] t = "feature_flags" -> FlagRows(c, action, v)
      [] t = "feature_flag_role_assignments" -> FlagRoleRows(c, action, v)
      [] t = "feature_flag_user_assignments" -> FlagUserRows(c, action, v)
      [] t = "groups" -> GroupRows(c, action, v)
      [] t = "group_users" -> GroupUserRows(c, action, v)
      [] t = "secret_providers" -> SecretProviderRows(c, action, v)
      [] t = "static_secrets" -> StaticSecretRows(c, action, v)
      [] t = "oauth_providers" -> OAuthProviderRows(c, action, v)
      [] t = "mcp_server_configs" -> MCPServerConfigRows(c, action, v)
      [] t = "provider_connections" -> ConnectionRows(c, action, v)
      [] t = "llms" -> LlmRows(c, action, v)
      [] t = "sandbox_templates" -> TemplateRows(c, action, v)
      [] t = "sandbox_configs" -> ConfigRows(c, action, v)
      [] t = "conversation_records" -> ConversationRows(c, action, v)
=============================================================================
