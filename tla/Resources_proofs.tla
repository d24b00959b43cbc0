--------------------------- MODULE Resources_proofs ---------------------------
(***************************************************************************)
(* Proofs about Resources and CorsCache, for any requests, ids, page       *)
(* sizes, TTL and numbers of operations in a transaction: the types, what  *)
(* a paged search shows, how stale the cache of origins may be, that an    *)
(* LLM profile runs on a connection of its own creator, that foreign keys  *)
(* hold, that a request alone never ends in an internal error, and that a  *)
(* commit writes only what the grants and the payloads of its caller cover.*)
(***************************************************************************)
EXTENDS CorsCache, WellFoundedInduction, FiniteSetTheorems, TLAPS

-----------------------------------------------------------------------------
(* Least and greatest numbers of a set.                                    *)

Below == {p \in Nat \X Nat : p[1] < p[2]}

\* A set of numbers that is not empty has a least one, and Min names it.
LEMMA MinIsLeast ==
    ASSUME NEW S \in SUBSET Nat, S # {}
    PROVE  Min(S) \in S /\ \A x \in S : Min(S) <= x
<1>1. IsWellFoundedOn(Below, Nat)
  BY NatLessThanWellFounded DEF OpToRel, Below
<1>2. PICK x \in S : \A y \in S : ~(<<y, x>> \in Below)
  BY <1>1, WFMin
<1>3. \A y \in S : x <= y
  <2> TAKE y \in S
  <2>1. ~(y < x)
    <3>1. y \in Nat /\ x \in Nat
      OBVIOUS
    <3>2. <<y, x>> \notin Below
      BY <1>2
    <3>3. QED
      BY <3>1, <3>2 DEF Below
  <2>2. QED
    BY <2>1
<1>4. QED
  BY <1>3 DEF Min

\* A bounded set of numbers has a greatest one, and Max names it.
LEMMA MaxIsGreatest ==
    ASSUME NEW n \in Nat, NEW S \in SUBSET (0..n), S # {}
    PROVE  Max(S) \in S /\ \A x \in S : x <= Max(S)
<1> DEFINE T == {n - x : x \in S}
<1>1. T \subseteq Nat /\ T # {}
  <2>1. \A x \in S : n - x \in Nat
    OBVIOUS
  <2>2. QED
    BY <2>1
<1>2. Min(T) \in T /\ \A x \in T : Min(T) <= x
  <2> HIDE DEF T
  <2>1. QED
    BY <1>1, MinIsLeast
<1>3. PICK x \in S : n - x = Min(T)
  BY <1>2
<1>4. ASSUME NEW y \in S
      PROVE  x >= y
  <2>1. n - x <= n - y
    BY <1>2, <1>3
  <2>2. QED
    BY <2>1
<1>5. QED
  BY <1>4 DEF Max

-----------------------------------------------------------------------------
(* The schema, table by table.                                             *)

\* The foreign keys of each table, as the schema gives them.
LEMMA RefsOfTables ==
    /\ Refs("users") = <<>>
    /\ Refs("api_keys") = [creator_id |-> Creator, role_id |-> Ref("roles", "null")]
    /\ Refs("refresh_tokens") = [creator_id |-> Creator]
    /\ Refs("idp_refresh_tokens") = [creator_id |-> Creator]
    /\ Refs("idp_access_tokens") = [refresh_token_id |-> Ref("idp_refresh_tokens", "cascade")]
    /\ Refs("oauth_clients") = <<>>
    /\ Refs("oauth_client_redirect_uris") = [client_id |-> Ref("oauth_clients", "cascade")]
    /\ Refs("allowed_origins") = <<>>
    /\ Refs("roles") = <<>>
    /\ Refs("user_roles") = [role_id |-> Ref("roles", "cascade"), user_id |-> Ref("users", "cascade")]
    /\ Refs("secret_providers") = [creator_id |-> Creator]
    /\ Refs("static_secrets") = [creator_id |-> Creator]
    /\ Refs("oauth_providers") = [creator_id |-> Creator]
    /\ Refs("oauth_sessions") = [creator_id |-> Creator, oauth_provider_id |-> Ref("oauth_providers",
                   "restrict")]
    /\ Refs("mcp_server_configs") = [creator_id |-> Creator]
    /\ Refs("provider_connections") = [creator_id |-> Creator]
    /\ Refs("llms") = [creator_id |-> Creator, provider_connection_id |-> Ref("provider_connections",
                   "cascade")]
    /\ Refs("feature_flags") = <<>>
    /\ Refs("feature_flag_role_assignments") = [feature_flag_id |-> Ref("feature_flags", "cascade"),
                   role_id |-> Ref("roles", "cascade")]
    /\ Refs("feature_flag_user_assignments") = [feature_flag_id |-> Ref("feature_flags", "cascade"),
                   user_id |-> Ref("users", "cascade")]
    /\ Refs("groups") = [creator_id |-> Creator]
    /\ Refs("group_users") = [creator_id |-> Creator, group_id |-> Ref("groups", "cascade"),
                   user_id |-> Ref("users", "cascade")]
    /\ Refs("llm_usage") = [creator_id |-> Creator,
                   provider_connection_id |-> Ref("provider_connections", "cascade"),
                   llm_id |-> Ref("llms", "null")]
    /\ Refs("llm_aggregated_usage") = [creator_id |-> Creator]
    /\ Refs("mcp_usage") = [creator_id |-> Creator, mcp_server_config_id |-> Ref("mcp_server_configs",
                   "cascade")]
    /\ Refs("mcp_aggregated_usage") = [creator_id |-> Creator]
    /\ Refs("sandbox_templates") = [creator_id |-> Creator]
    /\ Refs("sandbox_configs") = [creator_id |-> Creator,
                   sandbox_template_id |-> Ref("sandbox_templates", "restrict")]
    /\ Refs("sandbox_snapshots") = [creator_id |-> Creator,
                   sandbox_template_id |-> Ref("sandbox_templates", "restrict")]
    /\ Refs("sandbox_usage") = [sandbox_config_id |-> Ref("sandbox_configs", "restrict")]
    /\ Refs("conversation_records") = [sandbox_config_id |-> Ref("sandbox_configs", "cascade")]
    /\ Refs("events") = [conversation_record_id |-> Ref("conversation_records", "cascade")]
    /\ Refs("jobs") = [creator_id |-> Creator]
BY DEF Refs, Schema, UsersTable, ApiKeysTable, RefreshTokensTable, IdpRefreshTokensTable,
   IdpAccessTokensTable, OAuthClientsTable, OAuthClientRedirectUrisTable, AllowedOriginsTable,
   RolesTable, UserRolesTable, SecretProvidersTable, StaticSecretsTable, OAuthProvidersTable,
   OAuthSessionsTable, MCPServerConfigsTable, ProviderConnectionsTable, LlmsTable, FeatureFlagsTable,
   FeatureFlagRoleAssignmentsTable, FeatureFlagUserAssignmentsTable, GroupsTable, GroupUsersTable,
   LlmUsageTable, LlmAggregatedUsageTable, MCPUsageTable, MCPAggregatedUsageTable, SandboxTemplatesTable,
   SandboxConfigsTable, SandboxSnapshotsTable, SandboxUsageTable, ConversationRecordsTable, EventsTable,
   JobsTable

\* The tables of the schema.
LEMMA TablesAre ==
    Tables = {"users", "api_keys", "refresh_tokens",
                "idp_refresh_tokens", "idp_access_tokens", "oauth_clients",
                "oauth_client_redirect_uris", "allowed_origins", "roles",
                "user_roles", "secret_providers", "static_secrets",
                "oauth_providers", "oauth_sessions", "mcp_server_configs",
                "provider_connections", "llms", "feature_flags",
                "feature_flag_role_assignments", "feature_flag_user_assignments", "groups",
                "group_users", "llm_usage", "llm_aggregated_usage",
                "mcp_usage", "mcp_aggregated_usage", "sandbox_templates",
                "sandbox_configs", "sandbox_snapshots", "sandbox_usage",
                "conversation_records", "events", "jobs"}
BY DEF Tables, Schema

(* Only two columns of the schema are set to NULL by a delete.             *)
LEMMA NullColumns ==
    ASSUME NEW t \in Tables, NEW c \in DOMAIN Refs(t), Refs(t)[c].del = "null"
    PROVE  t \in {"api_keys", "llm_usage"}
BY RefsOfTables, TablesAre, SMTT(100) DEF Ref, Creator

\* The tables that have routes.
LEMMA ManagedAre ==
    Managed = {"users", "roles", "user_roles", "api_keys", "oauth_clients", "allowed_origins",
               "feature_flags", "feature_flag_role_assignments", "feature_flag_user_assignments",
               "groups", "group_users", "secret_providers", "static_secrets", "oauth_providers",
               "mcp_server_configs", "provider_connections", "llms", "sandbox_templates",
               "sandbox_configs", "conversation_records"}
BY DEF Managed, Verbs

-----------------------------------------------------------------------------
(* Types.                                                                  *)

Fields == {"pc", "caller", "table", "left", "verb", "id", "old", "out", "asked", "alone", "ans"}
Outcome == {"refuse", "row", "rewrites", "add", "drop"}
Beside == {"oauth_client_redirect_uris", "api_keys"}

ViewOK(S, v) ==
    /\ DOMAIN v = S
    /\ \A t \in S : DOMAIN v[t] \subseteq Ids /\ \A i \in DOMAIN v[t] : IsRow(t, v[t][i])

Payload(S, t, out) ==
    /\ DOMAIN out = Outcome /\ IsRow(t, out.row)
    /\ \A a \in out.add :
         /\ a.table \in S \cap Beside
         /\ \A i \in Ids : IsRow(a.table, Attach(a, i))
    /\ out.drop \subseteq (S \cap {"oauth_client_redirect_uris"}) \X Ids

\* A row of a table is a payload of that table.
LEMMA WriteOK ==
    ASSUME NEW S, NEW t, NEW row, IsRow(t, row)
    PROVE  Payload(S, t, Write(row))
BY DEF Payload, Write, Outcome

Cell(t, c) == Ids \cup {NoSuchId} \cup (IF Refs(t)[c].del = "null" THEN {Null} ELSE {})

\* So is a new row that fills the table's foreign keys.
LEMMA InsertOK ==
    ASSUME NEW S, NEW t, NEW refs, NEW name \in Names \cup {0} \cup Ids,
           DOMAIN refs = DOMAIN Refs(t), \A c \in DOMAIN refs : refs[c] \in Cell(t, c)
    PROVE  Payload(S, t, Insert(refs, name))
<1>1. IsRow(t, [refs |-> refs, name |-> name, val |-> 0])
  BY DEF IsRow, Cell
<1>2. QED
  BY <1>1, WriteOK DEF Insert

\* Changing the value or the name of a row leaves its foreign keys.
LEMMA ChangedRowOK ==
    ASSUME NEW t, NEW row, IsRow(t, row)
    PROVE  /\ IsRow(t, NewVal(row))
           /\ \A new \in Renamed(row) : IsRow(t, new)
<1>1. IsRow(t, NewVal(row))
  BY DEF IsRow, NewVal
<1>2. ASSUME NEW n \in Names
      PROVE  IsRow(t, [row EXCEPT !.name = n])
  BY DEF IsRow
<1>3. QED
  BY <1>1, <1>2 DEF Renamed

\* A request names existing ids or one that does not exist.
LEMMA TargetsOK ==
    ASSUME NEW S, NEW v, ViewOK(S, v), NEW t
    PROVE  Targets(v, t) \subseteq Ids \cup {NoSuchId}
BY EntitiesAssumption DEF Targets, ViewOK, Ids

(* What a create may insert is a row of its table, for every resource.     *)
LEMMA CreatesOK ==
    ASSUME NEW S \in Scenes, NEW t \in S \cap Managed, NEW c \in Callers, c.user \in Ids,
           NEW v, ViewOK(S, v), NEW o \in Creates(t, c, v), o.refuse = 0
    PROVE  Payload(S, t, o)
<1> USE EntitiesAssumption DEF Null
<1>0. \A p : Targets(v, p) \subseteq Ids \cup {NoSuchId}
  BY TargetsOK
<1>1. 0 \in Names \cup {0} \cup Ids /\ 1 \in Ids /\ Names \subseteq Names \cup {0} \cup Ids
  BY DEF Ids
<1>24. \A d : Ids \cup {NoSuchId} \subseteq Cell(t, d)
  BY DEF Cell
<1>2. Refuse(403).refuse # 0 /\ Refuse(404).refuse # 0 /\ Refuse(422).refuse # 0
  BY DEF Refuse
<1>3. CASE t = "users"
  BY <1>3, <1>1, <1>24, InsertOK, RefsOfTables DEF Creates, UserCreate
<1>4. CASE t = "roles"
  BY <1>4, <1>1, <1>24, InsertOK, RefsOfTables DEF Creates, RoleCreate
<1>5. CASE t = "allowed_origins"
  BY <1>5, <1>1, <1>24, InsertOK, RefsOfTables DEF Creates, OriginCreate
<1>6. CASE t = "feature_flags"
  BY <1>6, <1>1, <1>24, InsertOK, RefsOfTables DEF Creates, FlagCreate
<1>7. CASE t = "groups"
  BY <1>7, <1>1, <1>24, InsertOK, RefsOfTables DEF Creates, GroupCreate
<1>8. CASE t = "secret_providers"
  BY <1>8, <1>1, <1>24, InsertOK, RefsOfTables DEF Creates, SecretProviderCreate
<1>9. CASE t = "provider_connections"
  BY <1>9, <1>1, <1>24, InsertOK, RefsOfTables DEF Creates, ConnectionCreate
<1>10. CASE t = "sandbox_templates"
  BY <1>10, <1>1, <1>24, InsertOK, RefsOfTables DEF Creates, TemplateCreate
<1>11. CASE t = "static_secrets"
  BY <1>11, <1>1, <1>24, InsertOK, RefsOfTables DEF Creates, StaticSecretCreate
<1>12. CASE t = "oauth_providers"
  BY <1>12, <1>1, <1>24, InsertOK, RefsOfTables DEF Creates, OAuthProviderCreate
<1>13. CASE t = "user_roles"
  <2>1. PICK p \in Targets(v, "roles") \X Targets(v, "users") :
               o = Insert([role_id |-> p[1], user_id |-> p[2]], 0)
    BY <1>13 DEF Creates, UserRoleCreate
  <2>2. p[1] \in Ids \cup {NoSuchId} /\ p[2] \in Ids \cup {NoSuchId}
    BY <2>1, <1>0
  <2>3. Refs(t) = [role_id |-> Ref("roles", "cascade"), user_id |-> Ref("users", "cascade")]
    BY <1>13, RefsOfTables
  <2>4. QED
    BY <2>1, <2>2, <2>3, <1>1, <1>24, InsertOK
<1>14. CASE t = "group_users"
  <2>1. PICK p \in Targets(v, "groups") \X Targets(v, "users") :
               o = Insert([creator_id |-> c.user, group_id |-> p[1], user_id |-> p[2]], 0)
    BY <1>14 DEF Creates, GroupUserCreate
  <2>2. p[1] \in Ids \cup {NoSuchId} /\ p[2] \in Ids \cup {NoSuchId}
    BY <2>1, <1>0
  <2>3. Refs(t) = [creator_id |-> Creator, group_id |-> Ref("groups", "cascade"),
                 user_id |-> Ref("users", "cascade")]
    BY <1>14, RefsOfTables
  <2>4. QED
    BY <2>1, <2>2, <2>3, <1>1, <1>24, InsertOK
<1>15. CASE t = "api_keys"
  <2>1. PICK i \in Targets(v, "roles") \cup {Null} :
               o = Insert([creator_id |-> c.user, role_id |-> i], 0)
    BY <1>15 DEF Creates, ApiKeyCreate
  <2>2. i \in Ids \cup {NoSuchId} \cup {Null}
    BY <2>1, <1>0
  <2>3. Refs(t) = [creator_id |-> Creator, role_id |-> Ref("roles", "null")]
    BY <1>15, RefsOfTables
  <2>4. QED
    BY <2>1, <2>2, <2>3, <1>1, <1>24, InsertOK DEF Cell, Ref
<1>16. CASE t = "conversation_records"
  <2>1. PICK i \in Targets(v, "sandbox_configs") : o = Insert([sandbox_config_id |-> i], 0)
    BY <1>16 DEF Creates, ConversationCreate
  <2>2. i \in Ids \cup {NoSuchId}
    BY <2>1, <1>0
  <2>3. Refs(t) = [sandbox_config_id |-> Ref("sandbox_configs", "cascade")]
    BY <1>16, RefsOfTables
  <2>4. QED
    BY <2>1, <2>2, <2>3, <1>1, <1>24, InsertOK
<1>17. CASE t = "feature_flag_role_assignments"
  <2>1. PICK p \in Targets(v, "feature_flags") \X Targets(v, "roles") :
               o = Insert([feature_flag_id |-> p[1], role_id |-> p[2]], 0)
    BY <1>17, <1>2 DEF Creates, FlagRoleCreate, Override
  <2>2. p[1] \in Ids \cup {NoSuchId} /\ p[2] \in Ids \cup {NoSuchId}
    BY <2>1, <1>0
  <2>3. Refs(t) = [feature_flag_id |-> Ref("feature_flags", "cascade"), role_id |-> Ref("roles", "cascade")]
    BY <1>17, RefsOfTables
  <2>4. QED
    BY <2>1, <2>2, <2>3, <1>1, <1>24, InsertOK
<1>18. CASE t = "feature_flag_user_assignments"
  <2>1. PICK p \in Targets(v, "feature_flags") \X Targets(v, "users") :
               o = Insert([feature_flag_id |-> p[1], user_id |-> p[2]], 0)
    BY <1>18, <1>2 DEF Creates, FlagUserCreate, Override
  <2>2. p[1] \in Ids \cup {NoSuchId} /\ p[2] \in Ids \cup {NoSuchId}
    BY <2>1, <1>0
  <2>3. Refs(t) = [feature_flag_id |-> Ref("feature_flags", "cascade"), user_id |-> Ref("users", "cascade")]
    BY <1>18, RefsOfTables
  <2>4. QED
    BY <2>1, <2>2, <2>3, <1>1, <1>24, InsertOK
<1>19. CASE t = "mcp_server_configs"
  BY <1>19, <1>1, <1>2, <1>24, InsertOK, RefsOfTables DEF Creates, MCPServerConfigCreate
<1>20. CASE t = "llms"
  <2>1. PICK i \in Targets(v, "provider_connections") :
               o = Insert([creator_id |-> c.user, provider_connection_id |-> i], 0)
    BY <1>20, <1>2, ZenonT(30) DEF Creates, LlmCreate
  <2>2. i \in Ids \cup {NoSuchId}
    BY <2>1, <1>0
  <2>3. Refs(t) = [creator_id |-> Creator, provider_connection_id |-> Ref("provider_connections",
                 "cascade")]
    BY <1>20, RefsOfTables
  <2>4. QED
    BY <2>1, <2>2, <2>3, <1>1, <1>24, InsertOK
<1>21. CASE t = "oauth_clients"
  <2>1. PICK n \in Names, m \in Names : o = [Insert(<<>>, n) EXCEPT !.add = {Uri(Null, m)}]
    BY <1>21 DEF Creates, OAuthClientCreate
  <2>2. Payload(S, t, Insert(<<>>, n))
    BY <1>21, <1>1, <1>24, InsertOK, RefsOfTables
  <2>3. \A i \in Ids : IsRow("oauth_client_redirect_uris", Attach(Uri(Null, m), i))
    BY RefsOfTables DEF Attach, Uri, IsRow
  <2>4. o.add = {Uri(Null, m)} /\ o.row = Insert(<<>>, n).row /\ o.drop = Insert(<<>>, n).drop
        /\ DOMAIN o = DOMAIN Insert(<<>>, n)
    BY <2>1 DEF Insert, Write
  <2>5. "oauth_client_redirect_uris" \in S \cap Beside
    BY <1>21, ScenesAssumption DEF Beside
  <2>6. Uri(Null, m).table = "oauth_client_redirect_uris"
    BY DEF Uri
  <2>7. QED
    BY <2>2, <2>3, <2>4, <2>5, <2>6 DEF Payload
<1>22. CASE t = "sandbox_configs"
  <2>1. SUFFICES ASSUME NEW i \in Ids \cup {NoSuchId},
                        o = [Insert([creator_id |-> c.user, sandbox_template_id |-> i], 0)
                               EXCEPT !.add = IF "api_keys" \in DOMAIN v THEN {SystemKey(c.user)}
                                              ELSE {}]
                 PROVE  Payload(S, t, o)
    <3>1. PICK i \in Targets(v, "sandbox_templates") :
                 o = [Insert([creator_id |-> c.user, sandbox_template_id |-> i], 0)
                        EXCEPT !.add = IF "api_keys" \in DOMAIN v THEN {SystemKey(c.user)} ELSE {}]
      BY <1>22, <1>2, ZenonT(30) DEF Creates, ConfigCreate
    <3>2. QED
      BY <3>1, <1>0
  <2>2. Payload(S, t, Insert([creator_id |-> c.user, sandbox_template_id |-> i], 0))
    <3>1. Refs(t) = [creator_id |-> Creator,
                     sandbox_template_id |-> Ref("sandbox_templates", "restrict")]
      BY <1>22, RefsOfTables
    <3>2. QED
      BY <3>1, <1>1, <1>24, InsertOK
  <2>3. \A j \in Ids : IsRow("api_keys", Attach(SystemKey(c.user), j))
    <3>1. Refs("api_keys") = [creator_id |-> Creator, role_id |-> Ref("roles", "null")]
      BY RefsOfTables
    <3>2. QED
      BY <3>1 DEF Attach, SystemKey, IsRow, Ref, Creator, Ids
  <2>4. QED
    BY <1>22, <2>1, <2>2, <2>3 DEF Payload, Beside, SystemKey, ViewOK
<1> QED
  BY ManagedAre, <1>3, <1>4, <1>5, <1>6, <1>7, <1>8, <1>9, <1>10, <1>11, <1>12, <1>13, <1>14, <1>15,
     <1>16, <1>17, <1>18, <1>19, <1>20, <1>21, <1>22
(* What an update turns a row into is a row of the same table.             *)
LEMMA PatchesOK ==
    ASSUME NEW S \in Scenes, NEW t \in S \cap Managed, "update" \in Verbs[t],
           NEW c \in Callers, NEW v, ViewOK(S, v), NEW i \in DOMAIN v[t],
           NEW o \in Patches(t, c, v, i), o.refuse = 0
    PROVE  Payload(S, t, o)
<1> DEFINE row == v[t][i]
<1>0. IsRow(t, row) /\ i \in Ids
  BY DEF ViewOK
<1>1. \A p : Targets(v, p) \subseteq Ids \cup {NoSuchId}
  BY TargetsOK
<1>2. Refuse(403).refuse # 0 /\ Refuse(422).refuse # 0
  BY DEF Refuse
<1>3. Payload(S, t, Write(NewVal(row))) /\ \A new \in Renamed(row) : Payload(S, t, Write(new))
  BY <1>0, ChangedRowOK, WriteOK
<1> HIDE DEF row
<1>4. ASSUME t \in {"users", "roles", "static_secrets", "oauth_providers"}
      PROVE  Payload(S, t, o)
  BY <1>4, <1>3 DEF Patches, UserPatch, RolePatch, StaticSecretPatch, OAuthProviderPatch, row
<1>5. ASSUME t \in {"feature_flags", "groups", "secret_providers", "provider_connections",
                    "sandbox_templates", "sandbox_configs", "conversation_records"}
      PROVE  Payload(S, t, o)
  BY <1>5, <1>3 DEF Patches, FlagPatch, GroupPatch, SecretProviderPatch, ConnectionPatch,
                    TemplatePatch, ConfigPatch, ConversationPatch, row
<1>6. CASE t = "mcp_server_configs"
  <2>1. PICK new \in Renamed(row) \cup {NewVal(row)} :
               o = [Write(new) EXCEPT !.rewrites = {"val"}]
    BY <1>6, <1>2 DEF Patches, MCPServerConfigPatch, row
  <2>2. QED
    BY <2>1, <1>3 DEF Payload, Write, Outcome
<1>7. CASE t = "api_keys"
  <2>1. \/ o = Write(NewVal(row))
        \/ \E j \in Targets(v, "roles") : o = Write([row EXCEPT !.refs.role_id = j])
    BY <1>7 DEF Patches, ApiKeyPatch, row
  <2>2. \A j \in Ids \cup {NoSuchId} : IsRow(t, [row EXCEPT !.refs.role_id = j])
    BY <1>0 DEF IsRow
  <2>3. QED
    BY <2>1, <2>2, <1>1, <1>3, WriteOK
<1>8. CASE t = "llms"
  <2>1. \/ o = Write(NewVal(row))
        \/ \E j \in Targets(v, "provider_connections") :
             o = Write([row EXCEPT !.refs.provider_connection_id = j])
    BY <1>8, <1>2, ZenonT(30) DEF Patches, LlmPatch, row
  <2>2. \A j \in Ids \cup {NoSuchId} : IsRow(t, [row EXCEPT !.refs.provider_connection_id = j])
    BY <1>0 DEF IsRow
  <2>3. QED
    BY <2>1, <2>2, <1>1, <1>3, WriteOK
<1>9. CASE t = "oauth_clients"
  <2>1. CASE o = Write(NewVal(row))
    BY <2>1, <1>3
  <2>2. ASSUME NEW n \in Names,
               o = [Write(row) EXCEPT !.add = {Uri(i, n)}, !.drop = ReplaceRedirectUris(v, i, n).drop]
        PROVE  Payload(S, t, o)
    <3>1. "oauth_client_redirect_uris" \in S \cap Beside
      BY <1>9, ScenesAssumption DEF Beside
    <3>2. \A j \in Ids : IsRow("oauth_client_redirect_uris", Attach(Uri(i, n), j))
      <4>1. Refs("oauth_client_redirect_uris") = [client_id |-> Ref("oauth_clients", "cascade")]
        BY RefsOfTables
      <4>2. QED
        BY <4>1, <1>0, EntitiesAssumption DEF Attach, Uri, IsRow, Ref
    <3>3. ReplaceRedirectUris(v, i, n).drop \subseteq {"oauth_client_redirect_uris"} \X Ids
      BY <3>1 DEF ReplaceRedirectUris, ViewOK
    <3>4. Uri(i, n).table = "oauth_client_redirect_uris"
      BY DEF Uri
    <3>5. /\ o.add = {Uri(i, n)} /\ o.drop = ReplaceRedirectUris(v, i, n).drop
          /\ o.row = row /\ DOMAIN o = Outcome
      BY <2>2 DEF Write, Outcome
    <3>6. QED
      BY <3>1, <3>2, <3>3, <3>4, <3>5, <1>0 DEF Payload
  <2>3. QED
    BY <1>9, <2>1, <2>2 DEF Patches, OAuthClientPatch, ReplaceRedirectUris, row
<1>10. t \notin {"user_roles", "allowed_origins", "feature_flag_role_assignments",
                 "feature_flag_user_assignments", "group_users"}
  BY DEF Verbs, LinkVerbs, UserRoleVerbs, OriginVerbs, FlagRoleVerbs, FlagUserVerbs, GroupUserVerbs
<1>11. QED
  BY ManagedAre, <1>4, <1>5, <1>6, <1>7, <1>8, <1>9, <1>10

\* A caller is only ever shown rows of the table.
LEMMA RowsInTable ==
    ASSUME NEW t \in Managed, NEW c, NEW action, NEW v
    PROVE  Rows(t, c, action, v) \subseteq DOMAIN v[t]
<1>1. \A u : Matching(c, u, action, v) \subseteq DOMAIN v[u]
  BY DEF Matching
<1>2. OriginRows(c, action, v) \subseteq DOMAIN v["allowed_origins"]
  BY DEF OriginRows
<1>3. QED
  BY <1>1, <1>2, ManagedAre, SMTT(60)
     DEF Rows, UserRows, RoleRows, UserRoleRows, ApiKeyRows, OAuthClientRows, FlagRows, FlagRoleRows,
         FlagUserRows, GroupRows, GroupUserRows, SecretProviderRows, StaticSecretRows,
         OAuthProviderRows, MCPServerConfigRows, ConnectionRows, LlmRows, TemplateRows, ConfigRows,
         ConversationRows

-----------------------------------------------------------------------------
(* What a statement writes.                                                *)

Written(S, w) == \A k \in DOMAIN w : k \in S \X Ids /\ (w[k] = Gone \/ IsRow(k[1], w[k]))

\* A row is not the mark of a deleted one.
LEMMA RowIsNotGone == \A t, row : IsRow(t, row) => row # Gone
BY DEF IsRow, Gone

(* A row as a transaction sees it: its own write, or what is committed.    *)
LEMMA OverlayAt ==
    ASSUME NEW v, NEW w, NEW t \in DOMAIN v
    PROVE  /\ DOMAIN Overlay(v, w) = DOMAIN v
           /\ \A i \in Ids : <<t, i>> \in DOMAIN w =>
                /\ i \in DOMAIN Overlay(v, w)[t] <=> w[<<t, i>>] # Gone
                /\ w[<<t, i>>] # Gone => Overlay(v, w)[t][i] = w[<<t, i>>]
           /\ \A i : ~(i \in Ids /\ <<t, i>> \in DOMAIN w) =>
                /\ i \in DOMAIN Overlay(v, w)[t] <=> i \in DOMAIN v[t]
                /\ i \in DOMAIN v[t] => Overlay(v, w)[t][i] = v[t][i]
<1> DEFINE written == {i \in Ids : <<t, i>> \in DOMAIN w}
           gone == {i \in written : w[<<t, i>>] = Gone}
<1>1. /\ DOMAIN Overlay(v, w) = DOMAIN v
      /\ Overlay(v, w)[t] = [i \in (DOMAIN v[t] \cup written) \ gone |->
                               IF i \in written THEN w[<<t, i>>] ELSE v[t][i]]
  BY DEF Overlay
<1> HIDE DEF Gone
<1>2. QED
  BY <1>1

\* Rows written over rows are rows.
LEMMA OverlayOK ==
    ASSUME NEW S, NEW v, ViewOK(S, v), NEW w, Written(S, w)
    PROVE  ViewOK(S, Overlay(v, w))
<1>1. DOMAIN Overlay(v, w) = S
  BY DEF Overlay, ViewOK
<1>2. ASSUME NEW t \in S, NEW i \in DOMAIN Overlay(v, w)[t]
      PROVE  i \in Ids /\ IsRow(t, Overlay(v, w)[t][i])
  <2>1. CASE i \in Ids /\ <<t, i>> \in DOMAIN w
    BY <1>2, <2>1, OverlayAt DEF ViewOK, Written
  <2>2. CASE ~(i \in Ids /\ <<t, i>> \in DOMAIN w)
    BY <1>2, <2>2, OverlayAt DEF ViewOK
  <2>3. QED
    BY <2>1, <2>2
<1>3. QED
  BY <1>1, <1>2 DEF ViewOK

\* A statement that writes one row writes a row.
LEMMA OneOK ==
    ASSUME NEW S, NEW k \in S \X Ids, NEW row, IsRow(k[1], row)
    PROVE  Written(S, One(k, row))
BY DEF Written, One

\* Later rows over earlier ones are rows.
LEMMA OverOK ==
    ASSUME NEW S, NEW f, Written(S, f), NEW g, Written(S, g)
    PROVE  Written(S, Over(f, g))
BY DEF Written, Over

\* Nothing is written by default.
LEMMA NothingOK == \A S : Written(S, Nothing)
BY DEF Written, Nothing

\* The row that a concurrent commit left, with the columns of an UPDATE, is a row.
LEMMA MergeOK ==
    ASSUME NEW t, NEW old, NEW out, NEW now, IsRow(t, old), IsRow(t, out.row), IsRow(t, now)
    PROVE  IsRow(t, Merge(old, out, now))
<1>1. /\ Merge(old, out, now).name \in {out.row.name, now.name}
      /\ Merge(old, out, now).val \in {out.row.val, now.val}
      /\ DOMAIN Merge(old, out, now).refs = DOMAIN now.refs
      /\ \A c \in DOMAIN now.refs : Merge(old, out, now).refs[c] \in {out.row.refs[c], now.refs[c]}
      /\ DOMAIN Merge(old, out, now) = {"refs", "name", "val"}
  BY DEF Merge
<1>2. QED
  BY <1>1 DEF IsRow

(* A user is doomed only when it is the one deleted, a connection only     *)
(* when it or its creator is.                                              *)
LEMMA DoomedRoots ==
    ASSUME NEW v, NEW k, NEW p \in Doomed(v, k)
    PROVE  /\ p[1] = "users" => p = k
           /\ p[1] = "provider_connections" => p \in Cascade(v, {k})
<1>1. \A S : \A h \in Held(v, S, "cascade") :
         \E c \in DOMAIN Refs(h[1]) : Refs(h[1])[c].del = "cascade" /\ Points(v, h, c, S)
  BY DEF Held
<1>2. DOMAIN Refs("users") = {} /\ Refs("provider_connections") = [creator_id |-> Creator]
  BY RefsOfTables
<1>3. \A S : \A h \in Cascade(v, S) : h[1] = "users" => h \in S
  BY <1>1, <1>2 DEF Cascade
<1>4. \A h \in Doomed(v, k) : h[1] = "users" => h = k
  BY <1>3 DEF Doomed
<1>5. ASSUME NEW S, \A h \in S : h[1] = "users" => h = k,
             NEW h \in Cascade(v, S), h[1] = "provider_connections"
      PROVE  h \in S \/ h \in Cascade(v, {k})
  <2>1. CASE h \in Held(v, S, "cascade")
    <3>1. Points(v, h, "creator_id", S) /\ Refs(h[1]) = [creator_id |-> Creator] /\ h \in Keys(v)
      BY <2>1, <1>1, <1>2, <1>5 DEF Held
    <3>2. <<"users", v[h[1]][h[2]].refs["creator_id"]>> = k
      BY <3>1, <1>5 DEF Points, Creator, Ref
    <3>3. Points(v, h, "creator_id", {k})
      BY <3>1, <3>2 DEF Points, Creator, Ref
    <3>4. QED
      BY <3>1, <3>3 DEF Held, Cascade, Creator, Ref
  <2>2. QED
    BY <1>5, <2>1 DEF Cascade
<1>6. p[1] = "provider_connections" => p \in Cascade(v, {k})
  <2> DEFINE A == Cascade(v, {k})
             B == Cascade(v, A)
  <2>1. Doomed(v, k) = Cascade(v, B)
    BY DEF Doomed
  <2>2. /\ \A h \in A : h[1] = "users" => h = k
        /\ \A h \in B : h[1] = "users" => h = k
    BY <1>3
  <2> HIDE DEF A, B
  <2>3. SUFFICES ASSUME p[1] = "provider_connections"
                 PROVE  p \in A
    BY DEF A
  <2>4. p \in B \/ p \in A
    BY <2>1, <2>2, <2>3, <1>5 DEF A
  <2>5. p \in B => p \in A
    BY <2>2, <2>3, <1>5 DEF A, B
  <2>6. QED
    BY <2>4, <2>5
<1>7. QED
  BY <1>4, <1>6

(* Whatever hangs on a doomed user or connection is doomed.                *)
LEMMA DoomedChildren ==
    ASSUME NEW v, NEW k, NEW n \in Keys(v), NEW c \in DOMAIN Refs(n[1]),
           Refs(n[1])[c].del = "cascade", Refs(n[1])[c].to \in {"users", "provider_connections"},
           Points(v, n, c, Doomed(v, k))
    PROVE  n \in Doomed(v, k)
<1> DEFINE A == Cascade(v, {k})
           p == <<Refs(n[1])[c].to, v[n[1]][n[2]].refs[c]>>
<1>1. p \in Doomed(v, k) /\ (p = k \/ p \in A)
  BY DoomedRoots DEF Points
<1>2. k \in A
  BY DEF Cascade
<1>3. Points(v, n, c, A)
  BY <1>1, <1>2 DEF Points
<1> HIDE DEF A
<1>4. n \in Cascade(v, A)
  BY <1>3 DEF Cascade, Held
<1>5. QED
  BY <1>4 DEF Doomed, Cascade, A

\* A foreign key cascades, is emptied or restricts.
LEMMA DeleteKinds ==
    \A t \in Tables : \A c \in DOMAIN Refs(t) : Refs(t)[c].del \in {"cascade", "null", "restrict"}
BY RefsOfTables, TablesAre, SMTT(100) DEF Ref, Creator

\* The keys of what a transaction sees.
LEMMA KeysOfView ==
    ASSUME NEW S, NEW v, ViewOK(S, v)
    PROVE  /\ \A k : k \in Keys(v) <=> \E t \in S : \E i \in DOMAIN v[t] : k = <<t, i>>
           /\ Keys(v) \subseteq S \X Ids
           /\ \A k \in Keys(v) : k[1] \in S /\ k[2] \in DOMAIN v[k[1]] /\ IsRow(k[1], v[k[1]][k[2]])
BY DEF Keys, ViewOK

\* A delete and its cascade remove rows that are there.
LEMMA DoomedAreRows ==
    ASSUME NEW v, NEW k \in Keys(v)
    PROVE  Doomed(v, k) \subseteq Keys(v)
<1>1. \A S : S \subseteq Keys(v) => Cascade(v, S) \subseteq Keys(v)
  BY DEF Cascade, Held
<1>2. QED
  BY <1>1 DEF Doomed

(* A delete that no child forbids leaves rows of their tables: the columns *)
(* it empties are those that may be NULL.                                  *)
LEMMA DeleteOK ==
    ASSUME NEW S \in Scenes, NEW v, ViewOK(S, v), NEW k \in Keys(v), ~Restricted(v, k)
    PROVE  Written(S, Delete(v, k))
<1> DEFINE doomed == Doomed(v, k)
           nulled == Held(v, doomed, "null") \ doomed
           Unlink(n) == LET row == v[n[1]][n[2]]
                        IN [row EXCEPT !.refs = [c \in DOMAIN row.refs |->
                               IF Points(v, n, c, doomed) THEN Null ELSE row.refs[c]]]
<1>1. Delete(v, k) = [n \in doomed \cup nulled |-> IF n \in doomed THEN Gone ELSE Unlink(n)]
  BY DEF Delete
<1>2. doomed \subseteq Keys(v) /\ nulled \subseteq Keys(v)
  BY DoomedAreRows DEF Held
<1>3. Keys(v) \subseteq S \X Ids
  BY KeysOfView
<1>4. S \subseteq Tables
  BY ResourcesAssumption
<1>5. ASSUME NEW n \in nulled
      PROVE  IsRow(n[1], Unlink(n))
  <2> DEFINE row == v[n[1]][n[2]]
  <2>1. n \in Keys(v) /\ n[1] \in Tables /\ IsRow(n[1], row)
    BY <1>2, <1>4, KeysOfView
  <2>2. PICK d \in DOMAIN Refs(n[1]) : Refs(n[1])[d].del = "null"
    BY DEF Held
  <2>3. n[1] \in {"api_keys", "llm_usage"}
    BY <2>1, <2>2, NullColumns
  <2>4. \A c \in DOMAIN Refs(n[1]) : Refs(n[1])[c].del = "cascade" =>
             Refs(n[1])[c].to \in {"users", "provider_connections"}
    BY <2>3, RefsOfTables, SMTT(60) DEF Creator, Ref
  <2>5. ASSUME NEW c \in DOMAIN Refs(n[1]), Points(v, n, c, doomed)
        PROVE  Refs(n[1])[c].del = "null"
    <3>1. Refs(n[1])[c].del # "cascade"
      BY <2>1, <2>4, <2>5, DoomedChildren
    <3>2. Refs(n[1])[c].del # "restrict"
      BY <2>1, <2>5 DEF Restricted, Held
    <3>3. QED
      BY <2>1, <3>1, <3>2, DeleteKinds
  <2>6. /\ DOMAIN Unlink(n) = DOMAIN row /\ Unlink(n).name = row.name /\ Unlink(n).val = row.val
        /\ Unlink(n).refs = [c \in DOMAIN row.refs |->
                               IF Points(v, n, c, doomed) THEN Null ELSE row.refs[c]]
    BY <2>1 DEF IsRow
  <2> HIDE DEF Unlink, row, doomed
  <2>7. QED
    BY <2>1, <2>5, <2>6 DEF IsRow
<1> HIDE DEF Unlink, doomed, nulled
<1>6. QED
  BY <1>1, <1>2, <1>3, <1>5 DEF Written

-----------------------------------------------------------------------------
(* The type invariant.                                                     *)

Statuses == {0, 200, 401, 403, 404, 409, 422, 500}

RequestOK(S, q) ==
    /\ DOMAIN q = Fields
    /\ q.pc \in {"new", "op", "flush", "commit", "done"}
    /\ q.left \in 0..MaxOps /\ (q.pc = "commit" => q.left = 0)
    /\ q.ans \in Statuses
    /\ q.pc \in {"op", "flush"} =>
         /\ q.left # 0 /\ q.caller \in Callers /\ q.caller.user \in Ids
         /\ q.table \in S \cap Managed
    /\ q.pc = "flush" =>
         /\ q.verb \in AllVerbs /\ q.id \in Ids
         /\ q.verb # "delete" => Payload(S, q.table, q.out)
         /\ q.verb = "update" => IsRow(q.table, q.old)
         /\ q.verb = "delete" => q.out = Write(NoRow)
    /\ q.pc # "flush" => q.out = Refuse(0)

InFlight == {"op", "flush", "commit"}
ReaderOK(S, d) ==
    /\ DOMAIN d = DOMAIN NoReader
    /\ d.pc \in {"idle", "paging", "done"} /\ d.cursor \in Nat
    /\ d.got \subseteq Ids /\ d.stable \subseteq Ids
    /\ d.pc = "paging" => d.table \in Paged \cap S

TypeInv ==
    /\ scene \in Scenes /\ ViewOK(scene, db)
    /\ DOMAIN tx = Requests /\ DOMAIN req = Requests
    /\ \A r \in Requests : /\ Written(scene, tx[r]) /\ RequestOK(scene, req[r])
                           /\ req[r].pc \notin InFlight => tx[r] = Nothing
    /\ ReaderOK(scene, reader)

\* A transaction sees rows of their tables.
LEMMA ViewIsOK ==
    ASSUME TypeInv, NEW r \in Requests
    PROVE  ViewOK(scene, View(r))
BY OverlayOK DEF TypeInv, View

\* New ids are ids.
LEMMA FreeIdsOK == \A t : FreeIds(t) \subseteq Ids
BY DEF FreeIds

\* What a request writes next to its row: redirect URIs and keys.
LEMMA AddedOK ==
    ASSUME TypeInv, NEW r \in Requests, req[r].pc = "flush", req[r].verb # "delete"
    PROVE  /\ Written(scene, Added(req[r])) /\ \A k \in DOMAIN Added(req[r]) : k[1] \in Beside
           /\ Written(scene, [n \in req[r].out.drop |-> Gone])
<1> DEFINE q == req[r]
<1>1. Payload(scene, q.table, q.out) /\ q.id \in Ids
  BY DEF TypeInv, RequestOK
<1>2. CASE q.out.add = {} \/ ~HasRoom(q)
  BY <1>1, <1>2, NothingOK DEF Added, Nothing, Payload, Written
<1>3. CASE q.out.add # {} /\ HasRoom(q)
  <2> DEFINE a == CHOOSE a \in q.out.add : TRUE
             k == <<a.table, Min(FreeIds(a.table))>>
  <2>1. Added(q) = One(k, Attach(a, q.id))
    BY <1>3 DEF Added
  <2>2. a \in q.out.add
    BY <1>3
  <2>3. a.table \in scene \cap Beside /\ IsRow(a.table, Attach(a, q.id))
    BY <1>1, <2>2 DEF Payload
  <2>4. FreeIds(a.table) # {}
    BY <1>3, <2>2 DEF HasRoom
  <2>5. FreeIds(a.table) \in SUBSET Nat
    BY FreeIdsOK DEF Ids
  <2>6. Min(FreeIds(a.table)) \in FreeIds(a.table)
    BY <2>4, <2>5, MinIsLeast
  <2>7. k \in scene \X Ids /\ k[1] = a.table
    BY <2>3, <2>6, FreeIdsOK
  <2> HIDE DEF a, k
  <2>8. Written(scene, Added(q)) /\ \A n \in DOMAIN Added(q) : n = k
    <3>1. IsRow(k[1], Attach(a, q.id))
      BY <2>3, <2>7
    <3>2. Written(scene, One(k, Attach(a, q.id)))
      BY <2>7, <3>1, OneOK
    <3>3. DOMAIN One(k, Attach(a, q.id)) = {k}
      BY DEF One
    <3>4. QED
      BY <2>1, <3>2, <3>3
  <2>9. QED
    BY <1>1, <2>3, <2>7, <2>8 DEF Payload, Written
<1>4. QED
  BY <1>2, <1>3

(* What a statement that is not forbidden writes are rows of their tables. *)
LEMMA WritesOK ==
    ASSUME TypeInv, NEW r \in Requests, req[r].pc = "flush",
           req[r].verb = "delete" /\ Writes(r) # Nothing =>
               ~Restricted(View(r), <<req[r].table, req[r].id>>)
    PROVE  Written(scene, Writes(r))
<1> DEFINE q == req[r]
           v == View(r)
           k == <<q.table, q.id>>
           here == q.id \in DOMAIN v[q.table]
           extra == Over(Added(q), [n \in q.out.drop |-> Gone])
<1>1. /\ RequestOK(scene, q) /\ ViewOK(scene, v) /\ scene \in Scenes
      /\ q.table \in scene /\ q.id \in Ids /\ k \in scene \X Ids
  BY ViewIsOK DEF TypeInv, RequestOK
<1>2. CASE q.verb = "create"
  <2>1. Writes(r) = Over(One(k, q.out.row), extra)
    BY <1>2 DEF Writes
  <2>2. Written(scene, extra)
    BY <1>2, AddedOK, OverOK
  <2>3. IsRow(q.table, q.out.row)
    BY <1>1, <1>2 DEF RequestOK, Payload
  <2>4. Written(scene, One(k, q.out.row))
    BY <1>1, <2>3, OneOK
  <2>5. QED
    BY <2>1, <2>2, <2>4, OverOK
<1>3. CASE q.verb = "update" /\ here
  <2> DEFINE new == Merge(q.old, q.out, v[q.table][q.id])
  <2>1. Writes(r) = Over(One(k, new), extra)
    BY <1>3 DEF Writes
  <2>2. Written(scene, extra)
    BY <1>3, AddedOK, OverOK
  <2>3. IsRow(q.table, new)
    BY <1>1, <1>3, MergeOK DEF RequestOK, Payload, ViewOK
  <2>4. Written(scene, One(k, new))
    BY <1>1, <2>3, OneOK
  <2>5. QED
    BY <2>1, <2>2, <2>4, OverOK
<1>4. CASE q.verb = "delete" /\ here
  <2>1. Writes(r) = Delete(v, k)
    BY <1>4 DEF Writes
  <2>2. k \in Keys(v)
    BY <1>1, <1>4, KeysOfView
  <2>3. CASE Writes(r) = Nothing
    BY <2>3, NothingOK
  <2>4. CASE Writes(r) # Nothing
    BY <1>1, <1>4, <2>1, <2>2, <2>4, DeleteOK
  <2>5. QED
    BY <2>3, <2>4
<1>5. CASE ~(q.verb = "create") /\ ~(q.verb = "update" /\ here) /\ ~(q.verb = "delete" /\ here)
  BY <1>5, NothingOK DEF Writes
<1>6. QED
  BY <1>2, <1>3, <1>4, <1>5

\* The seeded tables are well typed, and no request has begun.
LEMMA TypeInit ==
    ASSUME Init
    PROVE  TypeInv
<1> USE EntitiesAssumption, ResourcesAssumption
<1>1. PICK n \in 0..Seeded :
          db = [t \in scene |-> [i \in 1..(IF t \in Managed \/ n = 0 THEN n ELSE 1) |-> SeedRow(t, i)]]
  BY DEF Init, Seeds
<1>2. ASSUME NEW t \in scene
      PROVE  /\ DOMAIN db[t] \subseteq Ids
             /\ \A i \in DOMAIN db[t] : IsRow(t, db[t][i])
  <2>1. DOMAIN db[t] = 1..(IF t \in Managed \/ n = 0 THEN n ELSE 1)
    BY <1>1, <1>2
  <2>2. DOMAIN db[t] \subseteq Ids
    BY <2>1 DEF Ids
  <2>3. ASSUME NEW i \in DOMAIN db[t]
        PROVE  IsRow(t, db[t][i])
    <3>1. db[t][i] = SeedRow(t, i) /\ i \in Ids
      BY <1>1, <1>2, <2>1, <2>2, <2>3
    <3>2. QED
      BY <3>1 DEF SeedRow, IsRow
  <2>4. QED
    BY <2>2, <2>3
<1>3. ViewOK(scene, db)
  BY <1>1, <1>2 DEF ViewOK
<1>4. RequestOK(scene, New)
  BY DEF RequestOK, New, Fields, Statuses
<1>5. ReaderOK(scene, NoReader)
  BY DEF ReaderOK, NoReader
<1>6. New.pc \notin InFlight
  BY DEF New, InFlight
<1>7. QED
  BY <1>3, <1>4, <1>5, <1>6, NothingOK DEF Init, TypeInv

(* A request that goes on in memory, and one that ends.                    *)
LEMMA GoesOn ==
    ASSUME TypeInv, NEW r \in Requests, NEW q, Next1(r, q), RequestOK(scene, q),
           req[r].pc \in InFlight => q.pc \in InFlight
    PROVE  TypeInv'
<1>1. /\ DOMAIN req' = Requests /\ req'[r] = q
      /\ \A s \in Requests : s # r => req'[s] = req[s]
      /\ UNCHANGED <<scene, db, tx, reader>>
  BY DEF Next1, TypeInv
<1>2. QED
  BY <1>1 DEF TypeInv

\* An answered request holds nothing.
LEMMA AnsweredOK ==
    ASSUME NEW S, NEW q, NEW status \in Statuses
    PROVE  RequestOK(S, Answered(q, status)) /\ Answered(q, status).pc = "done"
BY ResourcesAssumption DEF RequestOK, Answered, New, Fields

\* A request that ends keeps the types.
LEMMA Ends ==
    ASSUME TypeInv, NEW r \in Requests, NEW status \in Statuses, End(r, status)
    PROVE  TypeInv'
<1>1. /\ DOMAIN req' = Requests /\ req'[r] = Answered(req[r], status)
      /\ DOMAIN tx' = Requests /\ tx'[r] = Nothing
      /\ \A s \in Requests : s # r => req'[s] = req[s] /\ tx'[s] = tx[s]
      /\ UNCHANGED <<scene, db, reader>>
  BY DEF End, TypeInv
<1>2. QED
  BY <1>1, AnsweredOK, NothingOK DEF TypeInv, InFlight

(* The statuses that the routes know, and the operations they offer.       *)
LEMMA AnonymousOK ==
    ASSUME NEW t \in Managed
    PROVE  ReadRoutes[t].anonymous \in Statuses \ {500}
BY ManagedAre, SMTT(60)
     DEF Statuses, ReadRoutes, Routes, UserRoutes, RoleRoutes, UserRoleRoutes, ApiKeyRoutes,
         OAuthClientRoutes, OriginRoutes, FlagRoutes, FlagRoleRoutes, FlagUserRoutes,
         GroupRoutes, GroupUserRoutes, SecretProviderRoutes, StaticSecretRoutes,
         OAuthProviderRoutes, MCPServerConfigRoutes, ConnectionRoutes, LlmRoutes, TemplateRoutes,
         ConfigRoutes, ConversationRoutes

\* The statuses of the errors of each route.
LEMMA ErrorsOK ==
    ASSUME NEW t \in Managed
    PROVE  /\ WriteErrors[t].scope \in Statuses \ {500} /\ WriteErrors[t].unique \in Statuses
           /\ WriteErrors[t].fk \in Statuses /\ WriteErrors[t].restrict \in Statuses
           /\ WriteErrors[t].missing \in Statuses \ {500}
BY ManagedAre, SMTT(60)
     DEF Statuses, WriteErrors, Errors, UserErrors, RoleErrors, UserRoleErrors, ApiKeyErrors,
         OAuthClientErrors, OriginErrors, FlagErrors, FlagRoleErrors, FlagUserErrors,
         GroupErrors, GroupUserErrors, SecretProviderErrors, StaticSecretErrors,
         OAuthProviderErrors, MCPServerConfigErrors, ConnectionErrors, LlmErrors, TemplateErrors,
         ConfigErrors, ConversationErrors

\* The statuses of the refusals that the models of the resources make.
LEMMA RefusalsOK ==
    /\ \A status : Refuse(status).refuse = status
    /\ \A row : Write(row).refuse = 0
    /\ \A refs, name : Insert(refs, name).refuse = 0
    /\ \A row, s : [Write(row) EXCEPT !.rewrites = s].refuse = 0
    /\ \A refs, name, s : [Insert(refs, name) EXCEPT !.add = s].refuse = 0
    /\ \A row, s, d : [Write(row) EXCEPT !.add = s, !.drop = d].refuse = 0
    /\ {0, 403, 404, 422} \subseteq Statuses \ {500}
BY DEF Refuse, Write, Insert, Statuses

\* What a create is refused with.
LEMMA CreateStatuses ==
    ASSUME NEW t \in Managed, NEW c, NEW v, NEW o \in Creates(t, c, v)
    PROVE  o.refuse \in Statuses \ {500}
<1>1. CASE t = "users"
  BY <1>1, RefusalsOK DEF Creates, UserCreate
<1>2. CASE t = "roles"
  BY <1>2, RefusalsOK DEF Creates, RoleCreate
<1>3. CASE t = "user_roles"
  <2>1. PICK p \in Targets(v, "roles") \X Targets(v, "users") :
               o = Insert([role_id |-> p[1], user_id |-> p[2]], 0)
    BY <1>3 DEF Creates, UserRoleCreate
  <2>2. QED
    BY <2>1, RefusalsOK
<1>4. CASE t = "api_keys"
  <2>1. PICK j \in Targets(v, "roles") \cup {Null} :
               o = Insert([creator_id |-> c.user, role_id |-> j], 0)
    BY <1>4 DEF Creates, ApiKeyCreate
  <2>2. QED
    BY <2>1, RefusalsOK
<1>5. CASE t = "oauth_clients"
  <2>1. PICK n \in Names, m \in Names :
               o = [Insert(<<>>, n) EXCEPT !.add = {Uri(Null, m)}]
    BY <1>5 DEF Creates, OAuthClientCreate
  <2>2. QED
    BY <2>1, RefusalsOK
<1>6. CASE t = "allowed_origins"
  BY <1>6, RefusalsOK DEF Creates, OriginCreate
<1>7. CASE t = "feature_flags"
  BY <1>7, RefusalsOK DEF Creates, FlagCreate
<1>8. CASE t = "feature_flag_role_assignments"
  <2>1. PICK p \in Targets(v, "feature_flags") \X Targets(v, "roles") :
               o = Override(c, v, "roles", p[1], p[2], [feature_flag_id |-> p[1], role_id |-> p[2]])
    BY <1>8 DEF Creates, FlagRoleCreate
  <2>2. o \in {Refuse(403), Refuse(404), Insert([feature_flag_id |-> p[1], role_id |-> p[2]], 0)}
    BY <2>1 DEF Override
  <2>3. QED
    BY <2>2, RefusalsOK
<1>9. CASE t = "feature_flag_user_assignments"
  <2>1. PICK p \in Targets(v, "feature_flags") \X Targets(v, "users") :
               o = Override(c, v, "users", p[1], p[2], [feature_flag_id |-> p[1], user_id |-> p[2]])
    BY <1>9 DEF Creates, FlagUserCreate
  <2>2. o \in {Refuse(403), Refuse(404), Insert([feature_flag_id |-> p[1], user_id |-> p[2]], 0)}
    BY <2>1 DEF Override
  <2>3. QED
    BY <2>2, RefusalsOK
<1>10. CASE t = "groups"
  BY <1>10, RefusalsOK DEF Creates, GroupCreate
<1>11. CASE t = "group_users"
  <2>1. PICK p \in Targets(v, "groups") \X Targets(v, "users") :
               o = Insert([creator_id |-> c.user, group_id |-> p[1], user_id |-> p[2]], 0)
    BY <1>11 DEF Creates, GroupUserCreate
  <2>2. QED
    BY <2>1, RefusalsOK
<1>12. CASE t = "secret_providers"
  BY <1>12, RefusalsOK DEF Creates, SecretProviderCreate
<1>13. CASE t = "static_secrets"
  BY <1>13, RefusalsOK DEF Creates, StaticSecretCreate
<1>14. CASE t = "oauth_providers"
  BY <1>14, RefusalsOK DEF Creates, OAuthProviderCreate
<1>15. CASE t = "mcp_server_configs"
  BY <1>15, RefusalsOK DEF Creates, MCPServerConfigCreate
<1>16. CASE t = "provider_connections"
  BY <1>16, RefusalsOK DEF Creates, ConnectionCreate
<1>17. CASE t = "llms"
  <2>1. CASE o = Refuse(422)
    BY <2>1, RefusalsOK
  <2>2. CASE o # Refuse(422)
    <3>1. PICK j \in Targets(v, "provider_connections") :
                 o = IF OwnConnection(v, j, c.user)
                     THEN Insert([creator_id |-> c.user, provider_connection_id |-> j], 0) ELSE Refuse(403)
      BY <1>17, <2>2 DEF Creates, LlmCreate
    <3>2. QED
      BY <3>1, RefusalsOK
  <2>3. QED
    BY <2>1, <2>2
<1>18. CASE t = "sandbox_templates"
  BY <1>18, RefusalsOK DEF Creates, TemplateCreate
<1>19. CASE t = "sandbox_configs"
  <2>1. PICK j \in Targets(v, "sandbox_templates") :
               \/ o = Refuse(404)
               \/ o = [Insert([creator_id |-> c.user, sandbox_template_id |-> j], 0)
                         EXCEPT !.add = IF "api_keys" \in DOMAIN v THEN {SystemKey(c.user)} ELSE {}]
    BY <1>19 DEF Creates, ConfigCreate
  <2>2. CASE o = Refuse(404)
    BY <2>2, RefusalsOK
  <2>3. CASE o # Refuse(404)
    BY <2>1, <2>3 DEF Insert, Write, Statuses
  <2>4. QED
    BY <2>2, <2>3
<1>20. CASE t = "conversation_records"
  <2>1. PICK j \in Targets(v, "sandbox_configs") :
               o = Insert([sandbox_config_id |-> j], 0)
    BY <1>20 DEF Creates, ConversationCreate
  <2>2. QED
    BY <2>1, RefusalsOK
<1>21. QED
  BY ManagedAre, <1>1, <1>2, <1>3, <1>4, <1>5, <1>6, <1>7, <1>8, <1>9, <1>10, <1>11, <1>12, <1>13, <1>14,
     <1>15, <1>16, <1>17, <1>18, <1>19, <1>20

\* What an update is refused with.
LEMMA PatchStatuses ==
    ASSUME NEW t \in Managed, "update" \in Verbs[t], NEW c, NEW v, NEW i, NEW o \in Patches(t, c, v, i)
    PROVE  o.refuse \in Statuses \ {500}
<1>0. t \notin {"user_roles", "allowed_origins", "feature_flag_role_assignments",
                "feature_flag_user_assignments", "group_users"}
  BY DEF Verbs, LinkVerbs, UserRoleVerbs, OriginVerbs, FlagRoleVerbs, FlagUserVerbs, GroupUserVerbs
<1>1. CASE t = "users"
  BY <1>1, RefusalsOK DEF Patches, UserPatch
<1>2. CASE t = "roles"
  BY <1>2, RefusalsOK DEF Patches, RolePatch
<1>3. CASE t = "api_keys"
  <2>1. PICK row :
               o = Write(row)
    BY <1>3 DEF Patches, ApiKeyPatch
  <2>2. QED
    BY <2>1, RefusalsOK
<1>4. CASE t = "oauth_clients"
  <2> DEFINE row == v[t][i]
  <2>1. CASE o = Write(NewVal(row))
    BY <2>1, RefusalsOK
  <2>2. CASE o # Write(NewVal(row))
    <3>1. PICK n \in Names :
                 o = [Write(row) EXCEPT !.add = ReplaceRedirectUris(v, i, n).add,
                                        !.drop = ReplaceRedirectUris(v, i, n).drop]
      BY <1>4, <2>2 DEF Patches, OAuthClientPatch
    <3>2. QED
      BY <3>1 DEF Write, Statuses
  <2>3. QED
    BY <2>1, <2>2
<1>5. CASE t = "feature_flags"
  BY <1>5, RefusalsOK DEF Patches, FlagPatch
<1>6. CASE t = "groups"
  BY <1>6, RefusalsOK DEF Patches, GroupPatch
<1>7. CASE t = "secret_providers"
  BY <1>7, RefusalsOK DEF Patches, SecretProviderPatch
<1>8. CASE t = "static_secrets"
  BY <1>8, RefusalsOK DEF Patches, StaticSecretPatch
<1>9. CASE t = "oauth_providers"
  BY <1>9, RefusalsOK DEF Patches, OAuthProviderPatch
<1>10. CASE t = "mcp_server_configs"
  <2>1. PICK row :
               o = Refuse(422) \/ o = [Write(row) EXCEPT !.rewrites = {"val"}]
    BY <1>10 DEF Patches, MCPServerConfigPatch
  <2>2. QED
    BY <2>1 DEF Refuse, Write, Statuses
<1>11. CASE t = "provider_connections"
  BY <1>11, RefusalsOK DEF Patches, ConnectionPatch
<1>12. CASE t = "llms"
  <2>1. CASE o = Refuse(422)
    BY <2>1, RefusalsOK
  <2>2. CASE o = Refuse(403)
    BY <2>2, RefusalsOK
  <2>3. CASE o # Refuse(422) /\ o # Refuse(403)
    <3>1. \/ o = Write(NewVal(v[t][i]))
          \/ \E j \in Targets(v, "provider_connections") :
               o = Write([v[t][i] EXCEPT !.refs.provider_connection_id = j])
      BY <1>12, <2>3 DEF Patches, LlmPatch
    <3>2. QED
      BY <3>1 DEF Write, Statuses
  <2>4. QED
    BY <2>1, <2>2, <2>3
<1>13. CASE t = "sandbox_templates"
  BY <1>13, RefusalsOK DEF Patches, TemplatePatch
<1>14. CASE t = "sandbox_configs"
  BY <1>14, RefusalsOK DEF Patches, ConfigPatch
<1>15. CASE t = "conversation_records"
  BY <1>15, RefusalsOK DEF Patches, ConversationPatch
<1>16. QED
  BY ManagedAre, <1>0, <1>1, <1>2, <1>3, <1>4, <1>5, <1>6, <1>7, <1>8, <1>9, <1>10, <1>11, <1>12, <1>13,
     <1>14, <1>15

-----------------------------------------------------------------------------
(* The page of a search: the first rows after the cursor, in order.        *)

\* The ids of a run are finitely many.
LEMMA IdsAreFinite ==
    ASSUME NEW S \in SUBSET Ids
    PROVE  IsFiniteSet(S) /\ Cardinality(S) \in Nat
<1>1. IsFiniteSet(Ids)
  BY FS_Interval, EntitiesAssumption DEF Ids
<1>2. QED
  BY <1>1, FS_Subset, FS_CardinalityType

\* The first n rows are rows, downward closed, and all of them when fewer than n.
LEMMA PageOf ==
    ASSUME NEW S \in SUBSET Ids, NEW n \in Nat \ {0}
    PROVE  /\ FirstOf(S, n) \subseteq S
           /\ S # {} => FirstOf(S, n) # {}
           /\ \A i \in FirstOf(S, n) : \A j \in S : j < i => j \in FirstOf(S, n)
           /\ Cardinality(FirstOf(S, n)) # n => FirstOf(S, n) = S
<1> DEFINE Before(i) == {j \in S : j < i}
           P == FirstOf(S, n)
<1>1. P = {i \in S : Cardinality(Before(i)) < n}
  BY DEF FirstOf
<1>2. \A j \in S : j \in Nat
  BY DEF Ids
<1>20. S \in SUBSET Nat
  BY <1>2
<1>3. ASSUME NEW i \in S
      PROVE  IsFiniteSet(Before(i)) /\ Cardinality(Before(i)) \in Nat
  <2>1. Before(i) \in SUBSET Ids
    OBVIOUS
  <2> HIDE DEF Before
  <2>2. QED
    BY <2>1, IdsAreFinite
<1> HIDE DEF P
<1>4. P \subseteq S /\ P \in SUBSET Ids
  BY <1>1
<1>5. ASSUME S # {}
      PROVE  P # {}
  <2>1. Min(S) \in S /\ \A x \in S : Min(S) <= x
    BY <1>20, <1>5, MinIsLeast
  <2> DEFINE m == Min(S)
  <2> HIDE DEF m
  <2>2. m \in S /\ \A x \in S : m <= x
    BY <2>1 DEF m
  <2>3. Before(m) = {}
    BY <1>2, <2>2
  <2>4. Cardinality(Before(m)) = 0
    BY <2>3, FS_EmptySet
  <2>5. QED
    BY <1>1, <2>2, <2>4
<1>6. ASSUME NEW i \in P, NEW j \in S, j < i
      PROVE  j \in P
  <2>1. i \in S /\ i \in Nat /\ j \in Nat /\ Cardinality(Before(i)) < n
    BY <1>1, <1>2
  <2>2. Before(j) \subseteq Before(i)
    <3>1. \A k \in S : k < j => k < i
      BY <1>2, <1>6, <2>1
    <3>2. QED
      BY <3>1
  <2>3. Cardinality(Before(j)) <= Cardinality(Before(i))
    BY <1>3, <2>1, <2>2, FS_Subset
  <2>4. Cardinality(Before(j)) < n
    BY <1>3, <2>1, <2>3
  <2>5. QED
    BY <1>1, <2>4
<1>7. IsFiniteSet(P) /\ Cardinality(P) \in Nat
  BY <1>4, IdsAreFinite
<1>8. Cardinality(P) <= n
  <2>1. CASE P = {}
    BY <2>1, FS_EmptySet
  <2>2. CASE P # {}
    <3>1. P \in SUBSET (0..MaxId) /\ MaxId \in Nat
      BY <1>4, EntitiesAssumption DEF Ids
    <3>2. Max(P) \in P /\ \A x \in P : x <= Max(P)
      BY <2>2, <3>1, MaxIsGreatest
    <3> DEFINE m == Max(P)
    <3>3. m \in S /\ m \in Nat /\ P \subseteq Nat /\ Cardinality(Before(m)) < n
      BY <1>1, <1>2, <1>4, <3>2
    <3> HIDE DEF m
    <3>4. P \subseteq Before(m) \cup {m}
      BY <1>4, <3>2, <3>3 DEF m
    <3>5. m \notin Before(m)
      BY <3>3
    <3>6. /\ IsFiniteSet(Before(m) \cup {m})
          /\ Cardinality(Before(m) \cup {m}) = Cardinality(Before(m)) + 1
      BY <1>3, <3>3, <3>5, FS_AddElement
    <3>7. Cardinality(P) <= Cardinality(Before(m)) + 1
      BY <3>4, <3>6, FS_Subset
    <3>8. QED
      BY <1>3, <1>7, <3>3, <3>7
  <2>3. QED
    BY <2>1, <2>2
<1>9. ASSUME P # S
      PROVE  Cardinality(P) = n
  <2> DEFINE R == S \ P
             m == Min(R)
  <2>1. R \in SUBSET Nat /\ R # {}
    BY <1>20, <1>4, <1>9
  <2>2. m \in R /\ \A x \in R : m <= x
    BY <2>1, MinIsLeast
  <2> HIDE DEF m
  <2>3. Before(m) \subseteq P
    <3>1. \A x \in S : x < m => x \notin R
      BY <1>2, <2>2
    <3>2. QED
      BY <3>1
  <2>4. ~(Cardinality(Before(m)) < n)
    BY <1>1, <2>2
  <2>5. Cardinality(Before(m)) <= Cardinality(P)
    BY <1>7, <2>3, FS_Subset
  <2>6. Cardinality(Before(m)) \in Nat
    BY <1>3, <2>2
  <2>7. QED
    BY <1>7, <1>8, <2>4, <2>5, <2>6
<1>10. QED
  BY <1>4, <1>5, <1>6, <1>9 DEF P

(* The cursor names the last row of the page; without one nothing is left. *)
LEMMA CursorOf ==
    ASSUME NEW S \in SUBSET Ids, NEW t
    PROVE  LET page == FirstOf(S, PageSize)
               next == NextCursor(t, S)
           IN /\ next \in Nat
              /\ next = Null => page = S
              /\ next # Null => next \in page /\ \A i \in S : i <= next <=> i \in page
<1> DEFINE page == FirstOf(S, PageSize)
           next == NextCursor(t, S)
           more == IF t = "allowed_origins" THEN S # page ELSE Cardinality(page) = PageSize
<1>1. PageSize \in Nat \ {0} /\ MaxId \in Nat
  BY ResourcesAssumption, EntitiesAssumption
<1>2. /\ page \subseteq S /\ (S # {} => page # {})
      /\ \A i \in page : \A j \in S : j < i => j \in page
      /\ Cardinality(page) # PageSize => page = S
  BY <1>1, PageOf
<1>3. next = IF more THEN Max(page) ELSE Null
  BY DEF NextCursor
<1> HIDE DEF page
<1>4. CASE more
  <2>1. page # {}
    <3>1. Cardinality({}) = 0
      BY FS_EmptySet
    <3>2. QED
      BY <1>1, <1>2, <1>4, <3>1
  <2>2. page \in SUBSET (0..MaxId) /\ page \subseteq Ids /\ S \subseteq Nat
    BY <1>2 DEF Ids
  <2>3. Max(page) \in page /\ \A x \in page : x <= Max(page)
    BY <1>1, <2>1, <2>2, MaxIsGreatest
  <2> DEFINE m == Max(page)
  <2> HIDE DEF m
  <2>4. m \in page /\ (\A x \in page : x <= m) /\ m \in Nat /\ m # Null
    <3>1. m \in page /\ (\A x \in page : x <= m) /\ m \in Ids
      BY <2>2, <2>3 DEF m
    <3>2. QED
      BY <3>1 DEF Ids, Null
  <2>5. \A i \in S : i \in Nat
    BY <2>2
  <2>6. \A i \in S : i <= m <=> i \in page
    BY <1>2, <2>4, <2>5
  <2>7. QED
    BY <1>3, <1>4, <2>4, <2>6 DEF page, m
<1>5. CASE ~more
  <2>1. next = Null /\ page = S
    BY <1>2, <1>3, <1>5
  <2>2. QED
    BY <2>1 DEF page, Null
<1>6. QED
  BY <1>4, <1>5

-----------------------------------------------------------------------------
(* Every step keeps the types.                                             *)

\* A request comes in.
LEMMA ReceiveTypes ==
    ASSUME TypeInv, NEW r \in Requests, NEW c \in Callers, NEW t \in scene \cap Managed,
           NEW n \in 1..MaxOps, Receive(r, c, t, n)
    PROVE  TypeInv'
<1> DEFINE others == {s \in Requests \ {r} : InProgress(s)}
           q == [New EXCEPT !.pc = "op", !.caller = c, !.table = t, !.left = n,
                            !.alone = (others = {})]
<1>1. /\ req[r].pc = "new" /\ c.user \in Ids
      /\ UNCHANGED <<scene, db, tx, reader>>
      /\ req' = [s \in Requests |-> IF s = r THEN q
                                    ELSE IF s \in others THEN [req[s] EXCEPT !.alone = FALSE]
                                    ELSE req[s]]
  BY ScenesAssumption, Zenon DEF Receive, MaySend
<1>2. RequestOK(scene, q) /\ q.pc \in InFlight
  <2>1. /\ DOMAIN q = Fields /\ q.pc = "op" /\ q.caller = c /\ q.table = t /\ q.left = n
        /\ q.ans = 0 /\ q.out = Refuse(0)
    BY DEF New, Fields
  <2>2. n \in 0..MaxOps /\ n # 0
    BY ResourcesAssumption
  <2> HIDE DEF q
  <2>3. QED
    BY <1>1, <2>1, <2>2 DEF RequestOK, Statuses, InFlight
<1>3. tx[r] = Nothing
  BY <1>1 DEF TypeInv, InFlight
<1> HIDE DEF q, others
<1>4. ASSUME NEW s \in Requests, s # r
      PROVE  RequestOK(scene, req'[s]) /\ req'[s].pc = req[s].pc
  <2>1. req'[s] = req[s] \/ req'[s] = [req[s] EXCEPT !.alone = FALSE]
    BY <1>1, <1>4
  <2>2. RequestOK(scene, req[s])
    BY DEF TypeInv
  <2>3. RequestOK(scene, [req[s] EXCEPT !.alone = FALSE]) /\ [req[s] EXCEPT !.alone = FALSE].pc = req[s].pc
    BY <2>2 DEF RequestOK, Fields
  <2>4. QED
    BY <2>1, <2>2, <2>3
<1>5. req'[r] = q /\ DOMAIN req' = Requests
  BY <1>1
<1>6. QED
  BY <1>1, <1>2, <1>3, <1>4, <1>5 DEF TypeInv

\* It is turned away for want of a caller.
LEMMA AnonymousTypes ==
    ASSUME TypeInv, NEW r \in Requests, NEW t \in scene \cap Managed, Anonymous(r, t)
    PROVE  TypeInv'
<1>1. PICK status \in {403, ReadRoutes[t].anonymous} :
             Next1(r, Answered([New EXCEPT !.table = t], status))
  BY DEF Anonymous
<1>2. status \in Statuses
  BY AnonymousOK DEF Statuses
<1>3. req[r].pc \notin InFlight
  BY DEF Anonymous, InFlight
<1>4. QED
  BY <1>1, <1>2, <1>3, AnsweredOK, GoesOn

\* It is a read, which answers at once.
LEMMA ReadTypes ==
    ASSUME TypeInv, NEW r \in Requests, NEW c \in Callers, NEW t \in scene \cap Managed, Read(r, c, t)
    PROVE  TypeInv'
<1>1. PICK status \in {403, 404, 200} : Next1(r, Answered([New EXCEPT !.table = t], status))
  <2>1. PICK route \in DOMAIN ReadRoutes[t] \ {"anonymous"}, i \in Ids :
          LET action == ReadRoutes[t][route]
              status == CASE Scope(c, t, action) = "none" -> 403
                          [] route = "get" /\ i \notin Rows(t, c, action, View(r)) -> 404
                          [] OTHER -> 200
          IN Next1(r, Answered([New EXCEPT !.table = t], status))
    BY Zenon DEF Read
  <2> DEFINE action == ReadRoutes[t][route]
             status == CASE Scope(c, t, action) = "none" -> 403
                         [] route = "get" /\ i \notin Rows(t, c, action, View(r)) -> 404
                         [] OTHER -> 200
  <2>2. status \in {403, 404, 200}
    OBVIOUS
  <2>3. Next1(r, Answered([New EXCEPT !.table = t], status))
    BY <2>1
  <2> HIDE DEF status
  <2>4. QED
    BY <2>2, <2>3
<1>2. status \in Statuses
  BY DEF Statuses
<1>3. req[r].pc \notin InFlight
  BY DEF Read, InFlight
<1>4. QED
  BY <1>1, <1>2, <1>3, AnsweredOK, GoesOn

\* It checks what it inserts.
LEMMA CreateTypes ==
    ASSUME TypeInv, NEW r \in Requests, Create(r)
    PROVE  TypeInv'
<1> DEFINE q == [req[r] EXCEPT !.verb = "create"]
           t == q.table
           c == q.caller
<1>1. /\ req[r].pc = "op" /\ RequestOK(scene, req[r]) /\ ViewOK(scene, View(r)) /\ scene \in Scenes
  BY ViewIsOK DEF Create, TypeInv
<1>2. /\ req[r].left # 0 /\ c \in Callers /\ c.user \in Ids /\ t \in scene \cap Managed
      /\ q.caller = req[r].caller /\ q.table = req[r].table
  BY <1>1 DEF RequestOK, Fields
<1>3. CASE End(r, 403)
  BY <1>3, Ends DEF Statuses
<1>4. ASSUME NEW o \in Creates(t, c, View(r)), End(r, o.refuse)
      PROVE  TypeInv'
  <2>1. o.refuse \in Statuses
    BY <1>2, <1>4, CreateStatuses
  <2>2. QED
    BY <1>4, <2>1, Ends
<1>5. CASE End(r, WriteErrors[t].scope)
  BY <1>2, <1>5, ErrorsOK, Ends
<1>6. ASSUME NEW o \in Creates(t, c, View(r)), o.refuse = 0, NEW i \in FreeIds(t),
             Next1(r, [q EXCEPT !.pc = "flush", !.id = i, !.old = NoRow, !.out = o])
      PROVE  TypeInv'
  <2> DEFINE new == [q EXCEPT !.pc = "flush", !.id = i, !.old = NoRow, !.out = o]
  <2>1. Payload(scene, t, o) /\ i \in Ids
    BY <1>1, <1>2, <1>6, CreatesOK, FreeIdsOK
  <2>2. /\ DOMAIN new = Fields /\ new.pc = "flush" /\ new.verb = "create" /\ new.id = i /\ new.out = o
        /\ new.table = t /\ new.caller = c /\ new.left = req[r].left /\ new.ans = req[r].ans
    BY <1>1 DEF RequestOK, Fields
  <2> HIDE DEF new, q
  <2>3. RequestOK(scene, new)
    BY <1>1, <1>2, <2>1, <2>2 DEF RequestOK, AllVerbs
  <2>4. QED
    BY <1>6, <2>2, <2>3, GoesOn DEF new, InFlight
<1>7. \/ End(r, 403)
      \/ \E o \in Creates(t, c, View(r)) :
           \/ End(r, o.refuse)
           \/ End(r, WriteErrors[t].scope)
           \/ o.refuse = 0 /\ \E i \in FreeIds(t) :
                Next1(r, [q EXCEPT !.pc = "flush", !.id = i, !.old = NoRow, !.out = o])
  BY Zenon DEF Create
<1>8. QED
  BY <1>3, <1>4, <1>5, <1>6, <1>7

\* It selects the row that it updates or deletes.
LEMMA SelectTypes ==
    ASSUME TypeInv, NEW r \in Requests, NEW verb \in {"update", "delete"}, Select(r, verb)
    PROVE  TypeInv'
<1> DEFINE q == [req[r] EXCEPT !.verb = verb]
           t == q.table
           c == q.caller
           v == View(r)
           action == ActionOf[verb]
           Ready(i) == [q EXCEPT !.pc = "flush", !.id = i, !.old = v[t][i]]
           Asked(i, o) == [Ready(i) EXCEPT !.out = o, !.asked = @ \cup ({i} \X Changes(v[t][i], o))]
<1>1. /\ req[r].pc = "op" /\ RequestOK(scene, req[r]) /\ ViewOK(scene, v) /\ scene \in Scenes
      /\ verb \in Verbs[t]
  BY ViewIsOK DEF Select, TypeInv
<1>2. /\ req[r].left # 0 /\ c \in Callers /\ c.user \in Ids /\ t \in scene \cap Managed
      /\ q.caller = req[r].caller /\ q.table = req[r].table
  BY <1>1 DEF RequestOK, Fields
<1>3. CASE End(r, 403)
  BY <1>3, Ends DEF Statuses
<1>4. CASE End(r, WriteErrors[t].missing)
  BY <1>2, <1>4, ErrorsOK, Ends
<1>5. ASSUME NEW i \in Ids, i \in Rows(t, c, action, v)
      PROVE  i \in DOMAIN v[t] /\ IsRow(t, v[t][i])
  <2>1. i \in DOMAIN v[t]
    BY <1>2, <1>5, RowsInTable
  <2>2. QED
    BY <1>1, <1>2, <2>1 DEF ViewOK
<1>6. ASSUME verb = "delete", NEW i \in Ids, i \in Rows(t, c, action, v),
             Next1(r, [Ready(i) EXCEPT !.out = Write(NoRow)])
      PROVE  TypeInv'
  <2> DEFINE new == [Ready(i) EXCEPT !.out = Write(NoRow)]
  <2>1. /\ DOMAIN new = Fields /\ new.pc = "flush" /\ new.verb = "delete" /\ new.id = i
        /\ new.out = Write(NoRow) /\ new.table = t /\ new.caller = c /\ new.left = req[r].left
        /\ new.ans = req[r].ans
    BY <1>1, <1>6 DEF RequestOK, Fields
  <2> HIDE DEF new, q
  <2>2. RequestOK(scene, new)
    BY <1>1, <1>2, <2>1 DEF RequestOK, AllVerbs
  <2>3. QED
    BY <1>6, <2>1, <2>2, GoesOn DEF new, InFlight
<1>7. ASSUME verb = "update", NEW i \in Ids, i \in Rows(t, c, action, v),
             NEW o \in Patches(t, c, v, i), End(r, o.refuse)
      PROVE  TypeInv'
  <2>1. o.refuse \in Statuses
    BY <1>1, <1>2, <1>7, PatchStatuses
  <2>2. QED
    BY <1>7, <2>1, Ends
<1>8. ASSUME verb = "update", NEW i \in Ids, i \in Rows(t, c, action, v),
             NEW o \in Patches(t, c, v, i), o.refuse = 0, Next1(r, Asked(i, o))
      PROVE  TypeInv'
  <2> DEFINE new == Asked(i, o)
  <2>1. Payload(scene, t, o) /\ IsRow(t, v[t][i])
    BY <1>1, <1>2, <1>5, <1>8, PatchesOK
  <2>2. /\ DOMAIN new = Fields /\ new.pc = "flush" /\ new.verb = "update" /\ new.id = i
        /\ new.out = o /\ new.old = v[t][i] /\ new.table = t /\ new.caller = c
        /\ new.left = req[r].left /\ new.ans = req[r].ans
    BY <1>1, <1>8 DEF RequestOK, Fields
  <2> HIDE DEF new, q
  <2>3. RequestOK(scene, new)
    BY <1>1, <1>2, <2>1, <2>2 DEF RequestOK, AllVerbs
  <2>4. QED
    BY <1>8, <2>2, <2>3, GoesOn DEF new, InFlight
<1>9. \/ End(r, 403)
      \/ End(r, WriteErrors[t].missing)
      \/ \E i \in Ids : i \in Rows(t, c, action, v) /\
           \/ verb = "delete" /\ Next1(r, [Ready(i) EXCEPT !.out = Write(NoRow)])
           \/ verb # "delete" /\ \E o \in Patches(t, c, v, i) :
                \/ End(r, o.refuse)
                \/ o.refuse = 0 /\ Next1(r, Asked(i, o))
  BY Zenon DEF Select
<1> HIDE DEF Ready, Asked, q, v, action
<1>10. QED
  BY <1>3, <1>4, <1>6, <1>7, <1>8, <1>9

\* Its statement runs, waits or fails.
LEMMA FlushTypes ==
    ASSUME TypeInv, NEW r \in Requests, Flush(r)
    PROVE  TypeInv'
<1> DEFINE q == req[r]
           w == Writes(r)
           new == [q EXCEPT !.pc = IF q.left = 1 THEN "commit" ELSE "op", !.left = q.left - 1,
                            !.id = Null, !.old = NoRow, !.out = Refuse(0)]
<1>1. RequestOK(scene, q) /\ q.pc = "flush" /\ q.table \in Managed
  BY DEF Flush, TypeInv, RequestOK
<1>2. \/ End(r, 500) \/ End(r, WriteErrors[q.table].unique) \/ End(r, WriteErrors[q.table].fk)
      \/ End(r, WriteErrors[q.table].restrict)
      \/ /\ tx' = [tx EXCEPT ![r] = Over(w, @)]
         /\ req' = [req EXCEPT ![r] = new]
         /\ UNCHANGED <<scene, db, reader>>
         /\ q.verb = "delete" /\ w # Nothing => ~Restricted(View(r), <<q.table, q.id>>)
  BY ZenonT(60) DEF Flush
<1>3. CASE \/ End(r, 500) \/ End(r, WriteErrors[q.table].unique) \/ End(r, WriteErrors[q.table].fk)
           \/ End(r, WriteErrors[q.table].restrict)
  BY <1>1, <1>3, ErrorsOK, Ends DEF Statuses
<1>4. CASE /\ tx' = [tx EXCEPT ![r] = Over(w, @)]
           /\ req' = [req EXCEPT ![r] = new]
           /\ UNCHANGED <<scene, db, reader>>
           /\ q.verb = "delete" /\ w # Nothing => ~Restricted(View(r), <<q.table, q.id>>)
  <2>1. Written(scene, w)
    BY <1>1, <1>4, WritesOK
  <2>2. Written(scene, Over(w, tx[r]))
    BY <2>1, OverOK DEF TypeInv
  <2>3. /\ DOMAIN new = Fields /\ new.pc = (IF q.left = 1 THEN "commit" ELSE "op")
        /\ new.left = q.left - 1 /\ new.caller = q.caller /\ new.table = q.table
        /\ new.ans = q.ans /\ new.out = Refuse(0)
    BY <1>1 DEF RequestOK, Fields
  <2> HIDE DEF new
  <2>4. RequestOK(scene, new) /\ new.pc \in InFlight
    BY <1>1, <2>3, ResourcesAssumption DEF RequestOK, InFlight
  <2>5. /\ DOMAIN tx' = Requests /\ tx'[r] = Over(w, tx[r])
        /\ DOMAIN req' = Requests /\ req'[r] = new
        /\ \A s \in Requests : s # r => tx'[s] = tx[s] /\ req'[s] = req[s]
        /\ UNCHANGED <<scene, db, reader>>
    BY <1>4 DEF TypeInv
  <2>6. QED
    BY <2>2, <2>4, <2>5 DEF TypeInv
<1>5. QED
  BY <1>2, <1>3, <1>4

\* Its transaction commits.
LEMMA CommitTypes ==
    ASSUME TypeInv, NEW r \in Requests, Commit(r)
    PROVE  TypeInv'
<1>1. /\ DOMAIN req' = Requests /\ req'[r] = Answered(req[r], 200)
      /\ DOMAIN tx' = Requests /\ tx'[r] = Nothing
      /\ \A s \in Requests : s # r => req'[s] = req[s] /\ tx'[s] = tx[s]
      /\ db' = View(r) /\ scene' = scene /\ reader' = Pages(View(r))
  BY DEF Commit, TypeInv
<1>2. ViewOK(scene, View(r))
  BY ViewIsOK
<1>3. ReaderOK(scene, Pages(View(r)))
  BY DEF TypeInv, ReaderOK, Pages, NoReader
<1>4. RequestOK(scene, req'[r]) /\ req'[r].pc = "done"
  BY <1>1, AnsweredOK DEF Statuses
<1>5. QED
  BY <1>1, <1>2, <1>3, <1>4, NothingOK DEF TypeInv, InFlight

\* A client reads the first page of a search.
LEMMA StartPagingTypes ==
    ASSUME TypeInv, NEW c \in Callers, NEW t \in Paged \cap scene, StartPaging(c, t)
    PROVE  TypeInv'
<1>1. /\ reader' = [NoReader EXCEPT !.pc = "paging", !.table = t, !.who = c,
                                    !.stable = Rows(t, c, "SEARCH", db)]
      /\ UNCHANGED <<scene, db, tx, req>>
  BY DEF StartPaging
<1>2. Rows(t, c, "SEARCH", db) \subseteq Ids
  BY RowsInTable, ResourcesAssumption DEF TypeInv, ViewOK
<1>3. ReaderOK(scene, reader')
  BY <1>1, <1>2 DEF ReaderOK, NoReader
<1>4. QED
  BY <1>1, <1>3 DEF TypeInv

\* A client follows a cursor.
LEMMA ReadPageTypes ==
    ASSUME TypeInv, ReadPage
    PROVE  TypeInv'
<1> DEFINE found == {i \in Rows(reader.table, reader.who, "SEARCH", db) : i > reader.cursor}
           next == NextCursor(reader.table, found)
           page == FirstOf(found, PageSize)
<1>1. /\ reader.pc = "paging"
      /\ reader' = [reader EXCEPT !.got = @ \cup page, !.cursor = next,
                                  !.pc = IF next = Null THEN "done" ELSE "paging"]
      /\ UNCHANGED <<scene, db, tx, req>>
  BY DEF ReadPage
<1>2. found \subseteq Ids
  BY <1>1, RowsInTable, ResourcesAssumption DEF TypeInv, ViewOK, ReaderOK
<1> HIDE DEF found
<1>3. next \in Nat /\ page \subseteq found
  BY <1>2, CursorOf, PageOf, ResourcesAssumption
<1>4. ReaderOK(scene, reader')
  BY <1>1, <1>2, <1>3 DEF ReaderOK, NoReader, TypeInv
<1>5. QED
  BY <1>1, <1>4 DEF TypeInv

\* All of them together.
LEMMA TypeNext ==
    ASSUME TypeInv, [Next]_vars
    PROVE  TypeInv'
<1>1. ASSUME NEW r \in Requests, Step(r)
      PROVE  TypeInv'
  <2>1. ASSUME NEW t \in scene \cap Managed, Anonymous(r, t)
        PROVE  TypeInv'
    BY <2>1, AnonymousTypes
  <2>2. ASSUME NEW t \in scene \cap Managed, NEW c \in Callers, Read(r, c, t)
        PROVE  TypeInv'
    BY <2>2, ReadTypes
  <2>3. ASSUME NEW t \in scene \cap Managed, NEW c \in Callers, NEW n \in 1..MaxOps, Receive(r, c, t, n)
        PROVE  TypeInv'
    BY <2>3, ReceiveTypes
  <2>4. CASE Create(r)
    BY <2>4, CreateTypes
  <2>5. CASE Select(r, "update") \/ Select(r, "delete")
    BY <2>5, SelectTypes
  <2>6. CASE Flush(r)
    BY <2>6, FlushTypes
  <2>7. CASE Commit(r)
    BY <2>7, CommitTypes
  <2>8. CASE Lost(r)
    BY <2>8, Ends DEF Lost, Statuses
  <2>9. CASE Deadlock(r)
    BY <2>9, Ends DEF Deadlock, Statuses
  <2>10. QED
    BY <1>1, <2>1, <2>2, <2>3, <2>4, <2>5, <2>6, <2>7, <2>8, <2>9 DEF Step
<1>2. ASSUME NEW c \in Callers, NEW t \in Paged \cap scene, StartPaging(c, t)
      PROVE  TypeInv'
  BY <1>2, StartPagingTypes
<1>3. CASE ReadPage
  BY <1>3, ReadPageTypes
<1>4. CASE UNCHANGED vars
  BY <1>4 DEF vars, TypeInv
<1>5. QED
  BY <1>1, <1>2, <1>3, <1>4 DEF Next, Finished

(* Whatever requests, readers and failures are interleaved, the tables     *)
(* hold rows of their schema, an open transaction has written such rows or *)
(* deletions only, and a request holds what its phase needs.               *)
THEOREM Types == Spec => []TypeInv
<1>1. Init => TypeInv
  BY TypeInit
<1>2. TypeInv /\ [Next]_vars => TypeInv'
  BY TypeNext
<1>3. QED
  BY <1>1, <1>2, PTL DEF Spec

(* The type invariant that TLC checks: rows keep the columns and the       *)
(* domains of the schema, NULL appears only where a delete empties a       *)
(* column, and requests answer with the statuses the routes know.          *)
THEOREM TypesCorrect == Spec => []TypeOK
<1>1. TypeInv => TypeOK
  <2> SUFFICES ASSUME TypeInv PROVE TypeOK
    OBVIOUS
  <2>1. scene \in Scenes /\ ViewOK(scene, db)
    BY DEF TypeInv
  <2>2. ASSUME NEW r \in Requests
        PROVE  /\ req[r].pc \in {"new", "op", "flush", "commit", "done"}
               /\ req[r].left \in 0..MaxOps /\ (req[r].pc = "commit" => req[r].left = 0)
               /\ req[r].ans \in {0, 200, 401, 403, 404, 409, 422, 500}
               /\ ~InProgress(r) => tx[r] = Nothing
               /\ \A k \in DOMAIN tx[r] : k[1] \in scene /\ (tx[r][k] = Gone \/ IsRow(k[1], tx[r][k]))
    <3>1. RequestOK(scene, req[r]) /\ Written(scene,
    tx[r]) /\ (req[r].pc \notin InFlight => tx[r] = Nothing)
      BY DEF TypeInv
    <3>2. QED
      BY <3>1 DEF RequestOK, Written, InFlight, InProgress, Statuses
  <2>3. reader.got \cup reader.stable \subseteq Ids
    BY DEF TypeInv, ReaderOK
  <2>4. QED
    BY <2>1, <2>2, <2>3 DEF TypeOK, ViewOK
<1>2. QED
  BY <1>1, Types, PTL

(* The cache of the origins only watches the requests.                     *)
LEMMA CorsObservesRequests == CorsSpec => Spec
<1>1. CorsInit => Init
  BY DEF CorsInit
<1>2. [CorsNext]_<<vars, corsVars>> => [Next]_vars
  BY DEF CorsNext
<1>3. QED
  BY <1>1, <1>2, PTL DEF CorsSpec, Spec

-----------------------------------------------------------------------------
(* Committed rows change in commits only.                                  *)

\* A request that fails rolls back.
LEMMA EndKeeps ==
    ASSUME NEW r, NEW status, End(r, status)
    PROVE  UNCHANGED <<scene, db, reader>>
BY DEF End

\* A request that goes on has committed nothing.
LEMMA Next1Keeps ==
    ASSUME NEW r, NEW q, Next1(r, q)
    PROVE  UNCHANGED <<scene, db, reader>>
BY DEF Next1

\* So no other step of a request changes a committed row.
LEMMA OnlyCommits ==
    ASSUME NEW r \in Requests, Step(r)
    PROVE  Commit(r) \/ UNCHANGED <<scene, db, reader>>
<1>1. ASSUME NEW t, Anonymous(r, t)
      PROVE  UNCHANGED <<scene, db, reader>>
  BY <1>1, Next1Keeps DEF Anonymous
<1>2. ASSUME NEW t, NEW c, Read(r, c, t)
      PROVE  UNCHANGED <<scene, db, reader>>
  <2>1. PICK route \in DOMAIN ReadRoutes[t] \ {"anonymous"}, i \in Ids :
          LET action == ReadRoutes[t][route]
              status == CASE Scope(c, t, action) = "none" -> 403
                          [] route = "get" /\ i \notin Rows(t, c, action, View(r)) -> 404
                          [] OTHER -> 200
          IN Next1(r, Answered([New EXCEPT !.table = t], status))
    BY <1>2, Zenon DEF Read
  <2>2. QED
    BY <2>1, Next1Keeps
<1>3. ASSUME NEW t, NEW c, NEW n, Receive(r, c, t, n)
      PROVE  UNCHANGED <<scene, db, reader>>
  BY <1>3 DEF Receive
<1>4. CASE Create(r)
  BY <1>4, Next1Keeps, EndKeeps, Zenon DEF Create
<1>5. ASSUME NEW verb, Select(r, verb)
      PROVE  UNCHANGED <<scene, db, reader>>
  BY <1>5, Next1Keeps, EndKeeps, Zenon DEF Select
<1>6. CASE Flush(r)
  <2>1. (\E status : End(r, status)) \/ UNCHANGED <<scene, db, reader>>
    BY <1>6, ZenonT(40) DEF Flush
  <2>2. QED
    BY <2>1, EndKeeps
<1>7. CASE Lost(r) \/ Deadlock(r)
  BY <1>7, EndKeeps DEF Lost, Deadlock
<1>8. QED
  BY <1>1, <1>2, <1>3, <1>4, <1>5, <1>6, <1>7 DEF Step

-----------------------------------------------------------------------------
(* Paging.                                                                 *)

(* While a client pages, the rows that were there and visible all along    *)
(* are rows of the search still, and those up to the cursor have been      *)
(* shown.                                                                  *)
PageInv ==
    /\ reader.pc = "paging" =>
         /\ reader.stable \subseteq Rows(reader.table, reader.who, "SEARCH", db)
         /\ \A i \in reader.stable : i <= reader.cursor => i \in reader.got
    /\ reader.pc = "done" => reader.stable \subseteq reader.got

\* The first page shows the rows up to its cursor.
LEMMA StartPagingCovers ==
    ASSUME TypeInv, NEW c \in Callers, NEW t \in Paged \cap scene, StartPaging(c, t)
    PROVE  PageInv'
<1> DEFINE shown == Rows(t, c, "SEARCH", db)
<1>1. /\ reader' = [NoReader EXCEPT !.pc = "paging", !.table = t, !.who = c, !.stable = shown]
      /\ db' = db
  BY DEF StartPaging
<1>2. shown \subseteq Ids
  BY RowsInTable, ResourcesAssumption DEF TypeInv, ViewOK
<1>3. /\ reader'.pc = "paging" /\ reader'.table = t /\ reader'.who = c /\ reader'.cursor = 0
      /\ reader'.stable = shown
  BY <1>1 DEF NoReader
<1> HIDE DEF shown
<1>4. \A i \in shown : ~(i <= 0)
  BY <1>2 DEF Ids
<1>5. QED
  BY <1>1, <1>3, <1>4 DEF PageInv, shown

\* So does every further page, of what is left.
LEMMA ReadPageCovers ==
    ASSUME TypeInv, PageInv, ReadPage
    PROVE  PageInv'
<1> DEFINE rows == Rows(reader.table, reader.who, "SEARCH", db)
           found == {i \in rows : i > reader.cursor}
           next == NextCursor(reader.table, found)
           page == FirstOf(found, PageSize)
<1>1. /\ reader.pc = "paging"
      /\ reader' = [reader EXCEPT !.got = @ \cup page, !.cursor = next,
                                  !.pc = IF next = Null THEN "done" ELSE "paging"]
      /\ db' = db
  BY DEF ReadPage
<1>2. rows \subseteq Ids /\ reader.cursor \in Nat /\ DOMAIN reader = DOMAIN NoReader
  BY <1>1, RowsInTable, ResourcesAssumption DEF TypeInv, ViewOK, ReaderOK
<1>3. found \subseteq Ids
  BY <1>2
<1>4. /\ reader'.pc = (IF next = Null THEN "done" ELSE "paging") /\ reader'.table = reader.table
      /\ reader'.who = reader.who /\ reader'.cursor = next /\ reader'.stable = reader.stable
      /\ reader'.got = reader.got \cup page
  BY <1>1, <1>2 DEF NoReader
<1>5. /\ next = Null => page = found
      /\ next # Null => \A i \in found : i <= next <=> i \in page
  BY <1>3, CursorOf
<1>6. /\ reader.stable \subseteq rows
      /\ \A i \in reader.stable : i <= reader.cursor => i \in reader.got
  BY <1>1 DEF PageInv
<1>7. \A i \in reader.stable : i \in reader.got \/ i \in found
  BY <1>2, <1>6 DEF Ids
<1> HIDE DEF rows, found, next, page
<1>8. QED
  BY <1>1, <1>4, <1>5, <1>6, <1>7 DEF PageInv, rows

\* Commits between pages can only take rows from those that were there all along.
LEMMA PageNext ==
    ASSUME TypeInv, PageInv, [Next]_vars
    PROVE  PageInv'
<1>1. ASSUME NEW r \in Requests, Commit(r)
      PROVE  PageInv'
  <2> DEFINE rows == IF reader.pc = "paging" THEN Rows(reader.table, reader.who, "SEARCH", View(r)) ELSE {}
  <2>1. db' = View(r) /\ reader' = [reader EXCEPT !.stable = @ \cap rows]
    BY <1>1 DEF Commit, Pages
  <2>2. /\ reader'.pc = reader.pc /\ reader'.table = reader.table /\ reader'.who = reader.who
        /\ reader'.cursor = reader.cursor /\ reader'.got = reader.got
        /\ reader'.stable = reader.stable \cap rows
    BY <2>1 DEF TypeInv, ReaderOK, NoReader
  <2>3. QED
    BY <2>1, <2>2 DEF PageInv
<1>2. CASE UNCHANGED <<db, reader>>
  BY <1>2 DEF PageInv
<1>3. ASSUME NEW r \in Requests, Step(r)
      PROVE  PageInv'
  BY <1>1, <1>2, <1>3, OnlyCommits
<1>4. QED
  BY <1>2, <1>3, StartPagingCovers, ReadPageCovers DEF Next, Finished, vars

(* A client that follows the cursors of a search to the end has been shown *)
(* every row that was there and visible to it from the first page to the   *)
(* last, for every page size and whatever is committed meanwhile: a page   *)
(* that is not full, or has nothing after it, is the end of the rows, and  *)
(* the cursor splits those that were shown from those that were not.       *)
THEOREM PagesCover == Spec => []PagesCoverStableRows
<1>1. Init => PageInv
  <2>1. NoReader.pc = "idle"
    BY DEF NoReader
  <2>2. Init => reader = NoReader
    BY DEF Init
  <2>3. QED
    BY <2>1, <2>2 DEF PageInv
<1>2. TypeInv /\ PageInv /\ [Next]_vars => PageInv'
  BY PageNext
<1>3. PageInv => PagesCoverStableRows
  BY DEF PageInv, PagesCoverStableRows
<1>4. QED
  BY <1>1, <1>2, <1>3, Types, PTL DEF Spec

-----------------------------------------------------------------------------
(* The cache of allowed origins.                                           *)

(* What a lookup or the cache knows of an origin is what the table says,   *)
(* unless a commit has changed the origin since its time stamp.            *)
Knows(known, at) ==
    /\ at \in Nat /\ at <= clock
    /\ \A n \in Names : (n \in known <=> n \in Origins(db)) \/ at <= changed[n]

CacheInv ==
    /\ clock \in Nat /\ DOMAIN lookup = Lookups /\ DOMAIN changed = Names
    /\ \A n \in Names : changed[n] \in Nat /\ changed[n] <= clock
    /\ InPlay /\ cache.valid => Knows(cache.origins, cache.at)
    /\ \A l \in Lookups :
         /\ lookup[l].pc \in {"idle", "missed", "read"}
         /\ lookup[l].pc = "missed" => lookup[l].at \in Nat /\ lookup[l].at <= clock
         /\ InPlay /\ lookup[l].pc = "read" => Knows(lookup[l].origins, lookup[l].at)

\* An empty cache knows nothing.
LEMMA CacheInit ==
    ASSUME CorsInit
    PROVE  CacheInv
<1>1. /\ clock = 0 /\ cache = NoCache /\ lookup = [l \in Lookups |-> NoLookup]
      /\ changed = [n \in Names |-> 0]
  BY DEF CorsInit
<1>2. NoCache.valid = FALSE /\ NoLookup.pc = "idle"
  BY DEF NoCache, NoLookup
<1>3. QED
  BY <1>1, <1>2 DEF CacheInv

(* A statement on the origins that has run has not committed yet: another  *)
(* process that serves it changes nothing this one could have cached.      *)
LEMMA FlushedKeepsRows ==
    ASSUME TypeInv, Next, NEW r \in Requests, Flushed(r)
    PROVE  UNCHANGED <<scene, db>>
<1>1. ASSUME NEW s \in Requests, Commit(s)
      PROVE  FALSE
  <2>1. /\ req[s].pc = "commit" /\ req' = [req EXCEPT ![s] = Answered(@, 200)]
    BY <1>1 DEF Commit
  <2>2. Answered(req[s], 200).pc = "done"
    BY DEF Answered, New
  <2>3. req[r].pc = "flush" /\ req'[r].pc \in {"op", "commit"}
    BY DEF Flushed
  <2>4. DOMAIN req = Requests
    BY DEF TypeInv
  <2>5. QED
    BY <2>1, <2>2, <2>3, <2>4
<1>2. QED
  BY <1>1, OnlyCommits DEF Next, StartPaging, ReadPage, Finished, vars

\* The tables of a run stay the same.
LEMMA SceneIsFixed ==
    ASSUME [Next]_vars
    PROVE  scene' = scene
BY OnlyCommits DEF Next, Commit, StartPaging, ReadPage, Finished, vars

\* Fills, resets and commits keep what the cache knows true since its time stamp.
LEMMA CacheNext ==
    ASSUME TypeInv, CacheInv, [CorsNext]_<<vars, corsVars>>
    PROVE  CacheInv'
<1>1. CASE Next /\ Reset
  <2>1. scene' = scene /\ lookup' = lookup /\ clock' = clock
    BY <1>1, SceneIsFixed DEF Reset
  <2>2. cache' = NoCache \/ cache' = cache
    BY <1>1 DEF Reset
  <2>3. ~NoCache.valid
    BY DEF NoCache
  <2>4. CASE ~InPlay
    <3>1. changed' = changed /\ ~InPlay'
      BY <1>1, <2>1, <2>4 DEF Reset, InPlay
    <3>2. QED
      BY <2>1, <2>4, <3>1 DEF CacheInv
  <2>5. CASE InPlay
    <3>1. changed' = [n \in Names |-> IF n \in Origins(db) <=> n \in Origins(db')
                                      THEN changed[n] ELSE clock]
      BY <1>1, <2>5 DEF Reset
    <3>2. \A n \in Names : changed'[n] \in Nat /\ changed'[n] <= clock
      BY <3>1 DEF CacheInv
    <3>3. ASSUME NEW known, NEW at, Knows(known, at)
          PROVE  /\ at \in Nat /\ at <= clock
                 /\ \A n \in Names : (n \in known <=> n \in Origins(db')) \/ at <= changed'[n]
      BY <3>1, <3>3 DEF Knows
    <3>4. InPlay /\ cache.valid /\ cache' = cache => Knows(cache.origins, cache.at)'
      BY <2>1, <3>3 DEF CacheInv, Knows, Origins
    <3>5. InPlay' /\ cache'.valid => Knows(cache.origins, cache.at)'
      BY <2>2, <2>3, <2>5, <3>4
    <3>6. \A l \in Lookups : lookup[l].pc = "read" => Knows(lookup[l].origins, lookup[l].at)'
      BY <2>1, <2>5, <3>3 DEF CacheInv, Knows, Origins
    <3>7. QED
      BY <2>1, <3>1, <3>2, <3>5, <3>6 DEF CacheInv
  <2>6. QED
    BY <2>4, <2>5
<1>2. CASE Next /\ Elsewhere
  <2>1. UNCHANGED <<scene, db>> /\ UNCHANGED corsVars
    BY <1>2, FlushedKeepsRows DEF Elsewhere
  <2>2. QED
    BY <2>1 DEF CacheInv, Knows, InPlay, Origins, corsVars
<1>3. CASE Tick /\ UNCHANGED vars
  <2>1. /\ clock' = clock + 1 /\ UNCHANGED <<cache, lookup, changed, scene, db>>
    BY <1>3 DEF Tick, vars
  <2>2. \A known, at : Knows(known, at) =>
           /\ at <= clock + 1 /\ at \in Nat
           /\ \A n \in Names : (n \in known <=> n \in Origins(db)) \/ at <= changed[n]
    BY DEF Knows, CacheInv
  <2>3. QED
    BY <2>1, <2>2 DEF CacheInv, Knows, InPlay, Origins
<1>4. ASSUME NEW l \in Lookups, Miss(l), UNCHANGED vars
      PROVE  CacheInv'
  <2>1. /\ DOMAIN lookup' = Lookups /\ lookup'[l] = [NoLookup EXCEPT !.pc = "missed", !.at = clock]
        /\ \A m \in Lookups : m # l => lookup'[m] = lookup[m]
        /\ UNCHANGED <<cache, clock, changed, scene, db>>
    BY <1>4 DEF Miss, vars, CacheInv
  <2>2. lookup'[l].pc = "missed" /\ lookup'[l].at = clock
    BY <2>1 DEF NoLookup
  <2>3. \A known, at : Knows(known, at) => Knows(known, at)'
    BY <2>1 DEF Knows, Origins
  <2>4. clock \in Nat /\ InPlay' = InPlay /\ cache' = cache /\ clock' = clock /\ changed' = changed
    BY <2>1 DEF CacheInv, InPlay
  <2>5. \A m \in Lookups : m # l =>
          /\ lookup'[m].pc \in {"idle", "missed", "read"}
          /\ lookup'[m].pc = "missed" => lookup'[m].at \in Nat /\ lookup'[m].at <= clock
          /\ InPlay /\ lookup'[m].pc = "read" => Knows(lookup[m].origins, lookup[m].at)'
    BY <2>1, <2>3 DEF CacheInv
  <2>6. InPlay' /\ cache'.valid => Knows(cache.origins, cache.at)'
    BY <2>1, <2>4 DEF CacheInv, Knows, Origins
  <2>7. /\ lookup'[l].pc \in {"idle", "missed", "read"}
        /\ lookup'[l].pc = "missed" => lookup'[l].at \in Nat /\ lookup'[l].at <= clock
        /\ lookup'[l].pc # "read"
    BY <2>2, <2>4
  <2>8. /\ clock' \in Nat /\ DOMAIN lookup' = Lookups /\ DOMAIN changed' = Names
        /\ \A n \in Names : changed'[n] \in Nat /\ changed'[n] <= clock'
    BY <2>1, <2>4 DEF CacheInv
  <2>9. QED
    BY <2>4, <2>5, <2>6, <2>7, <2>8 DEF CacheInv
<1>5. ASSUME NEW l \in Lookups, ReadOrigins(l), UNCHANGED vars
      PROVE  CacheInv'
  <2>1. /\ DOMAIN lookup' = Lookups /\ lookup'[l].pc = "read" /\ lookup'[l].at = lookup[l].at
        /\ lookup'[l].origins = Origins(db)
        /\ lookup[l].pc = "missed"
        /\ \A m \in Lookups : m # l => lookup'[m] = lookup[m]
        /\ UNCHANGED <<cache, clock, changed, scene, db>>
    BY <1>5 DEF ReadOrigins, vars, CacheInv
  <2>2. Knows(Origins(db), lookup[l].at)
    BY <2>1 DEF CacheInv, Knows
  <2>3. QED
    BY <2>1, <2>2 DEF CacheInv, Knows, InPlay, Origins
<1>6. ASSUME NEW l \in Lookups, Fill(l), UNCHANGED vars
      PROVE  CacheInv'
  <2>1. /\ DOMAIN lookup' = Lookups /\ lookup'[l] = NoLookup /\ lookup[l].pc = "read"
        /\ \A m \in Lookups : m # l => lookup'[m] = lookup[m]
        /\ cache' = [valid |-> TRUE, origins |-> lookup[l].origins, at |-> lookup[l].at]
        /\ UNCHANGED <<clock, changed, scene, db>>
    BY <1>6 DEF Fill, vars, CacheInv
  <2>2. lookup'[l].pc = "idle"
    BY <2>1 DEF NoLookup
  <2>3. cache'.origins = lookup[l].origins /\ cache'.at = lookup[l].at
    BY <2>1
  <2>4. QED
    BY <2>1, <2>2, <2>3 DEF CacheInv, Knows, InPlay, Origins
<1>7. CASE UNCHANGED <<vars, corsVars>>
  BY <1>7 DEF vars, corsVars, CacheInv, Knows, InPlay, Origins
<1>8. QED
  BY <1>1, <1>2, <1>3, <1>4, <1>5, <1>6, <1>7 DEF CorsNext

(* An origin that was added or removed a TTL ago is seen as such by every  *)
(* cross-origin request that the cache answers: with any number of         *)
(* lookups, requests and processes, for every TTL, and however fills and   *)
(* resets overlap.  It rests on the stamp being the time the lookup began. *)
THEOREM CorsStaleness == CorsSpec => []CorsStaleByAtMostTtl
<1>1. CorsInit => CacheInv
  BY CacheInit
<1>2. TypeInv /\ CacheInv /\ [CorsNext]_<<vars, corsVars>> => CacheInv'
  BY CacheNext
<1>3. CacheInv => CorsStaleByAtMostTtl
  <2> SUFFICES ASSUME CacheInv, InPlay, Fresh, NEW n \in Names, clock - changed[n] >= Ttl
               PROVE  n \in cache.origins <=> n \in Origins(db)
    BY DEF CorsStaleByAtMostTtl
  <2>1. Knows(cache.origins, cache.at) /\ clock - cache.at < Ttl
    BY DEF CacheInv, Fresh
  <2>2. changed[n] \in Nat /\ clock \in Nat /\ Ttl \in Nat /\ cache.at \in Nat
    BY <2>1, CorsAssumption DEF CacheInv, Knows
  <2>3. ~(cache.at <= changed[n])
    BY <2>1, <2>2
  <2>4. QED
    BY <2>1, <2>3 DEF Knows
<1>4. QED
  BY <1>1, <1>2, <1>3, Types, CorsObservesRequests, PTL DEF CorsSpec

-----------------------------------------------------------------------------
(* LLM profiles and their connections.                                     *)

Billing == {"llms", "provider_connections"}
Llm(i) == <<"llms", i>>
Con(i) == <<"provider_connections", i>>

(* A version of a row: committed, written by an open transaction, or about *)
(* to be written by a request that has passed its checks.                  *)
Version(d, w, q, k, x) ==
    \/ k[2] \in DOMAIN d[k[1]] /\ x = d[k[1]][k[2]]
    \/ \E r \in Requests : k \in DOMAIN w[r] /\ w[r][k] # Gone /\ x = w[r][k]
    \/ \E r \in Requests : /\ q[r].pc = "flush" /\ q[r].verb # "delete"
                           /\ <<q[r].table, q[r].id>> = k /\ x = q[r].out.row

(* All versions of a profile or connection have one creator, and a version *)
(* of a profile has the creator of the connection it names.                *)
Consistent(d, w, q) ==
    /\ \A k \in Billing \X Ids : \A x, y :
         Version(d, w, q, k, x) /\ Version(d, w, q, k, y) => x.refs.creator_id = y.refs.creator_id
    /\ \A i, p \in Ids : \A x, y :
         Version(d, w, q, Llm(i), x) /\ Version(d, w, q, Con(p), y)
           /\ x.refs.provider_connection_id = p => x.refs.creator_id = y.refs.creator_id

Supported(v) ==
    \A i \in DOMAIN v["llms"] : v["llms"][i].refs.provider_connection_id \in DOMAIN v["provider_connections"]

(* No transaction deletes a connection that another's profile names.       *)
NotPulled(w) ==
    \A r, s \in Requests : r # s =>
        \A i, p \in Ids :
            Con(p) \in DOMAIN w[r] /\ w[r][Con(p)] = Gone /\ Llm(i) \in DOMAIN w[s] /\ w[s][Llm(i)] # Gone
              => w[s][Llm(i)].refs.provider_connection_id # p

LlmInv ==
    Billing \subseteq scene =>
        /\ Consistent(db, tx, req) /\ Supported(db) /\ NotPulled(tx)
        /\ \A r \in Requests : Supported(View(r))

(* A new version that fits the others.                                     *)
Fits(d, w, q, k, z) ==
    /\ \A x : Version(d, w, q, k, x) => x.refs.creator_id = z.refs.creator_id
    /\ k[1] = "llms" => \A p \in Ids : \A y :
         z.refs.provider_connection_id = p /\ Version(d, w, q, Con(p), y) =>
            z.refs.creator_id = y.refs.creator_id
    /\ k[1] = "provider_connections" => \A i \in Ids : \A x :
         Version(d, w, q, Llm(i), x) /\ x.refs.provider_connection_id = k[2] =>
            x.refs.creator_id = z.refs.creator_id

\* A step that adds no version keeps them consistent.
LEMMA NoNewVersion ==
    ASSUME NEW d, NEW w, NEW q, NEW d2, NEW w2, NEW q2, Consistent(d, w, q),
           \A k \in Billing \X Ids : \A x : Version(d2, w2, q2, k, x) => Version(d, w, q, k, x)
    PROVE  Consistent(d2, w2, q2)
<1>1. \A i \in Ids : Llm(i) \in Billing \X Ids /\ Con(i) \in Billing \X Ids
  BY DEF Llm, Con, Billing
<1>2. ASSUME NEW k \in Billing \X Ids, NEW x, NEW y,
             Version(d2, w2, q2, k, x), Version(d2, w2, q2, k, y)
      PROVE  x.refs.creator_id = y.refs.creator_id
  BY <1>2 DEF Consistent
<1>3. ASSUME NEW i \in Ids, NEW p \in Ids, NEW x, NEW y, x.refs.provider_connection_id = p,
             Version(d2, w2, q2, Llm(i), x), Version(d2, w2, q2, Con(p), y)
      PROVE  x.refs.creator_id = y.refs.creator_id
  <2>1. Version(d, w, q, Llm(i), x) /\ Version(d, w, q, Con(p), y)
    BY <1>1, <1>3
  <2>2. QED
    BY <1>3, <2>1 DEF Consistent
<1>4. QED
  BY <1>2, <1>3 DEF Consistent

\* So does one whose only new version fits the others.
LEMMA OneNewVersion ==
    ASSUME NEW d, NEW w, NEW q, NEW d2, NEW w2, NEW q2, NEW k0, NEW z0,
           Consistent(d, w, q), Fits(d, w, q, k0, z0),
           \A k \in Billing \X Ids : \A x :
              Version(d2, w2, q2, k, x) => Version(d, w, q, k, x) \/ (k = k0 /\ x = z0)
    PROVE  Consistent(d2, w2, q2)
<1>1. \A i \in Ids : Llm(i) \in Billing \X Ids /\ Con(i) \in Billing \X Ids
  BY DEF Llm, Con, Billing
<1>2. ASSUME NEW k \in Billing \X Ids, NEW x, NEW y,
             Version(d2, w2, q2, k, x), Version(d2, w2, q2, k, y)
      PROVE  x.refs.creator_id = y.refs.creator_id
  BY <1>2 DEF Consistent, Fits
<1>3. ASSUME NEW i \in Ids, NEW p \in Ids, NEW x, NEW y, x.refs.provider_connection_id = p,
             Version(d2, w2, q2, Llm(i), x), Version(d2, w2, q2, Con(p), y)
      PROVE  x.refs.creator_id = y.refs.creator_id
  <2>1. Llm(i)[1] = "llms" /\ Con(p)[1] = "provider_connections" /\ Con(p)[2] = p /\ Llm(i) # Con(p)
    BY DEF Llm, Con
  <2>2. Version(d, w, q, Llm(i), x) \/ (Llm(i) = k0 /\ x = z0)
    BY <1>1, <1>3
  <2>3. Version(d, w, q, Con(p), y) \/ (Con(p) = k0 /\ y = z0)
    BY <1>1, <1>3
  <2>4. CASE Version(d, w, q, Llm(i), x) /\ Version(d, w, q, Con(p), y)
    BY <1>3, <2>4 DEF Consistent
  <2>5. CASE Llm(i) = k0 /\ x = z0 /\ Version(d, w, q, Con(p), y)
    BY <1>3, <2>1, <2>5 DEF Fits
  <2>6. CASE Con(p) = k0 /\ y = z0 /\ Version(d, w, q, Llm(i), x)
    BY <1>3, <2>1, <2>6 DEF Fits
  <2>7. QED
    BY <2>1, <2>2, <2>3, <2>4, <2>5, <2>6
<1>4. QED
  BY <1>2, <1>3 DEF Consistent

(* A version with the creator and the connection of another one fits.      *)
LEMMA DerivedFits ==
    ASSUME NEW d, NEW w, NEW q, Consistent(d, w, q), NEW k \in Billing \X Ids, NEW z, NEW x, NEW y,
           Version(d, w, q, k, x), Version(d, w, q, k, y), z.refs.creator_id = x.refs.creator_id,
           k[1] = "llms" => z.refs.provider_connection_id = y.refs.provider_connection_id
    PROVE  Fits(d, w, q, k, z)
<1>1. \A u : Version(d, w, q, k, u) => u.refs.creator_id = z.refs.creator_id
  BY DEF Consistent
<1>2. ASSUME k[1] = "llms", NEW p \in Ids, NEW u, z.refs.provider_connection_id = p,
             Version(d, w, q, Con(p), u)
      PROVE  z.refs.creator_id = u.refs.creator_id
  <2>1. k = Llm(k[2]) /\ k[2] \in Ids
    BY <1>2 DEF Llm
  <2>2. y.refs.creator_id = u.refs.creator_id
    BY <1>2, <2>1 DEF Consistent
  <2>3. QED
    BY <1>1, <2>2
<1>3. ASSUME k[1] = "provider_connections", NEW i \in Ids, NEW u, Version(d, w, q, Llm(i), u),
             u.refs.provider_connection_id = k[2]
      PROVE  u.refs.creator_id = z.refs.creator_id
  <2>1. k = Con(k[2]) /\ k[2] \in Ids
    BY <1>3 DEF Con
  <2>2. u.refs.creator_id = x.refs.creator_id
    BY <1>3, <2>1 DEF Consistent
  <2>3. QED
    BY <2>2
<1>4. QED
  BY <1>1, <1>2, <1>3 DEF Fits

(* What a transaction sees is a version.                                   *)
LEMMA SeenIsVersion ==
    ASSUME TypeInv, NEW r \in Requests, NEW t \in Billing, t \in scene, NEW i \in DOMAIN View(r)[t]
    PROVE  i \in Ids /\ <<t, i>> \in Billing \X Ids /\ Version(db, tx, req, <<t, i>>, View(r)[t][i])
<1>1. i \in Ids /\ t \in DOMAIN db
  BY ViewIsOK DEF TypeInv, ViewOK
<1>2. \/ <<t, i>> \in DOMAIN tx[r] /\ tx[r][<<t, i>>] # Gone /\ View(r)[t][i] = tx[r][<<t, i>>]
      \/ i \in DOMAIN db[t] /\ View(r)[t][i] = db[t][i]
  BY <1>1, OverlayAt DEF View
<1>3. QED
  BY <1>1, <1>2 DEF Version

\* A transaction that wrote nothing sees what is committed.
LEMMA SupportedByNothing ==
    ASSUME NEW v, Billing \subseteq DOMAIN v, Supported(v)
    PROVE  Supported(Overlay(v, Nothing))
<1>1. DOMAIN Nothing = {}
  BY DEF Nothing
<1>2. ASSUME NEW t \in Billing, NEW i
      PROVE  /\ i \in DOMAIN Overlay(v, Nothing)[t] <=> i \in DOMAIN v[t]
             /\ i \in DOMAIN v[t] => Overlay(v, Nothing)[t][i] = v[t][i]
  <2>1. t \in DOMAIN v /\ ~(i \in Ids /\ <<t, i>> \in DOMAIN Nothing)
    BY <1>1
  <2>2. QED
    BY <2>1, OverlayAt
<1>3. "llms" \in Billing /\ "provider_connections" \in Billing
  BY DEF Billing
<1>4. QED
  BY <1>2, <1>3 DEF Supported

\* The seeded profiles run on connections of their creators.
LEMMA LlmInit ==
    ASSUME Init, Billing \subseteq scene
    PROVE  /\ Consistent(db, tx, req) /\ Supported(db) /\ NotPulled(tx)
           /\ \A r \in Requests : Supported(View(r))
<1>0. TypeInv
  BY TypeInit
<1>1. PICK n \in 0..Seeded :
          db = [t \in scene |-> [i \in 1..(IF t \in Managed \/ n = 0 THEN n ELSE 1) |-> SeedRow(t, i)]]
  BY DEF Init, Seeds
<1>2. /\ db["llms"] = [i \in 1..n |-> SeedRow("llms", i)]
      /\ db["provider_connections"] = [i \in 1..n |-> SeedRow("provider_connections", i)]
  BY <1>1, ManagedAre DEF Billing
<1>3. \A i : /\ SeedRow("llms", i).refs.creator_id = i
             /\ SeedRow("llms", i).refs.provider_connection_id = i
             /\ SeedRow("provider_connections", i).refs.creator_id = i
  BY RefsOfTables DEF SeedRow
<1>4. \A r \in Requests : tx[r] = Nothing /\ req[r].pc = "new" /\ DOMAIN Nothing = {}
  <2>1. New.pc = "new" /\ DOMAIN Nothing = {}
    BY DEF New, Nothing
  <2>2. tx = [r \in Requests |-> Nothing] /\ req = [r \in Requests |-> New]
    BY DEF Init
  <2>3. QED
    BY <2>1, <2>2
<1>5. \A k, x : Version(db, tx, req, k, x) => k[2] \in DOMAIN db[k[1]] /\ x = db[k[1]][k[2]]
  BY <1>4 DEF Version
<1>6. Consistent(db, tx, req)
  BY <1>2, <1>3, <1>5 DEF Consistent, Llm, Con
<1>7. Supported(db)
  BY <1>2, <1>3 DEF Supported
<1>8. NotPulled(tx)
  BY <1>4 DEF NotPulled
<1>9. ASSUME NEW r \in Requests
      PROVE  Supported(View(r))
  <2>1. View(r) = Overlay(db, Nothing) /\ Billing \subseteq DOMAIN db
    BY <1>0, <1>4 DEF View, TypeInv, ViewOK
  <2>2. QED
    BY <1>7, <2>1, SupportedByNothing
<1>10. QED
  BY <1>6, <1>7, <1>8, <1>9

(* Steps that write nothing and prepare nothing to be written.             *)
LEMMA LlmKept ==
    ASSUME TypeInv, LlmInv, NEW r \in Requests, UNCHANGED <<scene, db>>,
           \A s \in Requests : tx'[s] = tx[s] \/ tx'[s] = Nothing,
           \A s \in Requests : req'[s].pc = "flush" =>
              \/ req'[s].verb = "delete"
              \/ /\ req[s].pc = "flush" /\ req[s].verb # "delete"
                 /\ req'[s].table = req[s].table /\ req'[s].id = req[s].id
                 /\ req'[s].out = req[s].out
    PROVE  LlmInv'
<1> SUFFICES ASSUME Billing \subseteq scene
             PROVE  /\ Consistent(db', tx', req') /\ Supported(db') /\ NotPulled(tx')
                    /\ \A s \in Requests : Supported(Overlay(db', tx'[s]))
  BY DEF LlmInv, View
<1>1. /\ Consistent(db, tx, req) /\ Supported(db) /\ NotPulled(tx)
      /\ \A s \in Requests : Supported(View(s))
  BY DEF LlmInv
<1>2. DOMAIN Nothing = {}
  BY DEF Nothing
<1>3. ASSUME NEW k, NEW x, Version(db', tx', req', k, x)
      PROVE  Version(db, tx, req, k, x)
  BY <1>2, <1>3 DEF Version
<1>4. Consistent(db', tx', req')
  BY <1>1, <1>3, NoNewVersion
<1>5. NotPulled(tx')
  BY <1>1, <1>2 DEF NotPulled
<1>6. ASSUME NEW s \in Requests
      PROVE  Supported(Overlay(db', tx'[s]))
  <2>1. Supported(Overlay(db, tx[s]))
    BY <1>1 DEF View
  <2>2. Supported(Overlay(db, Nothing))
    BY <1>1, SupportedByNothing DEF TypeInv, ViewOK
  <2>3. QED
    BY <2>1, <2>2
<1>7. QED
  BY <1>1, <1>4, <1>5, <1>6

\* A request that ends takes its versions with it.
LEMMA LlmEnds ==
    ASSUME TypeInv, LlmInv, NEW r \in Requests, NEW status, End(r, status)
    PROVE  LlmInv'
<1>1. Answered(req[r], status).pc = "done"
  BY DEF Answered, New
<1>2. /\ UNCHANGED <<scene, db>> /\ tx'[r] = Nothing /\ req'[r].pc = "done"
      /\ \A s \in Requests : s # r => tx'[s] = tx[s] /\ req'[s] = req[s]
  BY <1>1 DEF End, TypeInv
<1>3. QED
  BY <1>2, LlmKept

(* A request prepares no row of its own.                                   *)
LEMMA LlmGoesOn ==
    ASSUME TypeInv, LlmInv, NEW r \in Requests, NEW q, Next1(r, q), q.pc = "flush" => q.verb = "delete"
    PROVE  LlmInv'
<1>1. /\ UNCHANGED <<scene, db, tx>> /\ req'[r] = q
      /\ \A s \in Requests : s # r => req'[s] = req[s]
  BY DEF Next1, TypeInv
<1>2. QED
  BY <1>1, LlmKept

(* A request prepares a row that fits.                                     *)
LEMMA LlmPrepares ==
    ASSUME TypeInv, LlmInv, NEW r \in Requests, req[r].pc = "op", NEW q, Next1(r, q),
           Billing \subseteq scene /\ q.table \in Billing =>
               Fits(db, tx, req, <<q.table, q.id>>, q.out.row)
    PROVE  LlmInv'
<1> SUFFICES ASSUME Billing \subseteq scene
             PROVE  /\ Consistent(db', tx', req') /\ Supported(db') /\ NotPulled(tx')
                    /\ \A s \in Requests : Supported(Overlay(db', tx'[s]))
  BY DEF LlmInv, View, Next1
<1>1. /\ UNCHANGED <<scene, db, tx>> /\ req'[r] = q
      /\ \A s \in Requests : s # r => req'[s] = req[s]
  BY DEF Next1, TypeInv
<1>2. /\ Consistent(db, tx, req) /\ Supported(db) /\ NotPulled(tx)
      /\ \A s \in Requests : Supported(Overlay(db, tx[s]))
  BY DEF LlmInv, View
<1> DEFINE k0 == <<q.table, q.id>>
           z0 == q.out.row
<1>3. \A k, x : Version(db', tx', req', k, x) => Version(db, tx, req, k, x) \/ (k = k0 /\ x = z0)
  BY <1>1 DEF Version
<1>4. Consistent(db', tx', req')
  <2>1. CASE q.table \in Billing
    <3> HIDE DEF k0, z0
    <3>1. Fits(db, tx, req, k0, z0)
      BY <2>1 DEF k0, z0
    <3>2. QED
      BY <1>2, <1>3, <3>1, OneNewVersion
  <2>2. CASE q.table \notin Billing
    <3>1. \A k \in Billing \X Ids : k # k0
      BY <2>2
    <3> HIDE DEF k0, z0
    <3>2. QED
      BY <1>2, <1>3, <3>1, NoNewVersion
  <2>3. QED
    BY <2>1, <2>2
<1>5. QED
  BY <1>1, <1>2, <1>4

(* The id of a new row belongs to no version of any row, and no version of *)
(* a profile names a connection that has such an id.                       *)
LEMMA FreshId ==
    ASSUME NEW t \in Billing, NEW i \in FreeIds(t), NEW x
    PROVE  ~Version(db, tx, req, <<t, i>>, x)
BY DEF FreeIds, Version, Holds

\* A new connection is named by no version of a profile.
LEMMA FreshConnection ==
    ASSUME TypeInv, LlmInv, Billing \subseteq scene, NEW p \in FreeIds("provider_connections"),
           NEW i \in Ids, NEW x, Version(db, tx, req, Llm(i), x)
    PROVE  x.refs.provider_connection_id # p
<1> SUFFICES ASSUME x.refs.provider_connection_id = p PROVE FALSE
  OBVIOUS
<1>1. /\ p \in Ids /\ p \notin DOMAIN db["provider_connections"]
      /\ \A s \in Requests : Con(p) \notin DOMAIN tx[s] /\ ~Holds(req[s], Con(p))
  BY DEF FreeIds, Con
<1>2. "llms" \in DOMAIN db /\ "provider_connections" \in DOMAIN db
  BY DEF TypeInv, ViewOK, Billing
<1>3. CASE i \in DOMAIN db["llms"] /\ x = db["llms"][i]
  BY <1>1, <1>3 DEF LlmInv, Supported
<1>4. ASSUME NEW s \in Requests, Llm(i) \in DOMAIN tx[s], tx[s][Llm(i)] # Gone, x = tx[s][Llm(i)]
      PROVE  FALSE
  <2>1. i \in DOMAIN View(s)["llms"] /\ View(s)["llms"][i] = x
    BY <1>2, <1>4, OverlayAt DEF View, Llm
  <2>2. p \in DOMAIN View(s)["provider_connections"]
    BY <2>1 DEF LlmInv, Supported
  <2>3. p \in DOMAIN db["provider_connections"]
    BY <1>1, <1>2, <2>2, OverlayAt DEF View, Con
  <2>4. QED
    BY <1>1, <2>3
<1>5. ASSUME NEW s \in Requests, req[s].pc = "flush", req[s].verb # "delete",
             <<req[s].table, req[s].id>> = Llm(i), x = req[s].out.row
      PROVE  FALSE
  <2>1. req[s].table = "llms" /\ IsRow("llms", x)
    BY <1>5 DEF TypeInv, RequestOK, Payload, Llm
  <2>2. Refs("llms") = [creator_id |-> Creator,
                        provider_connection_id |-> Ref("provider_connections", "cascade")]
    BY RefsOfTables
  <2>3. Refs("llms")["provider_connection_id"].to = "provider_connections"
    BY <2>2 DEF Ref
  <2>4. "provider_connection_id" \in DOMAIN x.refs /\ x # Gone
    BY <2>1, <2>2, RowIsNotGone DEF IsRow
  <2>5. PointsAt(x, "llms", Con(p))
    BY <2>3, <2>4 DEF PointsAt, Con
  <2>6. QED
    BY <1>1, <1>5, <2>1, <2>5 DEF Holds
<1>6. QED
  BY <1>3, <1>4, <1>5 DEF Version, Llm

(* Whoever owns a connection that a transaction sees is the creator of all *)
(* its versions.                                                           *)
LEMMA OwnerOfVersions ==
    ASSUME TypeInv, LlmInv, Billing \subseteq scene, NEW r \in Requests, NEW j, NEW owner,
           OwnConnection(View(r), j, owner)
    PROVE  \A y : Version(db, tx, req, Con(j), y) => y.refs.creator_id = owner
<1>1. /\ j \in DOMAIN View(r)["provider_connections"]
      /\ View(r)["provider_connections"][j].refs.creator_id = owner
  BY DEF OwnConnection
<1>2. "provider_connections" \in Billing /\ "provider_connections" \in scene
  BY DEF Billing
<1>3. /\ Con(j) \in Billing \X Ids
      /\ Version(db, tx, req, Con(j), View(r)["provider_connections"][j])
  BY <1>1, <1>2, SeenIsVersion DEF Con
<1>4. Consistent(db, tx, req)
  BY DEF LlmInv
<1>5. QED
  BY <1>1, <1>3, <1>4 DEF Consistent

\* What a create inserts fits the other versions: its connection was looked up by its owner.
LEMMA CreateFits ==
    ASSUME TypeInv, LlmInv, Billing \subseteq scene, NEW r \in Requests, NEW t \in Billing, NEW c,
           NEW o \in Creates(t, c, View(r)), o.refuse = 0, NEW i \in FreeIds(t)
    PROVE  Fits(db, tx, req, <<t, i>>, o.row)
<1>1. \A x : ~Version(db, tx, req, <<t, i>>, x)
  BY FreshId
<1>2. Refuse(403).refuse # 0 /\ Refuse(422).refuse # 0
  BY DEF Refuse
<1>3. CASE t = "llms"
  <2>1. PICK j : /\ o = Insert([creator_id |-> c.user, provider_connection_id |-> j], 0)
                 /\ OwnConnection(View(r), j, c.user)
    BY <1>2, <1>3, ZenonT(30) DEF Creates, LlmCreate
  <2>2. o.row.refs.creator_id = c.user /\ o.row.refs.provider_connection_id = j
    BY <2>1 DEF Insert, Write
  <2>3. \A y : Version(db, tx, req, Con(j), y) => y.refs.creator_id = c.user
    BY <2>1, OwnerOfVersions
  <2>4. QED
    BY <1>1, <1>3, <2>2, <2>3 DEF Fits
<1>4. CASE t = "provider_connections"
  <2>1. \A k \in Ids : \A x : Version(db, tx, req, Llm(k), x) => x.refs.provider_connection_id # i
    BY <1>4, FreshConnection
  <2>2. QED
    BY <1>1, <1>4, <2>1 DEF Fits
<1>5. QED
  BY <1>3, <1>4 DEF Billing

\* What an update writes fits the other versions: it keeps the creator, and looks up a new connection.
LEMMA PatchFits ==
    ASSUME TypeInv, LlmInv, Billing \subseteq scene, NEW r \in Requests, NEW t \in Billing, NEW c,
           NEW i \in DOMAIN View(r)[t], NEW o \in Patches(t, c, View(r), i), o.refuse = 0
    PROVE  Fits(db, tx, req, <<t, i>>, o.row)
<1> DEFINE row == View(r)[t][i]
<1>1. /\ i \in Ids /\ <<t, i>> \in Billing \X Ids /\ Version(db, tx, req, <<t, i>>, row)
      /\ IsRow(t, row)
  BY SeenIsVersion, ViewIsOK DEF ViewOK
<1>2. Refuse(403).refuse # 0 /\ Refuse(422).refuse # 0
  BY DEF Refuse
<1>3. Consistent(db, tx, req)
  BY DEF LlmInv
<1>4. CASE o = Write(NewVal(row))
  <2>1. o.row.refs = row.refs
    BY <1>1, <1>4 DEF Write, NewVal, IsRow
  <2> HIDE DEF row
  <2>2. QED
    BY <1>1, <1>3, <2>1, DerivedFits
<1>5. ASSUME t = "llms", NEW j, OwnConnection(View(r), j, row.refs.creator_id),
             o = Write([row EXCEPT !.refs.provider_connection_id = j])
      PROVE  Fits(db, tx, req, <<t, i>>, o.row)
  <2>1. \A y : Version(db, tx, req, Con(j), y) => y.refs.creator_id = row.refs.creator_id
    BY <1>5, OwnerOfVersions
  <2>2. DOMAIN row.refs = {"creator_id", "provider_connection_id"}
    BY <1>1, <1>5, RefsOfTables DEF IsRow
  <2>3. o.row.refs.creator_id = row.refs.creator_id /\ o.row.refs.provider_connection_id = j
    BY <1>1, <1>5, <2>2 DEF Write, IsRow
  <2> HIDE DEF row
  <2>4. QED
    BY <1>1, <1>3, <1>5, <2>1, <2>3 DEF Fits, Consistent
<1>6. CASE t = "llms"
  <2>1. \/ o = Write(NewVal(row))
        \/ \E j : /\ OwnConnection(View(r), j, row.refs.creator_id)
                  /\ o = Write([row EXCEPT !.refs.provider_connection_id = j])
    BY <1>2, <1>6, ZenonT(30) DEF Patches, LlmPatch
  <2>2. QED
    BY <1>4, <1>5, <1>6, <2>1
<1>7. CASE t = "provider_connections"
  BY <1>4, <1>7 DEF Patches, ConnectionPatch
<1>8. QED
  BY <1>6, <1>7 DEF Billing

\* A create prepares a row that fits.
LEMMA LlmCreates ==
    ASSUME TypeInv, LlmInv, NEW r \in Requests, Create(r)
    PROVE  LlmInv'
<1> DEFINE q == [req[r] EXCEPT !.verb = "create"]
           t == q.table
           Prepared(i, o) == [q EXCEPT !.pc = "flush", !.id = i, !.old = NoRow, !.out = o]
<1>1. \/ \E status : End(r, status)
      \/ \E o \in Creates(t, q.caller, View(r)), i \in FreeIds(t) :
            o.refuse = 0 /\ Next1(r, Prepared(i, o))
  BY Zenon DEF Create
<1>2. req[r].pc = "op" /\ DOMAIN req[r] = Fields
  BY DEF Create, TypeInv, RequestOK
<1>3. ASSUME NEW o \in Creates(t, q.caller, View(r)), NEW i \in FreeIds(t), o.refuse = 0,
             Next1(r, Prepared(i, o))
      PROVE  LlmInv'
  <2>1. Prepared(i, o).table = t /\ Prepared(i, o).id = i /\ Prepared(i, o).out = o
    BY <1>2 DEF Fields
  <2> HIDE DEF Prepared, q
  <2>2. Billing \subseteq scene /\ t \in Billing => Fits(db, tx, req, <<t, i>>, o.row)
    BY <1>3, CreateFits
  <2>3. QED
    BY <1>2, <1>3, <2>1, <2>2, LlmPrepares
<1>4. QED
  BY <1>1, <1>3, LlmEnds

\* An update does, and a delete prepares none.
LEMMA LlmSelects ==
    ASSUME TypeInv, LlmInv, NEW r \in Requests, NEW verb \in {"update", "delete"}, Select(r, verb)
    PROVE  LlmInv'
<1> DEFINE q == [req[r] EXCEPT !.verb = verb]
           t == q.table
           v == View(r)
           action == ActionOf[verb]
           Ready(i) == [q EXCEPT !.pc = "flush", !.id = i, !.old = v[t][i]]
           Asked(i, o) == [Ready(i) EXCEPT !.out = o, !.asked = @ \cup ({i} \X Changes(v[t][i], o))]
<1>1. \/ \E status : End(r, status)
      \/ \E i \in Ids : i \in Rows(t, q.caller, action, v) /\
           \/ verb = "delete" /\ Next1(r, [Ready(i) EXCEPT !.out = Write(NoRow)])
           \/ verb # "delete" /\ \E o \in Patches(t, q.caller, v, i) :
                \/ End(r, o.refuse)
                \/ o.refuse = 0 /\ Next1(r, Asked(i, o))
  BY Zenon DEF Select
<1>2. req[r].pc = "op" /\ DOMAIN req[r] = Fields /\ t \in Managed
  BY DEF Select, TypeInv, RequestOK, Fields
<1>3. ASSUME NEW i \in Ids, verb = "delete", Next1(r, [Ready(i) EXCEPT !.out = Write(NoRow)])
      PROVE  LlmInv'
  <2>1. [Ready(i) EXCEPT !.out = Write(NoRow)].verb = "delete"
    BY <1>2, <1>3 DEF Fields
  <2> HIDE DEF Ready
  <2>2. QED
    BY <1>3, <2>1, LlmGoesOn
<1>4. ASSUME NEW i \in Rows(t, q.caller, action, v), NEW o \in Patches(t, q.caller, v, i),
             o.refuse = 0, Next1(r, Asked(i, o))
      PROVE  LlmInv'
  <2>1. Asked(i, o).table = t /\ Asked(i, o).id = i /\ Asked(i, o).out = o
    BY <1>2 DEF Fields
  <2>2. i \in DOMAIN v[t]
    BY <1>2, <1>4, RowsInTable
  <2> HIDE DEF Asked, q
  <2>3. Billing \subseteq scene /\ t \in Billing => Fits(db, tx, req, <<t, i>>, o.row)
    BY <1>4, <2>2, PatchFits
  <2>4. QED
    BY <1>2, <1>4, <2>1, <2>3, LlmPrepares
<1> HIDE DEF Ready, Asked, q, v, action
<1>5. QED
  BY <1>1, <1>3, <1>4, LlmEnds

\* A delete empties columns of no profile and no connection.
LEMMA NulledTables ==
    ASSUME NEW S \in Scenes, NEW v, ViewOK(S, v), NEW X, NEW n \in Held(v, X, "null")
    PROVE  n[1] \in {"api_keys", "llm_usage"}
<1>1. n \in Keys(v) /\ \E c \in DOMAIN Refs(n[1]) : Refs(n[1])[c].del = "null"
  BY DEF Held
<1>2. n[1] \in Tables
  BY <1>1, KeysOfView, ResourcesAssumption
<1>3. QED
  BY <1>1, <1>2, NullColumns

(* Only the row of a request itself is written, and what is written fits   *)
(* the other versions; only a delete and its cascade remove rows.          *)
LEMMA WrittenFits ==
    ASSUME TypeInv, LlmInv, Billing \subseteq scene, NEW r \in Requests, req[r].pc = "flush",
           NEW k \in Billing \X Ids, k \in DOMAIN Writes(r)
    PROVE  \/ /\ Writes(r)[k] # Gone /\ k = <<req[r].table, req[r].id>> /\ req[r].verb # "delete"
              /\ Fits(db, tx, req, k, Writes(r)[k])
           \/ /\ Writes(r)[k] = Gone /\ req[r].verb = "delete"
              /\ <<req[r].table, req[r].id>> \in Keys(View(r))
              /\ Writes(r) = Delete(View(r), <<req[r].table, req[r].id>>)
              /\ k \in Doomed(View(r), <<req[r].table, req[r].id>>)
<1> DEFINE q == req[r]
           v == View(r)
           k0 == <<q.table, q.id>>
           here == q.id \in DOMAIN v[q.table]
           extra == Over(Added(q), [n \in q.out.drop |-> Gone])
<1>1. /\ RequestOK(scene, q) /\ ViewOK(scene, v) /\ scene \in Scenes /\ k0 \in scene \X Ids
      /\ Consistent(db, tx, req)
  BY ViewIsOK DEF TypeInv, RequestOK, LlmInv
<1>2. q.verb # "delete" => k \notin DOMAIN extra
  <2> SUFFICES ASSUME q.verb # "delete" PROVE k \notin DOMAIN extra
    OBVIOUS
  <2>1. \A n \in DOMAIN Added(q) : n[1] \in Beside
    BY AddedOK
  <2>2. \A n \in q.out.drop : n[1] = "oauth_client_redirect_uris"
    BY <1>1 DEF RequestOK, Payload
  <2>3. DOMAIN extra = DOMAIN Added(q) \cup q.out.drop
    BY DEF Over
  <2>4. QED
    BY <2>1, <2>2, <2>3 DEF Beside, Billing
<1>3. CASE q.verb = "create"
  <2>1. Writes(r) = Over(One(k0, q.out.row), extra)
    BY <1>3 DEF Writes
  <2> HIDE DEF extra
  <2>2. k = k0 /\ Writes(r)[k] = q.out.row
    BY <1>2, <1>3, <2>1 DEF Over, One
  <2>3. Version(db, tx, req, k0, q.out.row)
    BY <1>3 DEF Version
  <2>4. Fits(db, tx, req, k0, q.out.row)
    BY <1>1, <2>2, <2>3, DerivedFits
  <2>5. q.out.row # Gone
    BY <1>1, <1>3, RowIsNotGone DEF RequestOK, Payload
  <2>6. QED
    BY <1>3, <2>2, <2>4, <2>5
<1>4. CASE q.verb = "update" /\ here
  <2> DEFINE now == v[q.table][q.id]
             new == Merge(q.old, q.out, now)
  <2>1. Writes(r) = Over(One(k0, new), extra)
    BY <1>4 DEF Writes
  <2>2. IsRow(q.table, q.out.row) /\ IsRow(q.table, q.old) /\ IsRow(q.table, now)
    BY <1>1, <1>4 DEF RequestOK, Payload, ViewOK
  <2>3. IsRow(q.table, new) /\ new # Gone
    BY <2>2, MergeOK, RowIsNotGone
  <2>4. /\ DOMAIN now.refs = DOMAIN Refs(q.table)
        /\ \A c \in DOMAIN now.refs : new.refs[c] \in {q.out.row.refs[c], now.refs[c]}
    BY <2>2 DEF Merge, IsRow
  <2> HIDE DEF extra, new
  <2>5. k = k0 /\ Writes(r)[k] = new
    BY <1>2, <1>4, <2>1 DEF Over, One
  <2>6. q.table \in Billing /\ q.table \in scene /\ q.id \in DOMAIN View(r)[q.table]
    BY <1>1, <1>4, <2>5
  <2>7. Version(db, tx, req, k0, now) /\ Version(db, tx, req, k0, q.out.row)
    BY <1>4, <2>6, SeenIsVersion DEF Version
  <2>8. "creator_id" \in DOMAIN now.refs /\
          (q.table = "llms" => "provider_connection_id" \in DOMAIN now.refs)
    <3>1. DOMAIN Refs("llms") = {"creator_id", "provider_connection_id"}
          /\ DOMAIN Refs("provider_connections") = {"creator_id"}
      BY RefsOfTables
    <3>2. q.table \in {"llms", "provider_connections"}
      BY <2>6 DEF Billing
    <3> HIDE DEF now
    <3> QED
      BY <2>4, <3>1, <3>2
  <2>9. now.refs.creator_id = q.out.row.refs.creator_id
    <3>1. k0 \in Billing \X Ids /\ Consistent(db, tx, req)
      BY <2>5 DEF LlmInv
    <3> HIDE DEF k0, now
    <3>2. \A x, y : Version(db, tx, req, k0, x) /\ Version(db, tx, req, k0, y)
                     => x.refs.creator_id = y.refs.creator_id
      BY <3>1 DEF Consistent
    <3> QED
      BY <2>7, <3>2
  <2>10. new.refs.creator_id = now.refs.creator_id
    BY <2>4, <2>8, <2>9
  <2>11. PICK y \in {now, q.out.row} :
            k[1] = "llms" => new.refs.provider_connection_id = y.refs.provider_connection_id
    BY <2>4, <2>5, <2>8
  <2> HIDE DEF now
  <2>12. Fits(db, tx, req, k, new)
    BY <1>1, <2>5, <2>7, <2>10, <2>11, DerivedFits
  <2>13. QED
    BY <1>4, <2>3, <2>5, <2>12
<1>5. CASE q.verb = "delete" /\ here
  <2>1. Writes(r) = Delete(v, k0)
    BY <1>5 DEF Writes
  <2>2. k0 \in Keys(v)
    BY <1>1, <1>5, KeysOfView
  <2> DEFINE doomed == Doomed(v, k0)
             nulled == Held(v, doomed, "null") \ doomed
  <2>3. DOMAIN Delete(v, k0) = doomed \cup nulled /\ \A n \in doomed : Delete(v, k0)[n] = Gone
    BY DEF Delete
  <2>4. \A n \in nulled : n[1] \in {"api_keys", "llm_usage"}
    BY <1>1, NulledTables
  <2> HIDE DEF doomed, nulled
  <2>5. k \in doomed
    BY <2>1, <2>3, <2>4 DEF Billing
  <2>6. QED
    BY <1>5, <2>1, <2>2, <2>3, <2>5 DEF doomed
<1>6. CASE ~(q.verb = "create") /\ ~(q.verb = "update" /\ here) /\ ~(q.verb = "delete" /\ here)
  <2>1. Writes(r) = Nothing
    BY <1>6 DEF Writes
  <2>2. QED
    BY <2>1 DEF Nothing
<1>7. QED
  BY <1>3, <1>4, <1>5, <1>6

(* A statement leaves every profile a connection: the foreign key is       *)
(* checked against what it wrote, and a connection takes its profiles      *)
(* along.                                                                  *)
LEMMA FlushSupports ==
    ASSUME TypeInv, LlmInv, Billing \subseteq scene, NEW r \in Requests, req[r].pc = "flush",
           Written(scene, Writes(r)),
           req[r].verb # "delete" => \A k \in DOMAIN Writes(r) :
              ~Dangling(Overlay(View(r), Writes(r)), Writes(r), k)
    PROVE  Supported(Overlay(View(r), Writes(r)))
<1> DEFINE v == View(r)
           w == Writes(r)
           after == Overlay(v, w)
           k0 == <<req[r].table, req[r].id>>
<1>1. /\ ViewOK(scene, v) /\ ViewOK(scene, after) /\ "llms" \in scene /\ "provider_connections" \in scene
      /\ DOMAIN v = scene
  BY ViewIsOK, OverlayOK DEF Billing, ViewOK
<1>2. Refs("llms") = [creator_id |-> Creator,
                      provider_connection_id |-> Ref("provider_connections", "cascade")]
  BY RefsOfTables
<1>3. /\ "provider_connection_id" \in DOMAIN Refs("llms")
      /\ Refs("llms")["provider_connection_id"].to = "provider_connections"
      /\ Refs("llms")["provider_connection_id"].del = "cascade"
  BY <1>2 DEF Ref
<1> SUFFICES ASSUME NEW i \in DOMAIN after["llms"]
             PROVE  after["llms"][i].refs.provider_connection_id \in DOMAIN after["provider_connections"]
  BY DEF Supported
<1> DEFINE x == after["llms"][i]
           p == x.refs.provider_connection_id
<1>4. /\ i \in Ids /\ IsRow("llms", x) /\ Llm(i) \in Billing \X Ids
  BY <1>1 DEF ViewOK, Llm, Billing
<1>5. "provider_connection_id" \in DOMAIN x.refs /\ p \in Ids \cup {NoSuchId}
  BY <1>3, <1>4 DEF IsRow
<1>6. CASE Llm(i) \in DOMAIN w
  <2>1. w[Llm(i)] # Gone /\ x = w[Llm(i)]
    BY <1>1, <1>4, <1>6, OverlayAt DEF Llm
  <2>2. req[r].verb # "delete"
    BY <1>4, <1>6, <2>1, WrittenFits
  <2>3. ~Dangling(after, w, Llm(i))
    BY <1>6, <2>2
  <2>4. p # Null
    BY <1>5, EntitiesAssumption DEF Ids, NoSuchId, Null
  <2>5. Llm(i)[1] = "llms" /\ "provider_connections" \in DOMAIN after
    BY <1>1 DEF Llm, ViewOK
  <2> HIDE DEF after, w
  <2>6. QED
    BY <1>3, <1>5, <2>1, <2>3, <2>4, <2>5 DEF Dangling
<1>7. CASE Llm(i) \notin DOMAIN w
  <2>1. i \in DOMAIN v["llms"] /\ x = v["llms"][i]
    BY <1>1, <1>7, OverlayAt DEF Llm
  <2>2. p \in DOMAIN v["provider_connections"]
    BY <2>1 DEF LlmInv, Supported
  <2>3. p \in Ids /\ Con(p) \in Billing \X Ids
    BY <1>1, <2>2 DEF ViewOK, Con, Billing
  <2>4. ASSUME Con(p) \in DOMAIN w, w[Con(p)] = Gone
        PROVE  FALSE
    <3>1. w = Delete(v, k0) /\ Con(p) \in Doomed(v, k0)
      BY <2>3, <2>4, WrittenFits
    <3>2. Llm(i) \in Keys(v)
      BY <1>1, <2>1, KeysOfView DEF Llm
    <3>3. Llm(i)[1] = "llms" /\ Llm(i)[2] = i
      BY DEF Llm
    <3>4. Points(v, Llm(i), "provider_connection_id", Doomed(v, k0))
      BY <1>3, <2>1, <3>1, <3>3 DEF Points, Con
    <3>5. Llm(i) \in Doomed(v, k0)
      BY <1>3, <3>2, <3>3, <3>4, DoomedChildren
    <3>6. Llm(i) \in DOMAIN w
      BY <3>1, <3>5 DEF Delete
    <3>7. QED
      BY <1>7, <3>6
  <2>5. QED
    BY <1>1, <2>2, <2>3, <2>4, OverlayAt DEF Con
<1>8. QED
  BY <1>6, <1>7

(* Writing twice is writing the later rows over the earlier ones.          *)
LEMMA OverlayTwice ==
    ASSUME NEW d, NEW w, NEW u, Billing \subseteq DOMAIN d, Supported(Overlay(Overlay(d, u), w))
    PROVE  Supported(Overlay(d, Over(w, u)))
<1> DEFINE a == Overlay(d, Over(w, u))
           b == Overlay(Overlay(d, u), w)
<1>1. ASSUME NEW t \in Billing, NEW i
      PROVE  (i \in DOMAIN a[t] <=> i \in DOMAIN b[t]) /\ (i \in DOMAIN a[t] => a[t][i] = b[t][i])
  <2>1. t \in DOMAIN d /\ t \in DOMAIN Overlay(d, u)
    BY DEF Overlay
  <2>2. CASE i \in Ids /\ <<t, i>> \in DOMAIN w
    <3>1. <<t, i>> \in DOMAIN Over(w, u) /\ Over(w, u)[<<t, i>>] = w[<<t, i>>]
      BY <2>2 DEF Over
    <3>2. QED
      BY <2>1, <2>2, <3>1, OverlayAt
  <2>3. CASE i \in Ids /\ <<t, i>> \notin DOMAIN w /\ <<t, i>> \in DOMAIN u
    <3>1. <<t, i>> \in DOMAIN Over(w, u) /\ Over(w, u)[<<t, i>>] = u[<<t, i>>]
      BY <2>3 DEF Over
    <3>2. QED
      BY <2>1, <2>3, <3>1, OverlayAt
  <2>4. CASE ~(i \in Ids /\ <<t, i>> \in DOMAIN w) /\ ~(i \in Ids /\ <<t, i>> \in DOMAIN u)
    <3>1. ~(i \in Ids /\ <<t, i>> \in DOMAIN Over(w, u))
      BY <2>4 DEF Over
    <3>2. QED
      BY <2>1, <2>4, <3>1, OverlayAt
  <2>5. QED
    BY <2>2, <2>3, <2>4
<1>2. "llms" \in Billing /\ "provider_connections" \in Billing
  BY DEF Billing
<1> HIDE DEF a, b
<1>3. Supported(b) => Supported(a)
  BY <1>1, <1>2 DEF Supported
<1>4. QED
  BY <1>3 DEF a, b

\* A statement writes the row that was prepared, or waits, or fails.
LEMMA LlmFlushes ==
    ASSUME TypeInv, LlmInv, NEW r \in Requests, Flush(r)
    PROVE  LlmInv'
<1> DEFINE q == req[r]
           w == Writes(r)
           after == Overlay(View(r), w)
           new == [q EXCEPT !.pc = IF q.left = 1 THEN "commit" ELSE "op", !.left = q.left - 1,
                            !.id = Null, !.old = NoRow, !.out = Refuse(0)]
<1>1. \/ \E status : End(r, status)
      \/ /\ tx' = [tx EXCEPT ![r] = Over(w, @)]
         /\ req' = [req EXCEPT ![r] = new]
         /\ UNCHANGED <<scene, db, reader>>
         /\ ~(q.verb # "delete" /\ \E k \in DOMAIN w : Dangling(after, w, k))
         /\ ~(q.verb = "delete" /\ w # Nothing /\ Restricted(View(r), <<q.table, q.id>>))
  BY ZenonT(60) DEF Flush
<1>2. q.pc = "flush" /\ ~Blocked(r) /\ DOMAIN q = Fields
  BY DEF Flush, TypeInv, RequestOK
<1>3. CASE \E status : End(r, status)
  BY <1>3, LlmEnds
<1>4. ASSUME tx' = [tx EXCEPT ![r] = Over(w, @)], req' = [req EXCEPT ![r] = new],
             UNCHANGED <<scene, db, reader>>,
             ~(q.verb # "delete" /\ \E k \in DOMAIN w : Dangling(after, w, k)),
             ~(q.verb = "delete" /\ w # Nothing /\ Restricted(View(r), <<q.table, q.id>>)),
             Billing \subseteq scene
      PROVE  /\ Consistent(db', tx', req') /\ Supported(db') /\ NotPulled(tx')
             /\ \A s \in Requests : Supported(Overlay(db', tx'[s]))
  <2>1. new.pc # "flush"
    BY <1>2 DEF Fields
  <2>2. /\ tx'[r] = Over(w, tx[r]) /\ req'[r].pc # "flush" /\ db' = db
        /\ \A s \in Requests : s # r => tx'[s] = tx[s] /\ req'[s] = req[s]
    BY <1>4, <2>1 DEF TypeInv
  <2>3. /\ Consistent(db, tx, req) /\ Supported(db) /\ NotPulled(tx)
        /\ \A s \in Requests : Supported(Overlay(db, tx[s]))
    BY <1>4 DEF LlmInv, View
  <2>4. Written(scene, w)
    BY <1>2, <1>4, WritesOK
  <2> DEFINE k0 == <<q.table, q.id>>
  <2>5. \A k \in Billing \X Ids : k \in DOMAIN w =>
          w[k] = Gone \/ (w[k] # Gone /\ k = k0 /\ Fits(db, tx, req, k, w[k]))
    BY <1>2, <1>4, WrittenFits
  <2>6. /\ DOMAIN Over(w, tx[r]) = DOMAIN w \cup DOMAIN tx[r]
        /\ \A k \in DOMAIN w : Over(w, tx[r])[k] = w[k]
        /\ \A k \in DOMAIN tx[r] : k \notin DOMAIN w => Over(w, tx[r])[k] = tx[r][k]
    BY DEF Over
  <2>7. \A n \in Requests : n # r => \A k \in DOMAIN w, m \in DOMAIN tx[n] :
          /\ ~(tx[n][m] = Gone /\ PointsAt(w[k], k[1], m))
          /\ ~(w[k] = Gone /\ PointsAt(tx[n][m], m[1], k))
    <3>1. \A n \in Requests : n # r => ~Waits(r, n)
      BY <1>2 DEF Blocked
    <3>2. QED
      BY <3>1, Zenon DEF Waits
  <2> HIDE DEF w, after, new
  <2>8. Consistent(db', tx', req')
    <3>1. ASSUME NEW k \in Billing \X Ids, NEW x, Version(db', tx', req', k, x)
          PROVE  Version(db, tx, req, k, x) \/ (k \in DOMAIN w /\ w[k] # Gone /\ x = w[k])
      <4>1. CASE k[2] \in DOMAIN db[k[1]] /\ x = db[k[1]][k[2]]
        BY <4>1 DEF Version
      <4>2. ASSUME NEW s \in Requests, k \in DOMAIN tx'[s], tx'[s][k] # Gone, x = tx'[s][k]
            PROVE  Version(db, tx, req, k, x) \/ (k \in DOMAIN w /\ w[k] # Gone /\ x = w[k])
        <5>1. CASE s # r
          BY <2>2, <4>2, <5>1 DEF Version
        <5>2. CASE s = r /\ k \in DOMAIN w
          BY <2>2, <2>6, <4>2, <5>2
        <5>3. CASE s = r /\ k \notin DOMAIN w
          <6>1. k \in DOMAIN tx[r] /\ tx[r][k] # Gone /\ x = tx[r][k]
            BY <2>2, <2>6, <4>2, <5>3
          <6>2. QED
            BY <6>1 DEF Version
        <5>4. QED
          BY <5>1, <5>2, <5>3
      <4>3. ASSUME NEW s \in Requests, req'[s].pc = "flush", req'[s].verb # "delete",
                   <<req'[s].table, req'[s].id>> = k, x = req'[s].out.row
            PROVE  Version(db, tx, req, k, x)
        BY <2>2, <4>3 DEF Version
      <4>4. QED
        BY <2>2, <3>1, <4>1, <4>2, <4>3 DEF Version
    <3>2. CASE k0 \in Billing \X Ids /\ k0 \in DOMAIN w /\ w[k0] # Gone
      <4>1. Fits(db, tx, req, k0, w[k0])
        BY <2>5, <3>2
      <4>2. \A k \in Billing \X Ids : \A x :
              Version(db', tx', req', k, x) => Version(db, tx, req, k, x) \/ (k = k0 /\ x = w[k0])
        BY <2>5, <3>1
      <4> HIDE DEF k0
      <4>3. QED
        BY <2>3, <4>1, <4>2, OneNewVersion
    <3>3. CASE ~(k0 \in Billing \X Ids /\ k0 \in DOMAIN w /\ w[k0] # Gone)
      <4>1. \A k \in Billing \X Ids : \A x :
              Version(db', tx', req', k, x) => Version(db, tx, req, k, x)
        BY <2>5, <3>1, <3>3
      <4>2. QED
        BY <2>3, <4>1, NoNewVersion
    <3>4. QED
      BY <3>2, <3>3
  <2>9. ASSUME NEW s \in Requests
        PROVE  Supported(Overlay(db', tx'[s]))
    <3>1. CASE s # r
      BY <2>2, <2>3, <3>1
    <3>2. CASE s = r
      <4>1. Supported(Overlay(View(r), w))
        BY <1>2, <1>4, <2>4, FlushSupports DEF w, after
      <4>2. Billing \subseteq DOMAIN db
        BY <1>4 DEF TypeInv, ViewOK
      <4>3. Supported(Overlay(db, Over(w, tx[r])))
        BY <4>1, <4>2, OverlayTwice DEF View
      <4>4. QED
        BY <2>2, <3>2, <4>3
    <3>3. QED
      BY <3>1, <3>2
  <2>10. \A i, p \in Ids : \A row :
           IsRow("llms", row) /\ row.refs.provider_connection_id = p => PointsAt(row, Llm(i)[1], Con(p))
    <3>1. Refs("llms") = [creator_id |-> Creator,
                          provider_connection_id |-> Ref("provider_connections", "cascade")]
      BY RefsOfTables
    <3>2. /\ "provider_connection_id" \in DOMAIN Refs("llms")
          /\ Refs("llms")["provider_connection_id"].to = "provider_connections"
      BY <3>1 DEF Ref
    <3>3. \A i : Llm(i)[1] = "llms"
      BY DEF Llm
    <3>4. QED
      BY <3>2, <3>3, RowIsNotGone DEF PointsAt, IsRow, Con
  <2>11. ASSUME NEW a \in Requests, NEW b \in Requests, a # b, NEW i \in Ids, NEW p \in Ids,
                Con(p) \in DOMAIN tx'[a], tx'[a][Con(p)] = Gone,
                Llm(i) \in DOMAIN tx'[b], tx'[b][Llm(i)] # Gone,
                tx'[b][Llm(i)].refs.provider_connection_id = p
         PROVE  FALSE
    <3>1. Llm(i)[1] = "llms"
      BY DEF Llm
    <3>2. \A s \in Requests : \A k \in DOMAIN tx[s] : tx[s][k] = Gone \/ IsRow(k[1], tx[s][k])
      BY DEF TypeInv, Written
    <3>3. \A k \in DOMAIN w : w[k] = Gone \/ IsRow(k[1], w[k])
      BY <2>4 DEF Written
    <3>4. CASE a = r /\ Con(p) \in DOMAIN w
      <4>1. b # r /\ tx'[b] = tx[b] /\ w[Con(p)] = Gone
        BY <2>2, <2>6, <2>11, <3>4
      <4>2. PointsAt(tx[b][Llm(i)], Llm(i)[1], Con(p))
        BY <2>10, <2>11, <3>1, <3>2, <4>1
      <4>3. QED
        BY <2>7, <2>11, <3>4, <4>1, <4>2
    <3>5. CASE b = r /\ Llm(i) \in DOMAIN w
      <4>1. a # r /\ tx'[a] = tx[a] /\ w[Llm(i)] = tx'[b][Llm(i)]
        BY <2>2, <2>6, <2>11, <3>5
      <4>2. PointsAt(w[Llm(i)], Llm(i)[1], Con(p))
        BY <2>10, <2>11, <3>1, <3>3, <3>5, <4>1
      <4>3. QED
        BY <2>7, <2>11, <3>5, <4>1, <4>2
    <3>6. CASE ~(a = r /\ Con(p) \in DOMAIN w) /\ ~(b = r /\ Llm(i) \in DOMAIN w)
      <4>0. \A s \in Requests : \A k : k \in DOMAIN tx'[s] /\ ~(s = r /\ k \in DOMAIN w) =>
               k \in DOMAIN tx[s] /\ tx[s][k] = tx'[s][k]
        <5>1. \A k : k \in DOMAIN tx'[r] /\ k \notin DOMAIN w =>
                 k \in DOMAIN tx[r] /\ tx[r][k] = tx'[r][k]
          BY <2>2, <2>6
        <5>2. QED
          BY <2>2, <5>1
      <4>1. Con(p) \in DOMAIN tx[a] /\ tx[a][Con(p)] = Gone
        BY <2>11, <3>6, <4>0
      <4>2. Llm(i) \in DOMAIN tx[b] /\ tx[b][Llm(i)] = tx'[b][Llm(i)]
        BY <2>11, <3>6, <4>0
      <4>3. QED
        BY <2>3, <2>11, <4>1, <4>2 DEF NotPulled
    <3>7. QED
      BY <3>4, <3>5, <3>6
  <2>12. NotPulled(tx')
    BY <2>11 DEF NotPulled
  <2>13. QED
    BY <2>2, <2>3, <2>8, <2>9, <2>12
<1>5. QED
  BY <1>1, <1>3, <1>4 DEF LlmInv, View

(* A commit shows its rows to the others: what they delete is nothing that *)
(* these rows need, and the reverse.                                       *)
LEMMA CommitSupports ==
    ASSUME TypeInv, LlmInv, Billing \subseteq scene, NEW r \in Requests, NEW s \in Requests, s # r
    PROVE  Supported(Overlay(View(r), tx[s]))
<1> DEFINE new == Overlay(View(r), tx[s])
<1>0. /\ DOMAIN db = scene /\ "llms" \in scene /\ "provider_connections" \in scene
      /\ DOMAIN View(r) = scene /\ ViewOK(scene, db)
  BY ViewIsOK DEF TypeInv, ViewOK, Billing
<1>1. /\ DOMAIN db = scene /\ "llms" \in scene /\ "provider_connections" \in scene
      /\ DOMAIN View(r) = scene /\ ViewOK(scene, db)
      /\ \A j \in Ids : Con(j) \in DOMAIN tx[s] /\ tx[s][Con(j)] = Gone =>
            j \notin DOMAIN View(s)["provider_connections"]
  BY <1>0, OverlayAt DEF Con, View
<1>2. ViewOK(scene, new) /\ ViewOK(scene, View(s)) /\ ViewOK(scene, View(r))
  BY ViewIsOK, OverlayOK DEF TypeInv
<1>3. Supported(View(r)) /\ Supported(View(s)) /\ Supported(db) /\ NotPulled(tx)
  BY DEF LlmInv
<1> SUFFICES ASSUME NEW i \in DOMAIN new["llms"]
             PROVE  new["llms"][i].refs.provider_connection_id \in DOMAIN new["provider_connections"]
  BY DEF Supported
<1> DEFINE x == new["llms"][i]
           p == x.refs.provider_connection_id
<1>4. i \in Ids
  BY <1>1, <1>2 DEF ViewOK
<1>5. CASE Llm(i) \in DOMAIN tx[s]
  <2>1. tx[s][Llm(i)] # Gone /\ x = tx[s][Llm(i)]
    BY <1>1, <1>4, <1>5, OverlayAt DEF Llm
  <2>2. i \in DOMAIN View(s)["llms"] /\ View(s)["llms"][i] = x
    BY <1>1, <1>4, <1>5, <2>1, OverlayAt DEF Llm, View
  <2>3. p \in DOMAIN View(s)["provider_connections"]
    BY <1>3, <2>2 DEF Supported
  <2>4. p \in Ids
    BY <1>1, <1>2, <2>3 DEF ViewOK
  <2>5. CASE Con(p) \in DOMAIN tx[s]
    <3>1. tx[s][Con(p)] # Gone
      BY <1>1, <2>3, <2>4, <2>5, OverlayAt DEF Con, View
    <3>2. QED
      BY <1>1, <2>4, <2>5, <3>1, OverlayAt DEF Con
  <2>6. CASE Con(p) \notin DOMAIN tx[s]
    <3>1. p \in DOMAIN db["provider_connections"]
      BY <1>1, <2>3, <2>6, OverlayAt DEF Con, View
    <3>2. Con(p) \in DOMAIN tx[r] => tx[r][Con(p)] # Gone
      BY <1>3, <1>4, <1>5, <2>1, <2>4 DEF NotPulled
    <3>3. p \in DOMAIN View(r)["provider_connections"]
      BY <1>1, <2>4, <3>1, <3>2, OverlayAt DEF Con, View
    <3>4. QED
      BY <1>1, <2>6, <3>3, OverlayAt DEF Con
  <2>7. QED
    BY <2>5, <2>6
<1>6. CASE Llm(i) \notin DOMAIN tx[s]
  <2>1. i \in DOMAIN View(r)["llms"] /\ x = View(r)["llms"][i]
    BY <1>1, <1>6, OverlayAt DEF Llm
  <2>2. p \in DOMAIN View(r)["provider_connections"]
    BY <1>3, <2>1 DEF Supported
  <2>3. p \in Ids
    BY <1>1, <1>2, <2>2 DEF ViewOK
  <2>4. ASSUME Con(p) \in DOMAIN tx[s], tx[s][Con(p)] = Gone
        PROVE  FALSE
    <3>1. CASE Llm(i) \in DOMAIN tx[r]
      <4>1. tx[r][Llm(i)] # Gone /\ tx[r][Llm(i)] = x
        BY <1>1, <1>4, <2>1, <3>1, OverlayAt DEF Llm, View
      <4>2. QED
        BY <1>3, <1>4, <2>3, <2>4, <3>1, <4>1 DEF NotPulled
    <3>2. CASE Llm(i) \notin DOMAIN tx[r]
      <4>1. i \in DOMAIN db["llms"] /\ db["llms"][i] = x
        BY <1>1, <2>1, <3>2, OverlayAt DEF Llm, View
      <4>2. i \in DOMAIN View(s)["llms"] /\ View(s)["llms"][i] = x
        BY <1>1, <1>6, <4>1, OverlayAt DEF Llm, View
      <4>3. p \in DOMAIN View(s)["provider_connections"]
        BY <1>3, <4>2 DEF Supported
      <4>4. QED
        BY <1>1, <2>3, <2>4, <4>3
    <3>3. QED
      BY <3>1, <3>2
  <2>5. QED
    BY <1>1, <2>2, <2>3, <2>4, OverlayAt DEF Con
<1>7. QED
  BY <1>5, <1>6

\* What is committed was a version before.
LEMMA LlmCommits ==
    ASSUME TypeInv, LlmInv, NEW r \in Requests, Commit(r)
    PROVE  LlmInv'
<1> SUFFICES ASSUME Billing \subseteq scene
             PROVE  /\ Consistent(db', tx', req') /\ Supported(db') /\ NotPulled(tx')
                    /\ \A s \in Requests : Supported(Overlay(db', tx'[s]))
  BY DEF LlmInv, View, Commit
<1>1. Answered(req[r], 200).pc = "done" /\ DOMAIN Nothing = {}
  BY DEF Answered, New, Nothing
<1>2. /\ db' = View(r) /\ tx'[r] = Nothing /\ req'[r].pc = "done"
      /\ \A s \in Requests : s # r => tx'[s] = tx[s] /\ req'[s] = req[s]
  BY <1>1 DEF Commit, TypeInv
<1>3. /\ Consistent(db, tx, req) /\ Supported(View(r)) /\ NotPulled(tx)
      /\ \A s \in Requests : Supported(Overlay(db, tx[s]))
  BY DEF LlmInv, View
<1>4. ASSUME NEW k \in Billing \X Ids, NEW x, Version(db', tx', req', k, x)
      PROVE  Version(db, tx, req, k, x)
  <2>1. CASE k[2] \in DOMAIN View(r)[k[1]] /\ x = View(r)[k[1]][k[2]]
    <3>1. k[1] \in Billing /\ k[1] \in scene /\ k = <<k[1], k[2]>>
      OBVIOUS
    <3>2. QED
      BY <2>1, <3>1, SeenIsVersion
  <2>2. QED
    BY <1>1, <1>2, <1>4, <2>1 DEF Version
<1>5. Consistent(db', tx', req')
  BY <1>3, <1>4, NoNewVersion
<1>6. NotPulled(tx')
  BY <1>1, <1>2, <1>3 DEF NotPulled
<1>7. ASSUME NEW s \in Requests
      PROVE  Supported(Overlay(db', tx'[s]))
  <2>1. CASE s # r
    BY <1>2, <2>1, CommitSupports
  <2>2. CASE s = r
    <3>1. Billing \subseteq DOMAIN View(r)
      BY ViewIsOK DEF ViewOK
    <3>2. Supported(Overlay(View(r), Nothing))
      BY <1>3, <3>1, SupportedByNothing
    <3>3. QED
      BY <1>2, <2>2, <3>2
  <2>3. QED
    BY <2>1, <2>2
<1>8. QED
  BY <1>2, <1>3, <1>5, <1>6, <1>7

\* Every step keeps the invariant.
LEMMA LlmNext ==
    ASSUME TypeInv, LlmInv, [Next]_vars
    PROVE  LlmInv'
<1>1. ASSUME NEW r \in Requests, Step(r)
      PROVE  LlmInv'
  <2>1. ASSUME NEW t \in scene \cap Managed, Anonymous(r, t)
        PROVE  LlmInv'
    <3>1. PICK q : Next1(r, q) /\ q.pc = "done"
      BY <2>1, AnonymousOK, AnsweredOK DEF Anonymous, Statuses
    <3>2. QED
      BY <3>1, LlmGoesOn
  <2>2. ASSUME NEW t \in scene \cap Managed, NEW c \in Callers, Read(r, c, t)
        PROVE  LlmInv'
    <3>1. \E q : Next1(r, q) /\ q.pc = "done"
      <4>1. PICK route \in DOMAIN ReadRoutes[t] \ {"anonymous"}, i \in Ids :
              LET action == ReadRoutes[t][route]
                  status == CASE Scope(c, t, action) = "none" -> 403
                              [] route = "get" /\ i \notin Rows(t, c, action, View(r)) -> 404
                              [] OTHER -> 200
              IN Next1(r, Answered([New EXCEPT !.table = t], status))
        BY <2>2, Zenon DEF Read
      <4>2. \A q, status : Answered(q, status).pc = "done"
        BY DEF Answered, New
      <4>3. QED
        BY <4>1, <4>2
    <3>2. QED
      BY <3>1, LlmGoesOn
  <2>3. ASSUME NEW t \in scene \cap Managed, NEW c \in Callers, NEW n \in 1..MaxOps, Receive(r, c, t, n)
        PROVE  LlmInv'
    <3> DEFINE others == {s \in Requests \ {r} : InProgress(s)}
               q == [New EXCEPT !.pc = "op", !.caller = c, !.table = t, !.left = n,
                                !.alone = (others = {})]
    <3>1. /\ UNCHANGED <<scene, db, tx>>
          /\ req' = [s \in Requests |-> IF s = r THEN q
                                        ELSE IF s \in others THEN [req[s] EXCEPT !.alone = FALSE]
                                        ELSE req[s]]
      BY <2>3, Zenon DEF Receive
    <3>2. q.pc # "flush"
      BY DEF New
    <3> HIDE DEF q, others
    <3>3. ASSUME NEW s \in Requests, s # r
          PROVE  /\ req'[s].pc = req[s].pc /\ req'[s].verb = req[s].verb /\ req'[s].id = req[s].id
                 /\ req'[s].table = req[s].table /\ req'[s].out = req[s].out
      <4>1. req'[s] = req[s] \/ req'[s] = [req[s] EXCEPT !.alone = FALSE]
        BY <3>1, <3>3
      <4>2. DOMAIN req[s] = Fields
        BY DEF TypeInv, RequestOK
      <4>3. QED
        BY <4>1, <4>2 DEF Fields
    <3>4. req'[r].pc # "flush"
      BY <3>1, <3>2
    <3>5. QED
      BY <3>1, <3>3, <3>4, LlmKept
  <2>4. CASE Create(r)
    BY <2>4, LlmCreates
  <2>5. CASE Select(r, "update") \/ Select(r, "delete")
    BY <2>5, LlmSelects
  <2>6. CASE Flush(r)
    BY <2>6, LlmFlushes
  <2>7. CASE Commit(r)
    BY <2>7, LlmCommits
  <2>8. CASE Lost(r) \/ Deadlock(r)
    BY <2>8, LlmEnds DEF Lost, Deadlock
  <2>9. QED
    BY <1>1, <2>1, <2>2, <2>3, <2>4, <2>5, <2>6, <2>7, <2>8 DEF Step
<1>2. CASE UNCHANGED <<scene, db, tx, req>>
  BY <1>2 DEF LlmInv, View
<1>3. QED
  BY <1>1, <1>2 DEF Next, Finished, StartPaging, ReadPage, vars

(* An LLM profile runs on a connection of its own creator, for any number  *)
(* of overlapping and batched requests: the check of create and update     *)
(* (_get_owned_connection of llm_service.py) stays true until the          *)
(* statement runs and until the commit, because creators never change,     *)
(* ids are not used again, a delete takes the profiles of a connection     *)
(* along, and the foreign key makes a writer of a profile and a deleter    *)
(* of its connection wait for each other.                                  *)
THEOREM LlmsBillTheirCreator == Spec => []LlmsUseOwnConnections
<1>1. Init => LlmInv
  BY LlmInit DEF LlmInv
<1>2. TypeInv /\ LlmInv /\ [Next]_vars => LlmInv'
  BY LlmNext
<1>3. TypeInv /\ LlmInv => LlmsUseOwnConnections
  <2> SUFFICES ASSUME TypeInv, LlmInv, {"llms", "provider_connections"} \subseteq scene,
                      NEW i \in DOMAIN db["llms"]
               PROVE  OwnConnection(db, db["llms"][i].refs.provider_connection_id,
                                    db["llms"][i].refs.creator_id)
    BY DEF LlmsUseOwnConnections
  <2> DEFINE x == db["llms"][i]
             p == x.refs.provider_connection_id
             y == db["provider_connections"][p]
  <2>1. Billing \subseteq scene
    BY DEF Billing
  <2>2. p \in DOMAIN db["provider_connections"]
    BY <2>1 DEF LlmInv, Supported
  <2>3. i \in Ids /\ p \in Ids
    BY <2>2 DEF TypeInv, ViewOK
  <2>4. Version(db, tx, req, Llm(i), x) /\ Version(db, tx, req, Con(p), y)
    BY <2>2 DEF Version, Llm, Con
  <2>5. x.refs.creator_id = y.refs.creator_id
    <3>1. x.refs.provider_connection_id = p
      OBVIOUS
    <3> HIDE DEF x, y, p
    <3>2. Consistent(db, tx, req)
      BY <2>1 DEF LlmInv
    <3>3. \A v, w : Version(db, tx, req, Llm(i), v) /\ Version(db, tx, req, Con(p), w)
                    /\ v.refs.provider_connection_id = p => v.refs.creator_id = w.refs.creator_id
      BY <2>3, <3>2 DEF Consistent
    <3> QED
      BY <2>4, <3>1, <3>3
  <2>6. QED
    BY <2>2, <2>5 DEF OwnConnection
<1>4. QED
  BY <1>1, <1>2, <1>3, Types, PTL DEF Spec

-----------------------------------------------------------------------------
(* Foreign keys.                                                           *)

(* Every foreign key that is set names a row, if its table is in play.     *)
Anchored(v, t, row) ==
    \A c \in DOMAIN Refs(t) :
        Refs(t)[c].to \in DOMAIN v /\ row.refs[c] # Null => row.refs[c] \in DOMAIN v[Refs(t)[c].to]
Referenced(v) == \A t \in DOMAIN v : \A i \in DOMAIN v[t] : Anchored(v, t, v[t][i])

(* No two transactions write the same row, and none deletes a row that a   *)
(* row of another one points at.                                           *)
Exclusive(w) == \A r, s \in Requests : r # s => DOMAIN w[r] \cap DOMAIN w[s] = {}
Unpulled(w) ==
    \A r, s \in Requests : r # s =>
        \A n \in DOMAIN w[r], k \in DOMAIN w[s] : ~(w[r][n] = Gone /\ PointsAt(w[s][k], k[1], n))

(* The row that a request is about.                                        *)
KeyOf(q) == <<q.table, q.id>>

KeyInv ==
    /\ Referenced(db) /\ Exclusive(tx) /\ Unpulled(tx)
    /\ \A r \in Requests : Referenced(View(r))

(* How far a delete's cascade has come when it reaches a table.            *)
Level(t) ==
    IF t \in {"users", "oauth_clients", "allowed_origins", "roles", "feature_flags"} THEN 0
    ELSE IF t \in {"idp_access_tokens", "llms", "group_users", "mcp_usage", "conversation_records"} THEN 2
    ELSE IF t \in {"llm_usage", "events"} THEN 3 ELSE 1

\* A foreign key that a delete follows leads from a lower table to a higher one.
LEMMA LevelsRise ==
    ASSUME NEW t \in Tables, NEW c \in DOMAIN Refs(t), Refs(t)[c].del # "restrict"
    PROVE  Level(Refs(t)[c].to) < Level(t)
<1>1. CASE t \in {"users", "oauth_clients", "allowed_origins", "roles", "feature_flags"}
  BY <1>1, RefsOfTables
<1>2. CASE t \in {"idp_access_tokens", "llms", "group_users", "mcp_usage", "conversation_records"}
  BY <1>2, RefsOfTables, SMTT(60) DEF Level, Ref, Creator
<1>3. CASE t \in {"llm_usage", "events"}
  BY <1>3, RefsOfTables, SMTT(60) DEF Level, Ref, Creator
<1>4. CASE t \notin {"users", "oauth_clients", "allowed_origins", "roles", "feature_flags",
                     "idp_access_tokens", "llms", "group_users", "mcp_usage", "conversation_records",
                     "llm_usage", "events"}
  <2>1. Level(t) = 1
    BY <1>4 DEF Level
  <2>2. Refs(t)[c].to \in {"users", "oauth_clients", "roles", "feature_flags"}
    BY <1>4, TablesAre, RefsOfTables, SMTT(100) DEF Ref, Creator
  <2>3. QED
    BY <2>1, <2>2 DEF Level
<1>5. QED
  BY <1>1, <1>2, <1>3, <1>4

\* No cascade is longer than three steps.
LEMMA LevelsAre == \A t : Level(t) \in 0..3
BY DEF Level

(* What a delete takes along lies above the deleted row, and what hangs on *)
(* it is taken along as well: three steps of the cascade are all there are.*)
LEMMA DoomedAbove ==
    ASSUME NEW S \in Scenes, NEW v, ViewOK(S, v), NEW k \in Keys(v)
    PROVE  /\ \A p \in Doomed(v, k) : p = k \/ Level(k[1]) < Level(p[1])
           /\ \A n \in Keys(v) : \A c \in DOMAIN Refs(n[1]) :
                Refs(n[1])[c].del = "cascade" /\ Points(v, n, c, Doomed(v, k)) => n \in Doomed(v, k)
<1> DEFINE A == Cascade(v, {k})
           B == Cascade(v, A)
           C == Cascade(v, B)
           On(n, c) == <<Refs(n[1])[c].to, v[n[1]][n[2]].refs[c]>>
<1>1. Doomed(v, k) = C
  BY DEF Doomed
<1>2. \A n \in Keys(v) : n[1] \in Tables
  BY KeysOfView, ResourcesAssumption
<1>3. ASSUME NEW X, NEW n \in Keys(v), NEW c \in DOMAIN Refs(n[1]), Refs(n[1])[c].del = "cascade"
      PROVE  /\ On(n, c) \in X => n \in Cascade(v, X)
             /\ Level(On(n, c)[1]) < Level(n[1])
  <2>1. Level(Refs(n[1])[c].to) < Level(n[1])
    BY <1>2, <1>3, LevelsRise
  <2>2. On(n, c) \in X => n \in Held(v, X, "cascade")
    BY <1>3 DEF Held, Points
  <2>3. QED
    BY <2>1, <2>2 DEF Cascade
<1>4. ASSUME NEW X, NEW n \in Cascade(v, X), n \notin X
      PROVE  n \in Keys(v) /\ \E c \in DOMAIN Refs(n[1]) : Refs(n[1])[c].del = "cascade" /\ On(n, c) \in X
  <2>1. n \in Held(v, X, "cascade")
    BY <1>4 DEF Cascade
  <2>2. QED
    BY <2>1 DEF Held, Points
<1>5. k \in A /\ A \subseteq B /\ B \subseteq C
  BY DEF Cascade
<1>6. \A t : Level(t) \in 0..3
  BY LevelsAre
<1> HIDE DEF A, B, C, On
<1>7. ASSUME NEW n \in A, n # k
      PROVE  Level(k[1]) < Level(n[1]) /\ n \in Keys(v)
  <2>1. PICK c \in DOMAIN Refs(n[1]) : Refs(n[1])[c].del = "cascade" /\ On(n, c) \in {k} /\ n \in Keys(v)
    BY <1>4, <1>7 DEF A
  <2>2. QED
    BY <1>3, <2>1
<1>8. ASSUME NEW n \in B, n \notin A
      PROVE  Level(k[1]) + 1 < Level(n[1]) /\ n \in Keys(v)
  <2>1. PICK c \in DOMAIN Refs(n[1]) : Refs(n[1])[c].del = "cascade" /\ On(n, c) \in A /\ n \in Keys(v)
    BY <1>4, <1>8 DEF B
  <2>2. On(n, c) # k
    BY <1>3, <1>8, <2>1 DEF A
  <2>3. Level(k[1]) < Level(On(n, c)[1]) /\ Level(On(n, c)[1]) < Level(n[1])
    BY <1>3, <1>7, <2>1, <2>2
  <2>4. QED
    BY <1>6, <2>1, <2>3
<1>9. ASSUME NEW n \in C, n \notin B
      PROVE  Level(k[1]) + 2 < Level(n[1]) /\ n \in Keys(v)
  <2>1. PICK c \in DOMAIN Refs(n[1]) : Refs(n[1])[c].del = "cascade" /\ On(n, c) \in B /\ n \in Keys(v)
    BY <1>4, <1>9 DEF C
  <2>2. On(n, c) \notin A
    BY <1>3, <1>9, <2>1 DEF B
  <2>3. Level(k[1]) + 1 < Level(On(n, c)[1]) /\ Level(On(n, c)[1]) < Level(n[1])
    BY <1>3, <1>8, <2>1, <2>2
  <2>4. QED
    BY <1>6, <2>1, <2>3
<1>10. ASSUME NEW p \in C
       PROVE  p = k \/ Level(k[1]) < Level(p[1])
  <2>1. Level(k[1]) \in 0..3 /\ Level(p[1]) \in 0..3
    BY <1>6
  <2>2. QED
    BY <1>7, <1>8, <1>9, <2>1
<1>11. ASSUME NEW n \in Keys(v), NEW c \in DOMAIN Refs(n[1]), Refs(n[1])[c].del = "cascade",
              Points(v, n, c, C)
       PROVE  n \in C
  <2>1. On(n, c) \in C
    BY <1>11 DEF Points, On
  <2>2. CASE On(n, c) \in B
    BY <1>3, <1>11, <2>2 DEF C
  <2>3. CASE On(n, c) \notin B
    <3>1. Level(k[1]) + 2 < Level(On(n, c)[1]) /\ Level(On(n, c)[1]) < Level(n[1])
      BY <1>3, <1>9, <1>11, <2>1, <2>3
    <3>2. Level(k[1]) \in 0..3 /\ Level(n[1]) \in 0..3 /\ Level(On(n, c)[1]) \in 0..3
      BY <1>6
    <3>3. QED
      BY <3>1, <3>2
  <2>4. QED
    BY <2>2, <2>3
<1>12. QED
  BY <1>1, <1>10, <1>11

(* Whoever was taken along hangs on one that was; what a delete only       *)
(* unlinks hangs on one by a column that may be empty.                     *)
LEMMA DoomedHang ==
    ASSUME NEW v, NEW k, NEW n \in Doomed(v, k), n # k
    PROVE  n \in Keys(v) /\ \E c \in DOMAIN Refs(n[1]) :
              Refs(n[1])[c].del = "cascade" /\ Points(v, n, c, Doomed(v, k))
<1>1. \A X, Y : X \subseteq Y /\ Y \subseteq Doomed(v, k) => \A m \in Held(v, X, "cascade") :
         m \in Keys(v) /\ \E c \in DOMAIN Refs(m[1]) :
              Refs(m[1])[c].del = "cascade" /\ Points(v, m, c, Doomed(v, k))
  BY DEF Held, Points
<1> DEFINE A == Cascade(v, {k})
           B == Cascade(v, A)
<1>2. /\ Doomed(v, k) = B \cup Held(v, B, "cascade") /\ B = A \cup Held(v, A, "cascade")
      /\ A = {k} \cup Held(v, {k}, "cascade")
  BY DEF Doomed, Cascade
<1> HIDE DEF A, B
<1>3. B \subseteq Doomed(v, k) /\ A \subseteq Doomed(v, k) /\ {k} \subseteq Doomed(v, k)
  BY <1>2
<1>4. n \in Held(v, B, "cascade") \/ n \in Held(v, A, "cascade") \/ n \in Held(v, {k}, "cascade")
  BY <1>2
<1>5. QED
  BY <1>1, <1>3, <1>4

(* Two views with the same rows.                                           *)
Same(a, b) ==
    /\ DOMAIN a = DOMAIN b
    /\ \A t \in DOMAIN a : \A i : /\ i \in DOMAIN a[t] <=> i \in DOMAIN b[t]
                                  /\ i \in DOMAIN a[t] => a[t][i] = b[t][i]

\* Foreign keys are about rows.
LEMMA ReferencedSame ==
    ASSUME NEW a, NEW b, Same(a, b), Referenced(b)
    PROVE  Referenced(a)
<1> SUFFICES ASSUME NEW t \in DOMAIN a, NEW i \in DOMAIN a[t], NEW c \in DOMAIN Refs(t),
                    Refs(t)[c].to \in DOMAIN a, a[t][i].refs[c] # Null
             PROVE  a[t][i].refs[c] \in DOMAIN a[Refs(t)[c].to]
  BY Zenon DEF Referenced, Anchored
<1>1. t \in DOMAIN b /\ i \in DOMAIN b[t] /\ a[t][i] = b[t][i] /\ Refs(t)[c].to \in DOMAIN b
  BY DEF Same
<1>2. b[t][i].refs[c] \in DOMAIN b[Refs(t)[c].to]
  BY <1>1, Zenon DEF Referenced, Anchored
<1>3. QED
  BY <1>1, <1>2, Zenon DEF Same

\* A transaction that wrote nothing sees what is committed.
LEMMA SeesCommitted ==
    ASSUME NEW v
    PROVE  Same(Overlay(v, Nothing), v)
<1>1. DOMAIN Nothing = {}
  BY DEF Nothing
<1>2. DOMAIN Overlay(v, Nothing) = DOMAIN v
  BY DEF Overlay
<1>3. ASSUME NEW t \in DOMAIN v, NEW i
      PROVE  /\ i \in DOMAIN Overlay(v, Nothing)[t] <=> i \in DOMAIN v[t]
             /\ i \in DOMAIN v[t] => Overlay(v, Nothing)[t][i] = v[t][i]
  <2>1. ~(i \in Ids /\ <<t, i>> \in DOMAIN Nothing)
    BY <1>1
  <2>2. QED
    BY <2>1, OverlayAt
<1>4. QED
  BY <1>2, <1>3 DEF Same

\* Writing twice is writing the later rows over the earlier ones.
LEMMA SeesBoth ==
    ASSUME NEW d, NEW w, NEW u
    PROVE  Same(Overlay(d, Over(w, u)), Overlay(Overlay(d, u), w))
<1> DEFINE a == Overlay(d, Over(w, u))
           b == Overlay(Overlay(d, u), w)
<1>1. ASSUME NEW t \in DOMAIN d, NEW i
      PROVE  (i \in DOMAIN a[t] <=> i \in DOMAIN b[t]) /\ (i \in DOMAIN a[t] => a[t][i] = b[t][i])
  <2>1. t \in DOMAIN d /\ t \in DOMAIN Overlay(d, u)
    BY DEF Overlay
  <2>2. CASE i \in Ids /\ <<t, i>> \in DOMAIN w
    <3>1. <<t, i>> \in DOMAIN Over(w, u) /\ Over(w, u)[<<t, i>>] = w[<<t, i>>]
      BY <2>2 DEF Over
    <3>2. QED
      BY <2>1, <2>2, <3>1, OverlayAt
  <2>3. CASE i \in Ids /\ <<t, i>> \notin DOMAIN w /\ <<t, i>> \in DOMAIN u
    <3>1. <<t, i>> \in DOMAIN Over(w, u) /\ Over(w, u)[<<t, i>>] = u[<<t, i>>]
      BY <2>3 DEF Over
    <3>2. QED
      BY <2>1, <2>3, <3>1, OverlayAt
  <2>4. CASE ~(i \in Ids /\ <<t, i>> \in DOMAIN w) /\ ~(i \in Ids /\ <<t, i>> \in DOMAIN u)
    <3>1. ~(i \in Ids /\ <<t, i>> \in DOMAIN Over(w, u))
      BY <2>4 DEF Over
    <3>2. QED
      BY <2>1, <2>4, <3>1, OverlayAt
  <2>5. QED
    BY <2>2, <2>3, <2>4
<1>2. DOMAIN a = DOMAIN d /\ DOMAIN b = DOMAIN d
  BY DEF Overlay
<1> HIDE DEF a, b
<1>3. Same(a, b)
  BY <1>1, <1>2 DEF Same
<1>4. QED
  BY <1>3 DEF a, b

\* The tables whose rows others point at and that have no routes are seeded alike.
LEMMA ParentsAreManaged ==
    ASSUME NEW t \in Tables, NEW c \in DOMAIN Refs(t)
    PROVE  Refs(t)[c].to \in Managed \/ (t \notin Managed /\ Refs(t)[c].to \in Tables)
<1>1. t \in {"idp_access_tokens"} \/ Refs(t)[c].to # "idp_refresh_tokens"
  BY TablesAre, RefsOfTables, SMTT(100) DEF Ref, Creator
<1>2. Refs(t)[c].to \in {"users", "roles", "idp_refresh_tokens", "oauth_clients", "oauth_providers",
         "provider_connections", "feature_flags", "groups", "llms", "mcp_server_configs",
         "sandbox_templates", "sandbox_configs", "conversation_records"}
  BY TablesAre, RefsOfTables, SMTT(100) DEF Ref, Creator
<1>3. QED
  BY <1>1, <1>2, ManagedAre, TablesAre

\* At the start every foreign key holds and nothing is written.
LEMMA KeyInit ==
    ASSUME Init
    PROVE  KeyInv
<1>0. TypeInv
  BY TypeInit
<1>1. PICK n \in 0..Seeded :
          db = [t \in scene |-> [i \in 1..(IF t \in Managed \/ n = 0 THEN n ELSE 1) |-> SeedRow(t, i)]]
  BY DEF Init, Seeds
<1>2. scene \subseteq Tables /\ n \in Nat
  BY <1>0, ResourcesAssumption, EntitiesAssumption DEF TypeInv
<1>3. Referenced(db)
  <2> SUFFICES ASSUME NEW t \in DOMAIN db, NEW i \in DOMAIN db[t], NEW c \in DOMAIN Refs(t),
                      Refs(t)[c].to \in DOMAIN db
               PROVE  db[t][i].refs[c] \in DOMAIN db[Refs(t)[c].to]
    BY Zenon DEF Referenced, Anchored
  <2>1. t \in scene /\ Refs(t)[c].to \in scene /\ t \in Tables
    BY <1>1, <1>2
  <2>2. db[t] = [j \in 1..(IF t \in Managed \/ n = 0 THEN n ELSE 1) |-> SeedRow(t, j)]
    BY <1>1, <2>1
  <2>3. i \in 1..(IF t \in Managed \/ n = 0 THEN n ELSE 1) /\ db[t][i] = SeedRow(t, i)
    BY <2>2
  <2>4. db[t][i].refs[c] = i
    BY <2>3 DEF SeedRow
  <2>5. DOMAIN db[Refs(t)[c].to] = 1..(IF Refs(t)[c].to \in Managed \/ n = 0 THEN n ELSE 1)
    BY <1>1, <2>1
  <2>6. Refs(t)[c].to \in Managed \/ t \notin Managed
    BY <2>1, ParentsAreManaged
  <2>7. i \in 1..(IF Refs(t)[c].to \in Managed \/ n = 0 THEN n ELSE 1)
    BY <1>2, <2>3, <2>6
  <2>8. QED
    BY <2>4, <2>5, <2>7
<1>4. \A r \in Requests : tx[r] = Nothing /\ DOMAIN tx[r] = {}
  BY DEF Init, Nothing
<1>5. Exclusive(tx) /\ Unpulled(tx)
  BY <1>4 DEF Exclusive, Unpulled
<1>6. \A r \in Requests : Referenced(View(r))
  BY <1>3, <1>4, SeesCommitted, ReferencedSame DEF View
<1>7. QED
  BY <1>3, <1>5, <1>6 DEF KeyInv

\* A step that takes rows out of transactions only.
LEMMA KeyKept ==
    ASSUME TypeInv, KeyInv, UNCHANGED <<scene, db>>,
           \A s \in Requests : tx'[s] = tx[s] \/ tx'[s] = Nothing
    PROVE  KeyInv'
<1>1. DOMAIN Nothing = {}
  BY DEF Nothing
<1>2. Exclusive(tx') /\ Unpulled(tx')
  BY <1>1 DEF KeyInv, Exclusive, Unpulled
<1>3. ASSUME NEW s \in Requests
      PROVE  Referenced(Overlay(db', tx'[s]))
  <2>1. Referenced(Overlay(db, tx[s])) /\ Referenced(db)
    BY DEF KeyInv, View
  <2>2. Referenced(Overlay(db, Nothing))
    BY <2>1, SeesCommitted, ReferencedSame
  <2>3. QED
    BY <2>1, <2>2
<1>4. QED
  BY <1>2, <1>3 DEF KeyInv, View

-----------------------------------------------------------------------------
(* What a statement writes, key by key.                                    *)

\* Rows beside the resource get an id that nobody has, holds or names.
LEMMA AddedIs ==
    ASSUME TypeInv, NEW r \in Requests, NEW n \in DOMAIN Added(req[r])
    PROVE  \E a \in req[r].out.add :
             /\ n[1] = a.table /\ n[2] \in FreeIds(a.table) /\ n = <<n[1], n[2]>>
             /\ Added(req[r])[n] = Attach(a, req[r].id)
<1> DEFINE q == req[r]
           a == CHOOSE a \in q.out.add : TRUE
           k == <<a.table, Min(FreeIds(a.table))>>
<1>1. q.out.add # {} /\ HasRoom(q)
  BY DEF Added, Nothing
<1>2. Added(q) = One(k, Attach(a, q.id))
  BY <1>1 DEF Added
<1>3. a \in q.out.add
  BY <1>1
<1>4. FreeIds(a.table) # {}
  BY <1>1, <1>3 DEF HasRoom
<1>5. FreeIds(a.table) \in SUBSET Nat
  BY FreeIdsOK DEF Ids
<1>6. Min(FreeIds(a.table)) \in FreeIds(a.table)
  BY <1>4, <1>5, MinIsLeast
<1>7. k[1] = a.table /\ k[2] \in FreeIds(a.table) /\ k = <<k[1], k[2]>>
  BY <1>6
<1> HIDE DEF a, k
<1>8. n = k /\ Added(q)[n] = Attach(a, q.id)
  BY <1>2 DEF One
<1>9. QED
  BY <1>3, <1>7, <1>8

(* What a create or an update writes: the row itself, the rows beside it,  *)
(* and the mark of those it replaces.                                      *)
LEMMA WritesBeside ==
    ASSUME TypeInv, NEW r \in Requests, req[r].pc = "flush", req[r].verb # "delete",
           NEW n \in DOMAIN Writes(r)
    PROVE  LET q == req[r] IN
           \/ /\ n = KeyOf(q) /\ IsRow(q.table, Writes(r)[n])
              /\ \/ q.verb = "create" /\ Writes(r)[n] = q.out.row
                 \/ /\ q.verb = "update" /\ q.id \in DOMAIN View(r)[q.table]
                    /\ Writes(r)[n] = Merge(q.old, q.out, View(r)[q.table][q.id])
           \/ \E a \in q.out.add :
                /\ n[1] = a.table /\ n[2] \in FreeIds(a.table) /\ n = <<n[1], n[2]>>
                /\ Writes(r)[n] = Attach(a, q.id) /\ IsRow(a.table, Writes(r)[n])
           \/ n \in q.out.drop /\ Writes(r)[n] = Gone
<1> DEFINE q == req[r]
           v == View(r)
           k == <<q.table, q.id>>
           here == q.id \in DOMAIN v[q.table]
           add == Added(q)
           drop == [m \in q.out.drop |-> Gone]
           extra == Over(add, drop)
<1>1. RequestOK(scene, q) /\ ViewOK(scene, v) /\ q.table \in scene /\ q.id \in Ids
  BY ViewIsOK DEF TypeInv, RequestOK
<1>2. /\ DOMAIN extra = DOMAIN add \cup q.out.drop
      /\ \A m \in DOMAIN add : extra[m] = add[m]
      /\ \A m \in q.out.drop : m \notin DOMAIN add => extra[m] = Gone
  BY DEF Over
<1>3. ASSUME NEW m \in DOMAIN add
      PROVE  \E a \in q.out.add : /\ m[1] = a.table /\ m[2] \in FreeIds(a.table) /\ m = <<m[1], m[2]>>
                                  /\ add[m] = Attach(a, q.id) /\ IsRow(a.table, add[m])
  <2>1. PICK a \in q.out.add : /\ m[1] = a.table /\ m[2] \in FreeIds(a.table) /\ m = <<m[1], m[2]>>
                               /\ add[m] = Attach(a, q.id)
    BY <1>3, AddedIs
  <2>2. IsRow(a.table, Attach(a, q.id))
    BY <1>1 DEF RequestOK, Payload
  <2>3. QED
    BY <2>1, <2>2
<1>4. q.verb # "create" /\ ~(q.verb = "update" /\ here) => Writes(r) = Nothing
  BY DEF Writes
<1>5. n \in {} => FALSE
  OBVIOUS
<1>6. q.verb = "create" \/ (q.verb = "update" /\ here)
  BY <1>4, <1>5 DEF Nothing
<1> HIDE DEF add, extra, drop
<1>7. CASE q.verb = "create"
  <2>1. Writes(r) = Over(One(k, q.out.row), extra)
    BY <1>7 DEF Writes, extra, add, drop
  <2>2. IsRow(q.table, q.out.row)
    BY <1>1, <1>7 DEF RequestOK, Payload
  <2>3. \/ n = k /\ Writes(r)[n] = q.out.row
        \/ n \in DOMAIN extra /\ Writes(r)[n] = extra[n]
    BY <2>1 DEF Over, One
  <2>4. QED
    BY <1>2, <1>3, <1>7, <2>2, <2>3 DEF KeyOf
<1>8. CASE q.verb = "update" /\ here
  <2> DEFINE new == Merge(q.old, q.out, v[q.table][q.id])
  <2>1. Writes(r) = Over(One(k, new), extra)
    BY <1>8 DEF Writes, extra, add, drop
  <2>2. IsRow(q.table, new)
    BY <1>1, <1>8, MergeOK DEF RequestOK, Payload, ViewOK
  <2>3. \/ n = k /\ Writes(r)[n] = new
        \/ n \in DOMAIN extra /\ Writes(r)[n] = extra[n]
    BY <2>1 DEF Over, One
  <2> HIDE DEF new
  <2>4. QED
    BY <1>2, <1>3, <1>8, <2>2, <2>3 DEF KeyOf, new
<1>9. QED
  BY <1>6, <1>7, <1>8

\* What a delete writes: the mark of the rows it takes along, and the rows it unlinks.
LEMMA DeleteMarks ==
    ASSUME NEW v, NEW k \in Keys(v)
    PROVE  /\ DOMAIN Delete(v, k) = Doomed(v, k) \cup Held(v, Doomed(v, k), "null")
           /\ DOMAIN Delete(v, k) \subseteq Keys(v)
           /\ \A n \in Doomed(v, k) : Delete(v, k)[n] = Gone
<1> DEFINE doomed == Doomed(v, k)
           nulled == Held(v, doomed, "null") \ doomed
           Unlink(n) == LET row == v[n[1]][n[2]]
                        IN [row EXCEPT !.refs = [c \in DOMAIN row.refs |->
                               IF Points(v, n, c, doomed) THEN Null ELSE row.refs[c]]]
<1>1. Delete(v, k) = [n \in doomed \cup nulled |-> IF n \in doomed THEN Gone ELSE Unlink(n)]
  BY DEF Delete
<1>2. doomed \subseteq Keys(v) /\ nulled \subseteq Keys(v)
  BY DoomedAreRows DEF Held
<1> HIDE DEF Unlink, doomed
<1>3. DOMAIN Delete(v, k) = doomed \cup nulled /\ \A n \in doomed : Delete(v, k)[n] = Gone
  BY <1>1
<1>4. QED
  BY <1>2, <1>3 DEF doomed

(* The rows it unlinks lie in other tables than the deleted one, and lose  *)
(* nothing but their pointers to rows that go.                             *)
LEMMA DeleteUnlinks ==
    ASSUME NEW S \in Scenes, NEW v, ViewOK(S, v), NEW k \in Keys(v),
           NEW n \in DOMAIN Delete(v, k), n \notin Doomed(v, k)
    PROVE  /\ n[1] # k[1] /\ Delete(v, k)[n] # Gone
           /\ Delete(v, k)[n].name = v[n[1]][n[2]].name /\ Delete(v, k)[n].val = v[n[1]][n[2]].val
           /\ DOMAIN Delete(v, k)[n].refs = DOMAIN Refs(n[1])
           /\ \A c \in DOMAIN Refs(n[1]) : Delete(v, k)[n].refs[c] =
                IF Points(v, n, c, Doomed(v, k)) THEN Null ELSE v[n[1]][n[2]].refs[c]
<1> DEFINE doomed == Doomed(v, k)
           nulled == Held(v, doomed, "null") \ doomed
           row == v[n[1]][n[2]]
           new == [row EXCEPT !.refs = [c \in DOMAIN row.refs |->
                      IF Points(v, n, c, doomed) THEN Null ELSE row.refs[c]]]
<1>1. Delete(v, k)[n] = new /\ n \in nulled
  BY Zenon, DeleteMarks DEF Delete
<1>2. n \in Keys(v) /\ IsRow(n[1], row) /\ n[1] \in Tables /\ k[1] \in Tables
  BY <1>1, KeysOfView, ResourcesAssumption DEF Held
<1>3. /\ new.name = row.name /\ new.val = row.val
      /\ new.refs = [c \in DOMAIN row.refs |-> IF Points(v, n, c, doomed) THEN Null ELSE row.refs[c]]
  BY <1>2 DEF IsRow
<1>4. new # Gone
  BY <1>2, <1>3 DEF IsRow, Gone
<1>5. n[1] # k[1]
  <2>1. PICK c \in DOMAIN Refs(n[1]) : Refs(n[1])[c].del = "null" /\ Points(v, n, c, doomed)
    BY <1>1 DEF Held
  <2>2. PICK p \in doomed : p[1] = Refs(n[1])[c].to
    BY <2>1 DEF Points
  <2>3. Level(p[1]) < Level(n[1])
    BY <1>2, <2>1, <2>2, LevelsRise
  <2>4. p = k \/ Level(k[1]) < Level(p[1])
    BY DoomedAbove
  <2>5. Level(p[1]) \in 0..3 /\ Level(n[1]) \in 0..3 /\ Level(k[1]) \in 0..3
    BY LevelsAre
  <2>6. QED
    BY <2>3, <2>4, <2>5
<1> HIDE DEF new
<1>6. QED
  BY <1>1, <1>2, <1>3, <1>4, <1>5 DEF IsRow

\* A delete's statement, when its row is still there; otherwise it writes nothing.
LEMMA DeleteWrites ==
    ASSUME TypeInv, NEW r \in Requests, req[r].pc = "flush", req[r].verb = "delete"
    PROVE  \/ KeyOf(req[r]) \in Keys(View(r)) /\ Writes(r) = Delete(View(r), KeyOf(req[r]))
           \/ Writes(r) = Nothing
<1> DEFINE q == req[r]
<1>1. q.table \in scene /\ ViewOK(scene, View(r))
  BY ViewIsOK DEF TypeInv, RequestOK
<1>2. CASE q.id \in DOMAIN View(r)[q.table]
  <2>1. KeyOf(q) \in Keys(View(r))
    BY <1>1, <1>2, KeysOfView DEF KeyOf
  <2>2. Writes(r) = Delete(View(r), KeyOf(q))
    BY <1>2 DEF Writes, KeyOf
  <2>3. QED
    BY <2>1, <2>2
<1>3. CASE q.id \notin DOMAIN View(r)[q.table]
  BY <1>3 DEF Writes
<1>4. QED
  BY <1>2, <1>3

-----------------------------------------------------------------------------
(* What each step of a request does to it and to the others.               *)

Others(r) == \A s \in Requests \ {r} : req'[s] = req[s] /\ tx'[s] = tx[s]

\* Two states of a request that differ in whether somebody overlapped it.
Like(p, q) ==
    /\ p.pc = q.pc /\ p.caller = q.caller /\ p.table = q.table /\ p.verb = q.verb /\ p.id = q.id
    /\ p.old = q.old /\ p.out = q.out /\ p.asked = q.asked /\ p.ans = q.ans

\* A request that has passed its checks and is about to run its statement.
Ready(p, q, verb, i, old, out) ==
    /\ p.pc = "flush" /\ p.verb = verb /\ p.id = i /\ p.old = old /\ p.out = out
    /\ p.caller = q.caller /\ p.table = q.table /\ p.alone = q.alone /\ p.ans = q.ans

MayDo(q, action, row) ==
    IgnoresFilter(q.table) \/ Matches(q.caller, q.table, action, row)

\* An answer rolls back.
LEMMA EndIs ==
    ASSUME TypeInv, NEW r \in Requests, NEW status, End(r, status)
    PROVE  /\ UNCHANGED <<scene, db>> /\ Others(r) /\ tx'[r] = Nothing
           /\ req'[r].pc = "done" /\ req'[r].ans = status /\ req'[r].table = req[r].table
           /\ req'[r].verb = req[r].verb /\ req'[r].alone = req[r].alone
<1>1. req'[r] = Answered(req[r], status) /\ tx'[r] = Nothing /\ Others(r) /\ UNCHANGED <<scene, db>>
  BY DEF End, TypeInv, Others
<1>2. QED
  BY <1>1 DEF Answered, New

\* A request goes on.
LEMMA Next1Is ==
    ASSUME TypeInv, NEW r \in Requests, NEW q, Next1(r, q)
    PROVE  UNCHANGED <<scene, db, tx>> /\ Others(r) /\ req'[r] = q
BY DEF Next1, TypeInv, Others

\* A read route, and any route without credentials, answers and that is all.
LEMMA ReadIs ==
    ASSUME TypeInv, NEW r \in Requests, NEW t \in Managed,
           Anonymous(r, t) \/ \E c \in Callers : Read(r, c, t)
    PROVE  /\ UNCHANGED <<scene, db, tx>> /\ Others(r)
           /\ req[r].pc = "new" /\ req'[r].pc = "done" /\ req'[r].ans # 500
<1>1. \E status \in Statuses \ {500} : Next1(r, Answered([New EXCEPT !.table = t], status))
  <2>1. CASE Anonymous(r, t)
    BY <2>1, AnonymousOK DEF Anonymous, Statuses
  <2>2. ASSUME NEW c \in Callers, Read(r, c, t)
        PROVE  \E status \in Statuses \ {500} : Next1(r, Answered([New EXCEPT !.table = t], status))
    <3>1. PICK route \in DOMAIN ReadRoutes[t] \ {"anonymous"}, i \in Ids :
            LET action == ReadRoutes[t][route]
                status == CASE Scope(c, t, action) = "none" -> 403
                            [] route = "get" /\ i \notin Rows(t, c, action, View(r)) -> 404
                            [] OTHER -> 200
            IN Next1(r, Answered([New EXCEPT !.table = t], status))
      BY <2>2, Zenon DEF Read
    <3> DEFINE action == ReadRoutes[t][route]
               status == CASE Scope(c, t, action) = "none" -> 403
                           [] route = "get" /\ i \notin Rows(t, c, action, View(r)) -> 404
                           [] OTHER -> 200
    <3>2. Next1(r, Answered([New EXCEPT !.table = t], status))
      BY <3>1
    <3>3. status \in {403, 404, 200}
      OBVIOUS
    <3> HIDE DEF status
    <3>4. QED
      BY <3>2, <3>3 DEF Statuses
  <2>3. QED
    BY <2>1, <2>2
<1>2. \A status : Answered([New EXCEPT !.table = t], status).pc = "done"
                  /\ Answered([New EXCEPT !.table = t], status).ans = status
  BY DEF Answered, New
<1>3. req[r].pc = "new"
  BY DEF Anonymous, Read
<1>4. QED
  BY <1>1, <1>2, <1>3, Next1Is

\* A write route begins; those in progress learn that they are not alone.
LEMMA ReceiveIs ==
    ASSUME TypeInv, NEW r \in Requests, NEW c \in Callers, NEW t \in scene \cap Managed, NEW n,
           Receive(r, c, t, n)
    PROVE  /\ UNCHANGED <<scene, db, tx>> /\ MaySend(c)
           /\ req[r].pc = "new" /\ req'[r].pc = "op" /\ req'[r].caller = c /\ req'[r].table = t
           /\ req'[r].ans = 0 /\ (req'[r].alone <=> \A s \in Requests \ {r} : ~InProgress(s))
           /\ \A s \in Requests \ {r} :
                /\ Like(req'[s], req[s])
                /\ req'[s].alone => req[s].alone /\ ~InProgress(s)
<1> DEFINE others == {s \in Requests \ {r} : InProgress(s)}
           q == [New EXCEPT !.pc = "op", !.caller = c, !.table = t, !.left = n,
                            !.alone = (others = {})]
<1>1. /\ UNCHANGED <<scene, db, tx>> /\ MaySend(c) /\ req[r].pc = "new"
      /\ req' = [s \in Requests |-> IF s = r THEN q
                                    ELSE IF s \in others THEN [req[s] EXCEPT !.alone = FALSE]
                                    ELSE req[s]]
  BY Zenon DEF Receive
<1>2. /\ q.pc = "op" /\ q.caller = c /\ q.table = t /\ q.ans = 0
      /\ (q.alone <=> \A s \in Requests \ {r} : ~InProgress(s))
  BY DEF New
<1> HIDE DEF q
<1>3. ASSUME NEW s \in Requests \ {r}
      PROVE  Like(req'[s], req[s]) /\ (req'[s].alone => req[s].alone /\ ~InProgress(s))
  <2>1. DOMAIN req[s] = Fields
    BY DEF TypeInv, RequestOK
  <2>2. CASE s \in others
    <3>1. req'[s] = [req[s] EXCEPT !.alone = FALSE]
      BY <1>1, <2>2
    <3>2. QED
      BY <2>1, <3>1 DEF Like, Fields
  <2>3. CASE s \notin others
    <3>1. req'[s] = req[s] /\ ~InProgress(s)
      BY <1>1, <2>3
    <3>2. QED
      BY <3>1 DEF Like
  <2>4. QED
    BY <2>2, <2>3
<1>4. req'[r] = q
  BY <1>1
<1>5. QED
  BY <1>1, <1>2, <1>3, <1>4

\* A create is refused, or its row is one that the caller may create, under a free id.
LEMMA CreateIs ==
    ASSUME TypeInv, NEW r \in Requests, Create(r)
    PROVE  /\ req[r].pc = "op"
           /\ \/ \E status \in Statuses \ {500} : End(r, status)
              \/ \E o \in Creates(req[r].table, req[r].caller, View(r)), i \in FreeIds(req[r].table) :
                   /\ o.refuse = 0 /\ MayDo(req[r], "CREATE", o.row)
                   /\ UNCHANGED <<scene, db, tx>> /\ Others(r)
                   /\ Ready(req'[r], req[r], "create", i, NoRow, o) /\ req'[r].asked = req[r].asked
<1> DEFINE q == [req[r] EXCEPT !.verb = "create"]
           t == q.table
           c == q.caller
           Prepared(o, i) == [q EXCEPT !.pc = "flush", !.id = i, !.old = NoRow, !.out = o]
<1>1. /\ req[r].pc = "op" /\ DOMAIN req[r] = Fields /\ q.caller = req[r].caller /\ q.table = req[r].table
      /\ req[r].table \in Managed
  BY DEF Create, TypeInv, RequestOK, Fields
<1>2. \/ End(r, 403)
      \/ \E o \in Creates(t, c, View(r)) :
           \/ End(r, o.refuse)
           \/ End(r, WriteErrors[t].scope)
           \/ /\ o.refuse = 0 /\ (Matches(c, t, "CREATE", o.row) \/ IgnoresFilter(t))
              /\ \E i \in FreeIds(t) : Next1(r, Prepared(o, i))
  BY Zenon DEF Create
<1>3. ASSUME NEW o, NEW i, Next1(r, Prepared(o, i))
      PROVE  /\ UNCHANGED <<scene, db, tx>> /\ Others(r)
             /\ Ready(req'[r], req[r], "create", i, NoRow, o) /\ req'[r].asked = req[r].asked
  <2>1. Ready(Prepared(o, i), req[r], "create", i, NoRow, o) /\ Prepared(o, i).asked = req[r].asked
    BY <1>1 DEF Ready, Fields
  <2> HIDE DEF Prepared
  <2>2. QED
    BY <1>3, <2>1, Next1Is
<1> HIDE DEF Prepared
<1>4. \A o \in Creates(t, c, View(r)) : o.refuse \in Statuses \ {500}
  BY <1>1, CreateStatuses
<1>5. WriteErrors[t].scope \in Statuses \ {500} /\ 403 \in Statuses \ {500}
  BY <1>1, ErrorsOK DEF Statuses
<1> HIDE DEF q
<1>6. QED
  BY <1>1, <1>2, <1>3, <1>4, <1>5 DEF MayDo

\* Filters that open a route as a whole show its rows; all others are looked at row by row.
LEMMA RowsAreMatched ==
    ASSUME NEW t \in Managed, NEW c, NEW action, NEW v, NEW i \in Rows(t, c, action, v)
    PROVE  IgnoresFilter(t) \/ Matches(c, t, action, v[t][i])
<1>1. \A u : \A j \in Matching(c, u, action, v) : Matches(c, u, action, v[u][j])
  BY DEF Matching
<1>2. t = "allowed_origins" => IgnoresFilter(t)
  BY DEF IgnoresFilter
<1>3. QED
  BY <1>1, <1>2, ManagedAre, SMTT(60)
     DEF Rows, UserRows, RoleRows, UserRoleRows, ApiKeyRows, OAuthClientRows, FlagRows, FlagRoleRows,
         FlagUserRows, GroupRows, GroupUserRows, SecretProviderRows, StaticSecretRows,
         OAuthProviderRows, MCPServerConfigRows, ConnectionRows, LlmRows, TemplateRows, ConfigRows,
         ConversationRows

\* An update or a delete is refused, or holds a row that the caller may change.
LEMMA SelectIs ==
    ASSUME TypeInv, NEW r \in Requests, NEW verb \in {"update", "delete"}, Select(r, verb)
    PROVE  /\ req[r].pc = "op"
           /\ \/ \E status \in Statuses \ {500} : End(r, status)
              \/ \E i \in DOMAIN View(r)[req[r].table] : LET old == View(r)[req[r].table][i] IN
                   /\ UNCHANGED <<scene, db, tx>> /\ Others(r)
                   /\ MayDo(req[r], ActionOf[verb], old) /\ i \in Ids /\ IsRow(req[r].table, old)
                   /\ \/ /\ verb = "delete" /\ Ready(req'[r], req[r], "delete", i, old, Write(NoRow))
                         /\ req'[r].asked = req[r].asked
                      \/ /\ verb = "update"
                         /\ \E o \in Patches(req[r].table, req[r].caller, View(r), i) :
                              /\ o.refuse = 0 /\ Ready(req'[r], req[r], "update", i, old, o)
                              /\ req'[r].asked = req[r].asked \cup ({i} \X Changes(old, o))
<1> DEFINE q == [req[r] EXCEPT !.verb = verb]
           t == q.table
           c == q.caller
           v == View(r)
           action == ActionOf[verb]
           Held1(i) == [q EXCEPT !.pc = "flush", !.id = i, !.old = v[t][i]]
           Gone1(i) == [Held1(i) EXCEPT !.out = Write(NoRow)]
           Asked(i, o) == [Held1(i) EXCEPT !.out = o, !.asked = @ \cup ({i} \X Changes(v[t][i], o))]
<1>0. req[r].pc = "op" /\ RequestOK(scene, req[r]) /\ ViewOK(scene, v) /\ verb \in Verbs[t]
  BY ViewIsOK DEF Select, TypeInv
<1>1. /\ req[r].pc = "op" /\ DOMAIN req[r] = Fields /\ q.caller = req[r].caller /\ q.table = req[r].table
      /\ req[r].table \in Managed /\ req[r].table \in scene /\ ViewOK(scene, v) /\ verb \in Verbs[t]
  BY <1>0 DEF RequestOK, Fields
<1>2. \/ End(r, 403)
      \/ End(r, WriteErrors[t].missing)
      \/ \E i \in Ids : i \in Rows(t, c, action, v) /\
           \/ verb = "delete" /\ Next1(r, Gone1(i))
           \/ verb # "delete" /\ \E o \in Patches(t, c, v, i) :
                \/ End(r, o.refuse)
                \/ o.refuse = 0 /\ Next1(r, Asked(i, o))
  BY Zenon DEF Select
<1>3. ASSUME NEW i \in Ids, i \in Rows(t, c, action, v)
      PROVE  i \in DOMAIN v[t] /\ MayDo(req[r], action, v[t][i]) /\ IsRow(t, v[t][i])
  BY <1>1, <1>3, RowsInTable, RowsAreMatched DEF MayDo, ViewOK
<1>4. ASSUME NEW i, verb = "delete", Next1(r, Gone1(i))
      PROVE  /\ UNCHANGED <<scene, db, tx>> /\ Others(r) /\ req'[r].asked = req[r].asked
             /\ Ready(req'[r], req[r], "delete", i, v[t][i], Write(NoRow))
  <2>1. Ready(Gone1(i), req[r], "delete", i, v[t][i], Write(NoRow)) /\ Gone1(i).asked = req[r].asked
    BY <1>1, <1>4 DEF Ready, Fields
  <2> HIDE DEF Gone1
  <2>2. QED
    BY <1>4, <2>1, Next1Is
<1>5. ASSUME NEW i, NEW o, verb = "update", Next1(r, Asked(i, o))
      PROVE  /\ UNCHANGED <<scene, db, tx>> /\ Others(r)
             /\ req'[r].asked = req[r].asked \cup ({i} \X Changes(v[t][i], o))
             /\ Ready(req'[r], req[r], "update", i, v[t][i], o)
  <2>1. /\ Ready(Asked(i, o), req[r], "update", i, v[t][i], o)
        /\ Asked(i, o).asked = req[r].asked \cup ({i} \X Changes(v[t][i], o))
    BY <1>1, <1>5 DEF Ready, Fields
  <2> HIDE DEF Asked
  <2>2. QED
    BY <1>5, <2>1, Next1Is
<1> HIDE DEF Gone1, Asked
<1>6. ASSUME verb = "update", NEW i \in Ids, i \in Rows(t, c, action, v)
      PROVE  \A o \in Patches(t, c, v, i) : o.refuse \in Statuses \ {500}
  <2>1. i \in DOMAIN v[t]
    BY <1>3, <1>6
  <2>2. QED
    BY <1>1, <1>6, <2>1, PatchStatuses
<1>7. WriteErrors[t].missing \in Statuses \ {500} /\ 403 \in Statuses \ {500}
  BY <1>1, ErrorsOK DEF Statuses
<1> HIDE DEF q, v
<1>8. ASSUME NEW i \in Ids, i \in Rows(t, c, action, v), verb = "delete", Next1(r, Gone1(i))
      PROVE  \E j \in DOMAIN v[req[r].table] : LET old == v[req[r].table][j] IN
                   /\ UNCHANGED <<scene, db, tx>> /\ Others(r)
                   /\ MayDo(req[r], ActionOf[verb], old) /\ j \in Ids /\ IsRow(req[r].table, old)
                   /\ verb = "delete" /\ Ready(req'[r], req[r], "delete", j, old, Write(NoRow))
                   /\ req'[r].asked = req[r].asked
  BY <1>1, <1>3, <1>4, <1>8
<1>9. ASSUME NEW i \in Ids, i \in Rows(t, c, action, v), verb = "update",
             NEW o \in Patches(t, c, v, i), o.refuse = 0, Next1(r, Asked(i, o))
      PROVE  \E j \in DOMAIN v[req[r].table] : LET old == v[req[r].table][j] IN
                   /\ UNCHANGED <<scene, db, tx>> /\ Others(r)
                   /\ MayDo(req[r], ActionOf[verb], old) /\ j \in Ids /\ IsRow(req[r].table, old)
                   /\ verb = "update"
                   /\ \E p \in Patches(req[r].table, req[r].caller, v, j) :
                        /\ p.refuse = 0 /\ Ready(req'[r], req[r], "update", j, old, p)
                        /\ req'[r].asked = req[r].asked \cup ({j} \X Changes(old, p))
  BY <1>1, <1>3, <1>5, <1>9
<1>10. CASE End(r, 403) \/ End(r, WriteErrors[t].missing)
  BY <1>1, <1>7, <1>10
<1>11. ASSUME NEW i \in Ids, i \in Rows(t, c, action, v), verb = "update",
              NEW o \in Patches(t, c, v, i), End(r, o.refuse)
       PROVE  \E status \in Statuses \ {500} : End(r, status)
  BY <1>6, <1>11
<1>12. \/ \E status \in Statuses \ {500} : End(r, status)
       \/ \E i \in Ids : i \in Rows(t, c, action, v) /\ verb = "delete" /\ Next1(r, Gone1(i))
       \/ \E i \in Ids : i \in Rows(t, c, action, v) /\ verb = "update" /\ \E o \in Patches(t, c, v, i) :
             o.refuse = 0 /\ Next1(r, Asked(i, o))
  BY <1>2, <1>7, <1>11
<1>13. QED
  BY <1>1, <1>8, <1>9, <1>12 DEF v

\* A statement fails, or its rows join those of the transaction.
LEMMA FlushIs ==
    ASSUME TypeInv, NEW r \in Requests, Flush(r)
    PROVE  LET q == req[r]
               w == Writes(r)
               after == Overlay(View(r), w)
           IN /\ q.pc = "flush" /\ ~Blocked(r)
              /\ \/ \E status : /\ End(r, status)
                                /\ \/ Stale(r)
                                   \/ /\ q.verb # "delete" /\ status = WriteErrors[q.table].unique
                                      /\ \E k \in DOMAIN w : Collides(after, w, k)
                                   \/ /\ q.verb # "delete" /\ status = WriteErrors[q.table].fk
                                      /\ \E k \in DOMAIN w : Dangling(after, w, k)
                                   \/ /\ q.verb = "delete" /\ status = WriteErrors[q.table].restrict
                                      /\ w # Nothing /\ Restricted(View(r), KeyOf(q))
                 \/ /\ UNCHANGED <<scene, db>> /\ Others(r) /\ Written(scene, w)
                    /\ tx'[r] = Over(w, tx[r])
                    /\ q.verb # "delete" => \A k \in DOMAIN w : ~Dangling(after, w, k)
                    /\ q.verb = "delete" /\ w # Nothing => ~Restricted(View(r), KeyOf(q))
                    /\ req'[r].pc \in {"op", "commit"} /\ req'[r].caller = q.caller
                    /\ req'[r].table = q.table /\ req'[r].asked = q.asked
                    /\ req'[r].alone = q.alone /\ req'[r].ans = q.ans
<1> DEFINE q == req[r]
           w == Writes(r)
           after == Overlay(View(r), w)
           new == [q EXCEPT !.pc = IF q.left = 1 THEN "commit" ELSE "op", !.left = q.left - 1,
                            !.id = Null, !.old = NoRow, !.out = Refuse(0)]
<1>1. q.pc = "flush" /\ ~Blocked(r) /\ DOMAIN q = Fields
  BY DEF Flush, TypeInv, RequestOK
<1>2. \/ Stale(r) /\ End(r, 500)
      \/ /\ q.verb # "delete" /\ \E k \in DOMAIN w : Collides(after, w, k)
         /\ End(r, WriteErrors[q.table].unique)
      \/ /\ q.verb # "delete" /\ \E k \in DOMAIN w : Dangling(after, w, k)
         /\ End(r, WriteErrors[q.table].fk)
      \/ /\ q.verb = "delete" /\ w # Nothing /\ Restricted(View(r), <<q.table, q.id>>)
         /\ End(r, WriteErrors[q.table].restrict)
      \/ /\ tx' = [tx EXCEPT ![r] = Over(w, @)]
         /\ req' = [req EXCEPT ![r] = new]
         /\ UNCHANGED <<scene, db, reader>>
         /\ ~(q.verb # "delete" /\ \E k \in DOMAIN w : Dangling(after, w, k))
         /\ ~(q.verb = "delete" /\ w # Nothing /\ Restricted(View(r), <<q.table, q.id>>))
  <2> DEFINE A == Stale(r)
             B == q.verb # "delete" /\ \E k \in DOMAIN w : Collides(after, w, k)
             C == q.verb # "delete" /\ \E k \in DOMAIN w : Dangling(after, w, k)
             D == q.verb = "delete" /\ w # Nothing /\ Restricted(View(r), <<q.table, q.id>>)
             go == /\ tx' = [tx EXCEPT ![r] = Over(w, @)]
                   /\ req' = [req EXCEPT ![r] = new]
                   /\ UNCHANGED <<scene, db, reader>>
  <2>1. CASE A
    BY <2>1, Zenon DEF Flush
  <2>2. CASE ~A /\ B
    <3>1. ASSUME ~A, B, ~C, ~D
          PROVE  End(r, WriteErrors[q.table].unique)
      BY <3>1, ZenonT(60) DEF Flush
    <3>2. ASSUME ~A, B, C, ~D
          PROVE  End(r, WriteErrors[q.table].unique) \/ End(r, WriteErrors[q.table].fk)
      BY <3>2, ZenonT(60) DEF Flush
    <3>3. B => ~D
      OBVIOUS
    <3>4. QED
      BY <2>2, <3>1, <3>2, <3>3, Zenon
  <2>3. CASE ~A /\ ~B /\ C
    <3>1. End(r, WriteErrors[q.table].fk)
      BY <2>3, ZenonT(60) DEF Flush
    <3>2. QED
      BY <2>3, <3>1
  <2>4. CASE ~A /\ ~B /\ ~C /\ D
    <3>1. End(r, WriteErrors[q.table].restrict)
      BY <2>4, ZenonT(60) DEF Flush
    <3>2. QED
      BY <2>4, <3>1
  <2>5. CASE ~A /\ ~B /\ ~C /\ ~D
    <3>1. go
      BY <2>5, ZenonT(60) DEF Flush
    <3>2. QED
      BY <2>5, <3>1
  <2>6. QED
    BY <2>1, <2>2, <2>3, <2>4, <2>5
<1>3. ASSUME NEW status, End(r, status),
             \/ Stale(r)
             \/ /\ q.verb # "delete" /\ status = WriteErrors[q.table].unique
                /\ \E k \in DOMAIN w : Collides(after, w, k)
             \/ /\ q.verb # "delete" /\ status = WriteErrors[q.table].fk
                /\ \E k \in DOMAIN w : Dangling(after, w, k)
             \/ /\ q.verb = "delete" /\ status = WriteErrors[q.table].restrict
                /\ w # Nothing /\ Restricted(View(r), <<q.table, q.id>>)
      PROVE  \E st : /\ End(r, st)
                     /\ \/ Stale(r)
                        \/ /\ q.verb # "delete" /\ st = WriteErrors[q.table].unique
                           /\ \E k \in DOMAIN w : Collides(after, w, k)
                        \/ /\ q.verb # "delete" /\ st = WriteErrors[q.table].fk
                           /\ \E k \in DOMAIN w : Dangling(after, w, k)
                        \/ /\ q.verb = "delete" /\ st = WriteErrors[q.table].restrict
                           /\ w # Nothing /\ Restricted(View(r), <<q.table, q.id>>)
  BY <1>3, Zenon
<1>4. ASSUME tx' = [tx EXCEPT ![r] = Over(w, @)], req' = [req EXCEPT ![r] = new],
             UNCHANGED <<scene, db, reader>>,
             q.verb # "delete" => \A k \in DOMAIN w : ~Dangling(after, w, k),
             q.verb = "delete" /\ w # Nothing => ~Restricted(View(r), <<q.table, q.id>>)
      PROVE  /\ UNCHANGED <<scene, db>> /\ Others(r) /\ Written(scene, w)
             /\ tx'[r] = Over(w, tx[r])
             /\ req'[r].pc \in {"op", "commit"} /\ req'[r].caller = q.caller
             /\ req'[r].table = q.table /\ req'[r].asked = q.asked
             /\ req'[r].alone = q.alone /\ req'[r].ans = q.ans
  <2>1. Written(scene, w)
    BY <1>1, <1>4, WritesOK DEF KeyOf
  <2>2. /\ new.pc \in {"op", "commit"} /\ new.caller = q.caller /\ new.table = q.table
        /\ new.asked = q.asked /\ new.alone = q.alone /\ new.ans = q.ans
    BY <1>1 DEF Fields
  <2> HIDE DEF new, w
  <2>3. req'[r] = new /\ tx'[r] = Over(w, tx[r]) /\ Others(r)
    BY <1>4 DEF TypeInv, Others
  <2>4. QED
    BY <1>4, <2>1, <2>2, <2>3
<1>6. KeyOf(q) = <<q.table, q.id>>
  BY DEF KeyOf
<1> HIDE DEF new, w, after
<1>5. QED
  BY <1>1, <1>2, <1>3, <1>4, <1>6 DEF w, after

\* A commit makes what the request sees what everybody sees.
LEMMA CommitIs ==
    ASSUME TypeInv, NEW r \in Requests, Commit(r)
    PROVE  /\ req[r].pc = "commit" /\ db' = View(r) /\ UNCHANGED scene /\ Others(r) /\ tx'[r] = Nothing
           /\ req'[r].pc = "done" /\ req'[r].ans = 200
<1>1. Answered(req[r], 200).pc = "done" /\ Answered(req[r], 200).ans = 200
  BY DEF Answered, New
<1>2. QED
  BY <1>1 DEF Commit, TypeInv, Others

\* A step of a request, in these terms.
LEMMA StepIs ==
    ASSUME TypeInv, NEW r \in Requests, Step(r)
    PROVE  \/ \E t \in scene \cap Managed : Anonymous(r, t) \/ \E c \in Callers : Read(r, c, t)
           \/ \E t \in scene \cap Managed, c \in Callers : \E n : Receive(r, c, t, n)
           \/ Create(r) \/ (\E verb \in {"update", "delete"} : Select(r, verb))
           \/ Flush(r) \/ Commit(r)
           \/ \E status : End(r, status) /\ (status # 500 \/ (Deadlock(r) /\ status = 500))
<1>1. Lost(r) => \E status : End(r, status) /\ status # 500
  BY DEF Lost
<1>2. Deadlock(r) => End(r, 500)
  BY DEF Deadlock
<1>3. QED
  BY <1>1, <1>2 DEF Step

-----------------------------------------------------------------------------
(* Every foreign key names a row.                                          *)

\* Nothing points at a redirect URI.
LEMMA UrisHaveNoChildren ==
    ASSUME NEW t \in Tables, NEW c \in DOMAIN Refs(t)
    PROVE  Refs(t)[c].to # "oauth_client_redirect_uris"
BY TablesAre, RefsOfTables, SMTT(100) DEF Ref, Creator

\* What a foreign key that holds says.
LEMMA ReferencedAt ==
    ASSUME NEW S \in Scenes, NEW v, ViewOK(S, v), Referenced(v), NEW t \in S, NEW i \in DOMAIN v[t],
           NEW c \in DOMAIN Refs(t), Refs(t)[c].to \in S, v[t][i].refs[c] # Null
    PROVE  /\ v[t][i].refs[c] \in DOMAIN v[Refs(t)[c].to] /\ v[t][i].refs[c] \in Ids
           /\ <<t, i>> \in S \X Ids /\ <<Refs(t)[c].to, v[t][i].refs[c]>> \in S \X Ids
<1>1. DOMAIN v = S /\ DOMAIN v[t] \subseteq Ids /\ DOMAIN v[Refs(t)[c].to] \subseteq Ids
  BY DEF ViewOK
<1>2. v[t][i].refs[c] \in DOMAIN v[Refs(t)[c].to]
  BY <1>1, Zenon DEF Referenced, Anchored
<1>3. QED
  BY <1>1, <1>2

(* A statement leaves no foreign key without its row: what it writes was   *)
(* checked, and what it removes takes along, empties or is kept by whatever *)
(* points at it.                                                           *)
LEMMA FlushReferenced ==
    ASSUME TypeInv, KeyInv, NEW r \in Requests, req[r].pc = "flush", Written(scene, Writes(r)),
           req[r].verb # "delete" => \A k \in DOMAIN Writes(r) :
              ~Dangling(Overlay(View(r), Writes(r)), Writes(r), k),
           req[r].verb = "delete" /\ Writes(r) # Nothing => ~Restricted(View(r), KeyOf(req[r]))
    PROVE  Referenced(Overlay(View(r), Writes(r)))
<1> DEFINE v == View(r)
           w == Writes(r)
           after == Overlay(v, w)
           k0 == KeyOf(req[r])
<1>1. /\ ViewOK(scene, v) /\ ViewOK(scene, after) /\ DOMAIN v = scene /\ DOMAIN after = scene
      /\ scene \in Scenes /\ scene \subseteq Tables /\ Referenced(v)
  BY ViewIsOK, OverlayOK, ResourcesAssumption DEF ViewOK, TypeInv, KeyInv
<1> HIDE DEF v, w, after, k0
<1> SUFFICES ASSUME NEW t \in scene, NEW i \in DOMAIN after[t], NEW c \in DOMAIN Refs(t),
                    Refs(t)[c].to \in scene, after[t][i].refs[c] # Null
             PROVE  after[t][i].refs[c] \in DOMAIN after[Refs(t)[c].to]
  BY <1>1, Zenon DEF Referenced, Anchored, after, v, w
<1> DEFINE n == <<t, i>>
           x == after[t][i]
           P == Refs(t)[c].to
           p == x.refs[c]
<1>2. /\ t \in Tables /\ i \in Ids /\ n \in scene \X Ids /\ IsRow(t, x) /\ c \in DOMAIN x.refs
      /\ n[1] = t /\ n[2] = i
  BY <1>1 DEF ViewOK, IsRow
<1>3. /\ n \in DOMAIN w => w[n] # Gone /\ x = w[n]
      /\ n \notin DOMAIN w => i \in DOMAIN v[t] /\ x = v[t][i]
  BY <1>1, <1>2, OverlayAt DEF after
<1>4. ASSUME p \in DOMAIN v[P], p \in Ids, ~(<<P, p>> \in DOMAIN w /\ w[<<P, p>>] = Gone)
      PROVE  p \in DOMAIN after[P]
  BY <1>1, <1>4, OverlayAt DEF after
<1>9. ASSUME i \in DOMAIN v[t], v[t][i].refs[c] # Null
      PROVE  v[t][i].refs[c] \in DOMAIN v[P] /\ v[t][i].refs[c] \in Ids
  BY <1>1, <1>9, ReferencedAt
<1>5. n \notin DOMAIN w => p \in DOMAIN v[P] /\ p \in Ids
  BY <1>3, <1>9
<1>6. CASE req[r].verb # "delete"
  <2>1. CASE n \in DOMAIN w
    <3>1. ~Dangling(after, w, n)
      BY <1>6, <2>1 DEF after, w, v
    <3>2. P \in DOMAIN after /\ w[n].refs[c] = p /\ w[n].refs[c] # Null
      BY <1>1, <1>3, <2>1
    <3>3. c \in DOMAIN w[n].refs /\ w[n] # Gone
      BY <1>2, <1>3, <2>1
    <3>4. QED
      BY <1>2, <3>1, <3>2, <3>3 DEF Dangling
  <2>2. CASE n \notin DOMAIN w
    <3>1. ASSUME <<P, p>> \in DOMAIN w, w[<<P, p>>] = Gone
          PROVE  FALSE
      <4>1. <<P, p>> \in req[r].out.drop
        BY <1>6, <3>1, WritesBeside, RowIsNotGone DEF w
      <4>2. P = "oauth_client_redirect_uris"
        BY <1>6, <4>1 DEF TypeInv, RequestOK, Payload
      <4>3. QED
        BY <1>2, <4>2, UrisHaveNoChildren
    <3>2. QED
      BY <1>4, <1>5, <2>2, <3>1
  <2>3. QED
    BY <2>1, <2>2
<1>7. CASE req[r].verb = "delete"
  <2>1. CASE w = Nothing
    <3>1. DOMAIN w = {}
      BY <2>1 DEF Nothing
    <3>2. QED
      BY <1>4, <1>5, <3>1
  <2>2. CASE w # Nothing
    <3>1. k0 \in Keys(v) /\ w = Delete(v, k0) /\ ~Restricted(v, k0)
      BY <1>7, <2>2, DeleteWrites DEF w, v, k0
    <3>2. /\ DOMAIN w = Doomed(v, k0) \cup Held(v, Doomed(v, k0), "null")
          /\ \A m \in Doomed(v, k0) : w[m] = Gone
          /\ DOMAIN w \subseteq Keys(v)
          /\ \A m \in DOMAIN w : m \notin Doomed(v, k0) => w[m] # Gone /\
               \A d \in DOMAIN Refs(m[1]) :
                  w[m].refs[d] = IF Points(v, m, d, Doomed(v, k0)) THEN Null ELSE v[m[1]][m[2]].refs[d]
      <4>1. /\ DOMAIN Delete(v, k0) = Doomed(v, k0) \cup Held(v, Doomed(v, k0), "null")
            /\ \A m \in Doomed(v, k0) : Delete(v, k0)[m] = Gone
            /\ DOMAIN Delete(v, k0) \subseteq Keys(v)
        BY <3>1, DeleteMarks
      <4>2. ASSUME NEW m \in DOMAIN Delete(v, k0), m \notin Doomed(v, k0)
            PROVE  Delete(v, k0)[m] # Gone /\ \A d \in DOMAIN Refs(m[1]) :
                     Delete(v, k0)[m].refs[d] =
                        IF Points(v, m, d, Doomed(v, k0)) THEN Null ELSE v[m[1]][m[2]].refs[d]
        BY <1>1, <3>1, <4>2, DeleteUnlinks
      <4>3. w = Delete(v, k0)
        BY <3>1
      <4>4. QED
        BY <4>1, <4>2, <4>3
    <3>3. n \in Keys(v) /\ i \in DOMAIN v[t]
      BY <1>1, <1>2, <1>3, <3>2, KeysOfView
    <3>4. ~Points(v, n, c, Doomed(v, k0)) /\ p = v[t][i].refs[c]
      <4>1. CASE n \in DOMAIN w
        <5>1. n \notin Doomed(v, k0)
          BY <1>3, <3>2, <4>1
        <5>2. p = IF Points(v, n, c, Doomed(v, k0)) THEN Null ELSE v[t][i].refs[c]
          BY <1>2, <1>3, <3>2, <4>1, <5>1
        <5>3. QED
          BY <5>2
      <4>2. CASE n \notin DOMAIN w
        <5>1. p = v[t][i].refs[c]
          BY <1>3, <4>2
        <5>2. ASSUME Points(v, n, c, Doomed(v, k0))
              PROVE  FALSE
          <6>1. Refs(n[1])[c].del # "cascade"
            BY <1>1, <1>2, <3>1, <3>2, <3>3, <4>2, <5>2, DoomedAbove
          <6>2. Refs(n[1])[c].del # "null"
            BY <1>2, <3>2, <3>3, <4>2, <5>2 DEF Held
          <6>3. Refs(n[1])[c].del # "restrict"
            BY <1>2, <3>1, <3>3, <5>2 DEF Restricted, Held
          <6>4. QED
            BY <1>2, <6>1, <6>2, <6>3, DeleteKinds
        <5>3. QED
          BY <5>1, <5>2
      <4>3. QED
        BY <4>1, <4>2
    <3>5. p \in DOMAIN v[P] /\ p \in Ids
      BY <1>9, <3>3, <3>4
    <3>6. <<P, p>> \notin Doomed(v, k0)
      BY <1>2, <3>4 DEF Points
    <3>7. QED
      BY <1>4, <3>2, <3>5, <3>6
  <2>3. QED
    BY <2>1, <2>2
<1>8. QED
  BY <1>6, <1>7

\* A row that names another one points at it.
LEMMA RowPoints ==
    ASSUME NEW t, NEW row, IsRow(t, row), NEW c \in DOMAIN Refs(t)
    PROVE  PointsAt(row, t, <<Refs(t)[c].to, row.refs[c]>>)
BY RowIsNotGone DEF PointsAt, IsRow

(* A commit shows its rows to the others: what they delete is nothing that *)
(* these rows need, and the reverse.                                       *)
LEMMA CommitReferenced ==
    ASSUME TypeInv, KeyInv, NEW r \in Requests, NEW s \in Requests, s # r
    PROVE  Referenced(Overlay(View(r), tx[s]))
<1> DEFINE new == Overlay(View(r), tx[s])
<1>1. /\ DOMAIN db = scene /\ DOMAIN View(r) = scene /\ DOMAIN View(s) = scene /\ DOMAIN new = scene
      /\ ViewOK(scene, db) /\ ViewOK(scene, View(r)) /\ ViewOK(scene, View(s)) /\ ViewOK(scene, new)
      /\ scene \in Scenes
  BY ViewIsOK, OverlayOK DEF TypeInv, ViewOK
<1>2. Referenced(View(r)) /\ Referenced(View(s)) /\ Unpulled(tx)
  BY DEF KeyInv
<1>3. \A q \in Requests : View(q) = Overlay(db, tx[q])
  BY DEF View
<1> HIDE DEF new
<1> SUFFICES ASSUME NEW t \in scene, NEW i \in DOMAIN new[t], NEW c \in DOMAIN Refs(t),
                    Refs(t)[c].to \in scene, new[t][i].refs[c] # Null
             PROVE  new[t][i].refs[c] \in DOMAIN new[Refs(t)[c].to]
  BY <1>1, Zenon DEF Referenced, Anchored, new
<1> DEFINE n == <<t, i>>
           x == new[t][i]
           P == Refs(t)[c].to
           p == x.refs[c]
           m == <<P, p>>
<1>4. i \in Ids /\ IsRow(t, x) /\ PointsAt(x, t, m) /\ n[1] = t
  BY <1>1, RowPoints DEF ViewOK
<1>5. ASSUME NEW q \in {r, s}, i \in DOMAIN View(q)[t], View(q)[t][i] = x
      PROVE  p \in DOMAIN View(q)[P] /\ p \in Ids
  <2>1. /\ ViewOK(scene, View(q)) /\ Referenced(View(q)) /\ scene \in Scenes
        /\ View(q)[t][i].refs[c] # Null /\ p = View(q)[t][i].refs[c]
    BY <1>1, <1>2, <1>5
  <2> HIDE DEF p
  <2>2. View(q)[t][i].refs[c] \in DOMAIN View(q)[P] /\ View(q)[t][i].refs[c] \in Ids
    BY <1>5, <2>1, ReferencedAt
  <2>3. QED
    BY <2>1, <2>2
<1>6. ASSUME NEW a \in Requests, NEW b \in Requests, a # b, m \in DOMAIN tx[a],
             n \in DOMAIN tx[b], tx[b][n] = x
      PROVE  tx[a][m] # Gone
  BY <1>2, <1>4, <1>6 DEF Unpulled
<1> HIDE DEF x, p
<1>7. CASE n \in DOMAIN tx[s]
  <2>1. tx[s][n] # Gone /\ x = tx[s][n]
    BY <1>1, <1>4, <1>7, OverlayAt DEF new, x
  <2>2. i \in DOMAIN View(s)[t] /\ View(s)[t][i] = x
    BY <1>1, <1>3, <1>4, <1>7, <2>1, OverlayAt
  <2>3. p \in DOMAIN View(s)[P] /\ p \in Ids
    BY <1>5, <2>2
  <2>4. CASE m \in DOMAIN tx[s]
    <3>1. tx[s][m] # Gone
      BY <1>1, <1>3, <2>3, <2>4, OverlayAt
    <3>2. QED
      BY <1>1, <2>3, <2>4, <3>1, OverlayAt DEF new, p, x
  <2>5. CASE m \notin DOMAIN tx[s]
    <3>1. p \in DOMAIN db[P]
      BY <1>1, <1>3, <2>3, <2>5, OverlayAt
    <3>2. m \in DOMAIN tx[r] => tx[r][m] # Gone
      BY <1>6, <1>7, <2>1
    <3>3. p \in DOMAIN View(r)[P]
      BY <1>1, <1>3, <2>3, <3>1, <3>2, OverlayAt
    <3>4. QED
      BY <1>1, <2>5, <3>3, OverlayAt DEF new, p, x
  <2>6. QED
    BY <2>4, <2>5
<1>8. CASE n \notin DOMAIN tx[s]
  <2>1. i \in DOMAIN View(r)[t] /\ View(r)[t][i] = x
    BY <1>1, <1>8, OverlayAt DEF new, x
  <2>2. p \in DOMAIN View(r)[P] /\ p \in Ids
    BY <1>5, <2>1
  <2>3. ASSUME m \in DOMAIN tx[s], tx[s][m] = Gone
        PROVE  FALSE
    <3>1. CASE n \in DOMAIN tx[r]
      <4>1. tx[r][n] = x
        BY <1>1, <1>3, <1>4, <2>1, <3>1, OverlayAt
      <4>2. QED
        BY <1>6, <2>3, <3>1, <4>1
    <3>2. CASE n \notin DOMAIN tx[r]
      <4>1. i \in DOMAIN db[t] /\ db[t][i] = x
        BY <1>1, <1>3, <2>1, <3>2, OverlayAt
      <4>2. i \in DOMAIN View(s)[t] /\ View(s)[t][i] = x
        BY <1>1, <1>3, <1>8, <4>1, OverlayAt
      <4>3. p \in DOMAIN View(s)[P]
        BY <1>5, <4>2
      <4>4. QED
        BY <1>1, <1>3, <2>2, <2>3, <4>3, OverlayAt
    <3>3. QED
      BY <3>1, <3>2
  <2>4. QED
    BY <1>1, <2>2, <2>3, OverlayAt DEF new, p, x
<1>9. QED
  BY <1>7, <1>8 DEF p, x

\* A statement waits for whoever holds a row of it, its parents or its children.
LEMMA NotBlocked ==
    ASSUME NEW r \in Requests, ~Blocked(r), NEW s \in Requests \ {r}
    PROVE  /\ DOMAIN Writes(r) \cap DOMAIN tx[s] = {}
           /\ \A k \in DOMAIN Writes(r), n \in DOMAIN tx[s] :
                /\ ~(tx[s][n] = Gone /\ PointsAt(Writes(r)[k], k[1], n))
                /\ ~(Writes(r)[k] = Gone /\ PointsAt(tx[s][n], n[1], k))
<1>1. ~Waits(r, s)
  BY DEF Blocked
<1>2. \A k \in DOMAIN Writes(r), n \in DOMAIN tx[s] :
        /\ k # n
        /\ ~(tx[s][n] = Gone /\ PointsAt(Writes(r)[k], k[1], n))
        /\ ~(Writes(r)[k] = Gone /\ PointsAt(tx[s][n], n[1], k))
  BY <1>1, Zenon DEF Waits
<1>3. QED
  BY <1>2

\* A statement keeps transactions apart and foreign keys true.
LEMMA KeyFlushes ==
    ASSUME TypeInv, KeyInv, NEW r \in Requests, Flush(r)
    PROVE  KeyInv'
<1> DEFINE q == req[r]
           w == Writes(r)
           after == Overlay(View(r), w)
<1>1. /\ q.pc = "flush" /\ ~Blocked(r)
      /\ \/ \E status : End(r, status)
         \/ /\ UNCHANGED <<scene, db>> /\ Others(r) /\ Written(scene, w)
            /\ tx'[r] = Over(w, tx[r])
            /\ q.verb # "delete" => \A k \in DOMAIN w : ~Dangling(after, w, k)
            /\ q.verb = "delete" /\ w # Nothing => ~Restricted(View(r), KeyOf(q))
  BY FlushIs
<1>2. ASSUME NEW status, End(r, status)
      PROVE  KeyInv'
  BY <1>2, EndIs, KeyKept DEF Others
<1>3. ASSUME UNCHANGED <<scene, db>>, Others(r), Written(scene, w), tx'[r] = Over(w, tx[r]),
             q.verb # "delete" => \A k \in DOMAIN w : ~Dangling(after, w, k),
             q.verb = "delete" /\ w # Nothing => ~Restricted(View(r), KeyOf(q))
      PROVE  KeyInv'
  <2>1. Referenced(db) /\ Exclusive(tx) /\ Unpulled(tx) /\ \A s \in Requests : Referenced(View(s))
    BY DEF KeyInv
  <2>2. \A s \in Requests \ {r} : tx'[s] = tx[s]
    BY <1>3 DEF Others
  <2>3. \A s \in Requests \ {r} :
          /\ DOMAIN w \cap DOMAIN tx[s] = {}
          /\ \A k \in DOMAIN w, n \in DOMAIN tx[s] :
                /\ ~(tx[s][n] = Gone /\ PointsAt(w[k], k[1], n))
                /\ ~(w[k] = Gone /\ PointsAt(tx[s][n], n[1], k))
    BY <1>1, NotBlocked
  <2>4. /\ DOMAIN tx'[r] = DOMAIN w \cup DOMAIN tx[r]
        /\ \A k \in DOMAIN w : tx'[r][k] = w[k]
        /\ \A k \in DOMAIN tx[r] : k \notin DOMAIN w => tx'[r][k] = tx[r][k]
    <3>1. tx'[r] = Over(w, tx[r])
      BY <1>3
    <3>2. /\ DOMAIN Over(w, tx[r]) = DOMAIN w \cup DOMAIN tx[r]
          /\ \A k \in DOMAIN w : Over(w, tx[r])[k] = w[k]
          /\ \A k \in DOMAIN tx[r] : k \notin DOMAIN w => Over(w, tx[r])[k] = tx[r][k]
      BY DEF Over
    <3>3. QED
      BY <3>1, <3>2
  <2>5. Exclusive(tx')
    <3>1. ASSUME NEW a \in Requests, NEW b \in Requests, a # b
          PROVE  DOMAIN tx'[a] \cap DOMAIN tx'[b] = {}
      <4>1. DOMAIN tx[a] \cap DOMAIN tx[b] = {}
        BY <2>1, <3>1 DEF Exclusive
      <4>2. QED
        BY <2>2, <2>3, <2>4, <3>1, <4>1
    <3>2. QED
      BY <3>1 DEF Exclusive
  <2>6. Unpulled(tx')
    <3>1. ASSUME NEW a \in Requests, NEW b \in Requests, a # b,
                 NEW n \in DOMAIN tx'[a], NEW k \in DOMAIN tx'[b],
                 tx'[a][n] = Gone, PointsAt(tx'[b][k], k[1], n)
          PROVE  FALSE
      <4>1. \/ n \in DOMAIN tx[a] /\ tx[a][n] = Gone
            \/ a = r /\ n \in DOMAIN w /\ w[n] = Gone
        BY <2>2, <2>4, <3>1
      <4>2. \/ k \in DOMAIN tx[b] /\ tx[b][k] = tx'[b][k]
            \/ b = r /\ k \in DOMAIN w /\ w[k] = tx'[b][k]
        BY <2>2, <2>4, <3>1
      <4>3. CASE n \in DOMAIN tx[a] /\ tx[a][n] = Gone /\ k \in DOMAIN tx[b] /\ tx[b][k] = tx'[b][k]
        BY <2>1, <3>1, <4>3 DEF Unpulled
      <4>4. CASE a = r /\ n \in DOMAIN w /\ w[n] = Gone
        <5>1. b \in Requests \ {r} /\ k \in DOMAIN tx[b] /\ tx[b][k] = tx'[b][k]
          BY <2>2, <3>1, <4>4
        <5>2. QED
          BY <2>3, <3>1, <4>4, <5>1
      <4>5. CASE b = r /\ k \in DOMAIN w /\ w[k] = tx'[b][k]
        <5>1. a \in Requests \ {r} /\ n \in DOMAIN tx[a] /\ tx[a][n] = Gone
          BY <2>2, <3>1, <4>5
        <5>2. QED
          BY <2>3, <3>1, <4>5, <5>1
      <4>6. QED
        BY <4>1, <4>2, <4>3, <4>4, <4>5
    <3>2. QED
      BY <3>1, Zenon DEF Unpulled
  <2>7. ASSUME NEW s \in Requests
        PROVE  Referenced(Overlay(db', tx'[s]))
    <3>1. CASE s # r
      BY <1>3, <2>1, <2>2, <3>1 DEF View
    <3>2. CASE s = r
      <4>1. Referenced(Overlay(View(r), w))
        BY <1>1, <1>3, FlushReferenced
      <4>2. Referenced(Overlay(db, Over(w, tx[r])))
        BY <4>1, SeesBoth, ReferencedSame DEF View
      <4>3. QED
        BY <1>3, <3>2, <4>2
    <3>3. QED
      BY <3>1, <3>2
  <2>8. QED
    BY <1>3, <2>1, <2>5, <2>6, <2>7 DEF KeyInv, View
<1> HIDE DEF w, after, q
<1>4. QED
  BY <1>1, <1>2, <1>3

\* A commit is seen by all at once.
LEMMA KeyCommits ==
    ASSUME TypeInv, KeyInv, NEW r \in Requests, Commit(r)
    PROVE  KeyInv'
<1>1. /\ db' = View(r) /\ tx'[r] = Nothing /\ DOMAIN Nothing = {}
      /\ \A s \in Requests \ {r} : tx'[s] = tx[s]
  BY CommitIs DEF Others, Nothing
<1>2. Referenced(db')
  BY <1>1 DEF KeyInv
<1>3. Exclusive(tx')
  BY <1>1 DEF KeyInv, Exclusive
<1>4. Unpulled(tx')
  BY <1>1 DEF KeyInv, Unpulled
<1>5. ASSUME NEW s \in Requests
      PROVE  Referenced(Overlay(db', tx'[s]))
  <2>1. CASE s # r
    BY <1>1, <2>1, CommitReferenced
  <2>2. CASE s = r
    BY <1>1, <1>2, <2>2, SeesCommitted, ReferencedSame
  <2>3. QED
    BY <2>1, <2>2
<1>6. QED
  BY <1>2, <1>3, <1>4, <1>5 DEF KeyInv, View

\* Every step keeps the invariant.
LEMMA KeyNext ==
    ASSUME TypeInv, KeyInv, [Next]_vars
    PROVE  KeyInv'
<1>1. ASSUME UNCHANGED <<scene, db, tx>>
      PROVE  KeyInv'
  BY <1>1, KeyKept
<1>2. ASSUME NEW r \in Requests, Step(r)
      PROVE  KeyInv'
  <2>0. ASSUME NEW status, End(r, status)
        PROVE  KeyInv'
    BY <2>0, EndIs, KeyKept DEF Others
  <2>1. ASSUME NEW t \in scene \cap Managed, Anonymous(r, t) \/ \E c \in Callers : Read(r, c, t)
        PROVE  KeyInv'
    BY <1>1, <2>1, ReadIs
  <2>2. ASSUME NEW t \in scene \cap Managed, NEW c \in Callers, NEW n, Receive(r, c, t, n)
        PROVE  KeyInv'
    BY <1>1, <2>2, ReceiveIs
  <2>3. CASE Create(r)
    BY <1>1, <2>0, <2>3, CreateIs
  <2>4. ASSUME NEW verb \in {"update", "delete"}, Select(r, verb)
        PROVE  KeyInv'
    BY <1>1, <2>0, <2>4, SelectIs
  <2>5. CASE Flush(r)
    BY <2>5, KeyFlushes
  <2>6. CASE Commit(r)
    BY <2>6, KeyCommits
  <2>7. QED
    BY <1>2, <2>0, <2>1, <2>2, <2>3, <2>4, <2>5, <2>6, StepIs
<1>3. QED
  BY <1>1, <1>2 DEF Next, Finished, StartPaging, ReadPage, vars

(* Whatever is created, updated, deleted and batched at the same time, a   *)
(* committed row never names a parent that is gone: what the database     *)
(* checks at each statement (IntegrityError of the services) and the locks *)
(* it takes on parents and children add up to foreign keys that hold.      *)
THEOREM ReferencesHold == Spec => []Referenced(db)
<1>1. Init => KeyInv
  BY KeyInit
<1>2. TypeInv /\ KeyInv /\ [Next]_vars => KeyInv'
  BY KeyNext
<1>3. KeyInv => Referenced(db)
  BY DEF KeyInv
<1>4. QED
  BY <1>1, <1>2, <1>3, Types, PTL DEF Spec

-----------------------------------------------------------------------------
(* What the resources put beside their rows, and which columns they write. *)

\* A client comes with redirect URIs that name it or nobody yet, a config with a key.
BesideOK(q, a) ==
    \/ /\ q.table = "oauth_clients" /\ a.table = "oauth_client_redirect_uris"
       /\ \E m : a = Uri(Null, m) \/ a = Uri(q.id, m)
    \/ q.table = "sandbox_configs" /\ a = SystemKey(q.caller.user) /\ a.table = "api_keys"

\* Most outcomes are a row and nothing beside it.
LEMMA PlainOutcomes ==
    /\ \A row : /\ Write(row).row = row /\ Write(row).add = {} /\ Write(row).drop = {}
                /\ Write(row).rewrites = {}
    /\ \A refs, name : /\ Insert(refs, name).row = [refs |-> refs, name |-> name, val |-> 0]
                       /\ Insert(refs, name).add = {} /\ Insert(refs, name).drop = {}
                       /\ Insert(refs, name).row.refs = refs
BY DEF Write, Insert

(* What a create that is not refused inserts beside its row.               *)
LEMMA CreateGives ==
    ASSUME NEW t \in Managed, NEW c, NEW v, NEW o \in Creates(t, c, v), o.refuse = 0
    PROVE  /\ o.drop = {}
           /\ \/ o.add = {}
              \/ t = "oauth_clients" /\ \E m : o.add = {Uri(Null, m)}
              \/ t = "sandbox_configs" /\ o.add = {SystemKey(c.user)}
<1>0. Refuse(403).refuse # 0 /\ Refuse(404).refuse # 0 /\ Refuse(422).refuse # 0
  BY DEF Refuse
<1>1. CASE t \in {"users", "roles", "allowed_origins", "feature_flags", "groups", "secret_providers",
                  "static_secrets", "oauth_providers", "mcp_server_configs", "provider_connections",
                  "sandbox_templates"}
  <2>1. \E refs, name : o = Insert(refs, name)
    BY <1>0, <1>1 DEF Creates, UserCreate, RoleCreate, OriginCreate, FlagCreate, GroupCreate,
         SecretProviderCreate, StaticSecretCreate, OAuthProviderCreate, MCPServerConfigCreate,
         ConnectionCreate, TemplateCreate
  <2>2. QED
    BY <2>1, PlainOutcomes
<1>2. CASE t \in {"user_roles", "api_keys", "group_users", "conversation_records"}
  <2>1. \E refs, name : o = Insert(refs, name)
    BY <1>2, Zenon DEF Creates, UserRoleCreate, ApiKeyCreate, GroupUserCreate, ConversationCreate
  <2>2. QED
    BY <2>1, PlainOutcomes
<1>3. CASE t \in {"feature_flag_role_assignments", "feature_flag_user_assignments"}
  <2>1. \E u, i, j, refs : o = Override(c, v, u, i, j, refs)
    BY <1>3, Zenon DEF Creates, FlagRoleCreate, FlagUserCreate
  <2>2. \E refs : o = Insert(refs, 0)
    BY <1>0, <2>1 DEF Override
  <2>3. QED
    BY <2>2, PlainOutcomes
<1>4. CASE t = "llms"
  <2>1. \E refs : o = Insert(refs, 0)
    BY <1>0, <1>4, ZenonT(30) DEF Creates, LlmCreate
  <2>2. QED
    BY <2>1, PlainOutcomes
<1>5. CASE t = "oauth_clients"
  <2>1. PICK n \in Names, m \in Names : o = [Insert(<<>>, n) EXCEPT !.add = {Uri(Null, m)}]
    BY <1>5 DEF Creates, OAuthClientCreate
  <2>2. o.add = {Uri(Null, m)} /\ o.drop = {}
    BY <2>1 DEF Insert, Write
  <2>3. QED
    BY <1>5, <2>2
<1>6. CASE t = "sandbox_configs"
  <2>1. PICK i : o = [Insert([creator_id |-> c.user, sandbox_template_id |-> i], 0)
                        EXCEPT !.add = IF "api_keys" \in DOMAIN v THEN {SystemKey(c.user)} ELSE {}]
    BY <1>0, <1>6, ZenonT(30) DEF Creates, ConfigCreate
  <2>2. o.drop = {} /\ o.add \in {{SystemKey(c.user)}, {}}
    BY <2>1 DEF Insert, Write
  <2>3. QED
    BY <1>6, <2>2
<1>7. QED
  BY ManagedAre, <1>1, <1>2, <1>3, <1>4, <1>5, <1>6

Repointed(old, new, col, j) == new = [old EXCEPT !.refs[col] = j]

(* What an update writes: it keeps the pointers of its row, but for the    *)
(* role of a key and the connection of a profile, which must be one of the *)
(* profile's creator.                                                      *)
LEMMA PatchGives ==
    ASSUME NEW t \in Managed, "update" \in Verbs[t], NEW c, NEW v, NEW i, IsRow(t, v[t][i]),
           NEW o \in Patches(t, c, v, i), o.refuse = 0
    PROVE  /\ o.rewrites = {} \/ t = "mcp_server_configs"
           /\ \/ o.add = {} /\ o.drop = {}
              \/ /\ t = "oauth_clients" /\ \E m : o.add = {Uri(i, m)}
                 /\ \A n \in o.drop : n[1] = "oauth_client_redirect_uris"
           /\ \/ o.row.refs = v[t][i].refs
              \/ t = "api_keys" /\ \E j : Repointed(v[t][i], o.row, "role_id", j)
              \/ t = "llms" /\ \E j : /\ OwnConnection(v, j, v[t][i].refs.creator_id)
                                      /\ Repointed(v[t][i], o.row, "provider_connection_id", j)
<1> DEFINE row == v[t][i]
<1>0. Refuse(403).refuse # 0 /\ Refuse(422).refuse # 0
  BY DEF Refuse
<1>1. NewVal(row).refs = row.refs /\ \A new \in Renamed(row) : new.refs = row.refs
  BY DEF NewVal, Renamed, IsRow
<1> HIDE DEF row
<1>2. CASE t \in {"users", "roles", "static_secrets", "oauth_providers", "feature_flags", "groups",
                  "secret_providers", "provider_connections", "sandbox_templates", "sandbox_configs",
                  "conversation_records"}
  <2>1. \E new \in Renamed(row) \cup {NewVal(row)} : o = Write(new)
    <3>1. CASE t \in {"users", "roles", "static_secrets", "oauth_providers"}
      BY <3>1 DEF Patches, UserPatch, RolePatch, StaticSecretPatch, OAuthProviderPatch, row
    <3>2. CASE t \in {"feature_flags", "groups", "secret_providers", "provider_connections",
                      "sandbox_templates", "sandbox_configs", "conversation_records"}
      BY <3>2 DEF Patches, FlagPatch, GroupPatch, SecretProviderPatch, ConnectionPatch, TemplatePatch,
                  ConfigPatch, ConversationPatch, row
    <3>3. QED
      BY <1>2, <3>1, <3>2
  <2>2. QED
    BY <1>1, <2>1, PlainOutcomes DEF row
<1>3. CASE t = "mcp_server_configs"
  <2>1. PICK new \in Renamed(row) \cup {NewVal(row)} : o = [Write(new) EXCEPT !.rewrites = {"val"}]
    BY <1>0, <1>3 DEF Patches, MCPServerConfigPatch, row
  <2>2. o.row = new /\ o.add = {} /\ o.drop = {}
    BY <2>1 DEF Write
  <2>3. QED
    BY <1>1, <1>3, <2>2 DEF row
<1>4. CASE t = "api_keys"
  <2>1. \/ o = Write(NewVal(row))
        \/ \E j : o = Write([row EXCEPT !.refs.role_id = j])
    BY <1>4 DEF Patches, ApiKeyPatch, row
  <2>2. CASE o = Write(NewVal(row))
    BY <1>1, <2>2, PlainOutcomes DEF row
  <2>3. ASSUME NEW j, o = Write([row EXCEPT !.refs.role_id = j])
        PROVE  o.row = [row EXCEPT !.refs.role_id = j] /\ o.rewrites = {} /\ o.add = {} /\ o.drop = {}
    BY <2>3, PlainOutcomes
  <2>4. QED
    BY <1>4, <2>1, <2>2, <2>3, Zenon DEF row, Repointed
<1>5. CASE t = "llms"
  <2>1. \/ o = Write(NewVal(row))
        \/ \E j : /\ OwnConnection(v, j, row.refs.creator_id)
                  /\ o = Write([row EXCEPT !.refs.provider_connection_id = j])
    BY <1>0, <1>5, ZenonT(30) DEF Patches, LlmPatch, row
  <2>2. CASE o = Write(NewVal(row))
    BY <1>1, <2>2, PlainOutcomes DEF row
  <2>3. ASSUME NEW j, o = Write([row EXCEPT !.refs.provider_connection_id = j])
        PROVE  /\ o.row = [row EXCEPT !.refs.provider_connection_id = j]
               /\ o.rewrites = {} /\ o.add = {} /\ o.drop = {}
    BY <2>3, PlainOutcomes
  <2>4. QED
    BY <1>5, <2>1, <2>2, <2>3, Zenon DEF row, Repointed
<1>6. CASE t = "oauth_clients"
  <2>1. CASE o = Write(NewVal(row))
    BY <1>1, <2>1, PlainOutcomes DEF row
  <2>2. CASE o # Write(NewVal(row))
    <3>1. PICK m \in Names : o = [Write(row) EXCEPT !.add = ReplaceRedirectUris(v, i, m).add,
                                                   !.drop = ReplaceRedirectUris(v, i, m).drop]
      BY <1>6, <2>2 DEF Patches, OAuthClientPatch, row
    <3>2. /\ o.add = {Uri(i, m)} /\ o.drop = ReplaceRedirectUris(v, i, m).drop
          /\ o.row = row /\ o.rewrites = {}
      BY <3>1 DEF Write, ReplaceRedirectUris
    <3>3. \A n \in o.drop : n[1] = "oauth_client_redirect_uris"
      BY <3>2 DEF ReplaceRedirectUris
    <3>4. QED
      BY <1>6, <3>2, <3>3 DEF row
  <2>3. QED
    BY <2>1, <2>2
<1>7. t \notin {"user_roles", "allowed_origins", "feature_flag_role_assignments",
                "feature_flag_user_assignments", "group_users"}
  BY DEF Verbs, LinkVerbs, UserRoleVerbs, OriginVerbs, FlagRoleVerbs, FlagUserVerbs, GroupUserVerbs
<1>8. QED
  BY ManagedAre, <1>2, <1>3, <1>4, <1>5, <1>6, <1>7

\* Nobody changes the creator of a row.
LEMMA PatchKeepsCreator ==
    ASSUME NEW t \in Managed, "update" \in Verbs[t], NEW c, NEW v, NEW i, IsRow(t, v[t][i]), Owned(t),
           NEW o \in Patches(t, c, v, i), o.refuse = 0
    PROVE  o.row.refs.creator_id = v[t][i].refs.creator_id
<1>1. "creator_id" \in DOMAIN v[t][i].refs
  BY DEF IsRow, Owned
<1>2. CASE o.row.refs = v[t][i].refs
  BY <1>2
<1>3. ASSUME NEW col, col # "creator_id", NEW j, Repointed(v[t][i], o.row, col, j)
      PROVE  o.row.refs.creator_id = v[t][i].refs.creator_id
  BY <1>1, <1>3 DEF IsRow, Repointed
<1>4. \/ o.row.refs = v[t][i].refs
      \/ \E j : Repointed(v[t][i], o.row, "role_id", j)
      \/ \E j : Repointed(v[t][i], o.row, "provider_connection_id", j)
  BY PatchGives
<1>5. QED
  BY <1>2, <1>3, <1>4

-----------------------------------------------------------------------------
(* A request that nobody overlaps.                                         *)

(* The write routes that turn no missing parent into a status of their own. *)
Unguarded(q) == WriteErrors[q.table].fk = 500 /\ <<q.table, q.verb>> \notin Unclassified

(* What such a request checked is still true when its statement runs.      *)
Undisturbed(r) ==
    LET q == req[r]
    IN /\ \A s \in Requests \ {r} : ~InProgress(s)
       /\ q.table # "users" /\ "users" \in scene => q.caller.user \in DOMAIN View(r)["users"]
       /\ q.pc = "flush" /\ q.verb = "update" => q.id \in DOMAIN View(r)[q.table]
       /\ q.pc = "flush" /\ q.verb # "delete" /\ Unguarded(q) => Anchored(View(r), q.table, q.out.row)

AloneOK(r) ==
    LET q == req[r]
    IN /\ q.ans = 500 /\ q.alone => <<q.table, q.verb>> \in Unclassified
       /\ InProgress(r) => q.ans = 0
       /\ q.pc = "flush" => \A a \in q.out.add : BesideOK(q, a)
       /\ q.alone /\ InProgress(r) => Undisturbed(r)

AloneInv == \A r \in Requests : AloneOK(r)

\* The routes that know no status for a taken key write tables that have none.
LEMMA UniqueTables ==
    ASSUME NEW t \in Managed, WriteErrors[t].unique = 500
    PROVE  Schema[t].unique = NoColumns
<1>1. t \in {"api_keys", "secret_providers", "mcp_server_configs", "provider_connections", "llms",
             "sandbox_templates", "sandbox_configs", "conversation_records"}
  BY ManagedAre, SMTT(60)
     DEF WriteErrors, Errors, UserErrors, RoleErrors, UserRoleErrors, ApiKeyErrors,
         OAuthClientErrors, OriginErrors, FlagErrors, FlagRoleErrors, FlagUserErrors,
         GroupErrors, GroupUserErrors, SecretProviderErrors, StaticSecretErrors,
         OAuthProviderErrors, MCPServerConfigErrors, ConnectionErrors, LlmErrors, TemplateErrors,
         ConfigErrors, ConversationErrors
<1>2. QED
  BY <1>1, SMTT(60)
     DEF Schema, ApiKeysTable, SecretProvidersTable, MCPServerConfigsTable, ProviderConnectionsTable,
         LlmsTable, SandboxTemplatesTable, SandboxConfigsTable, ConversationRecordsTable

\* The routes that know no status for a missing parent.
LEMMA ForeignKeyTables ==
    ASSUME NEW t \in Managed, WriteErrors[t].fk = 500
    PROVE  t \in {"api_keys", "oauth_clients", "secret_providers", "mcp_server_configs",
                  "provider_connections", "llms", "sandbox_templates", "sandbox_configs",
                  "conversation_records"}
BY ManagedAre, SMTT(60)
     DEF WriteErrors, Errors, UserErrors, RoleErrors, UserRoleErrors, ApiKeyErrors,
         OAuthClientErrors, OriginErrors, FlagErrors, FlagRoleErrors, FlagUserErrors,
         GroupErrors, GroupUserErrors, SecretProviderErrors, StaticSecretErrors,
         OAuthProviderErrors, MCPServerConfigErrors, ConnectionErrors, LlmErrors, TemplateErrors,
         ConfigErrors, ConversationErrors

\* The tables whose rows forbid the delete of a parent, and the status for it.
LEMMA RestrictTables ==
    /\ \A t \in Tables : \A c \in DOMAIN Refs(t) : Refs(t)[c].del = "restrict" =>
         Refs(t)[c].to \in {"oauth_providers", "sandbox_templates", "sandbox_configs"}
    /\ WriteErrors["oauth_providers"].restrict # 500 /\ WriteErrors["sandbox_templates"].restrict # 500
    /\ \A t \in {"oauth_providers", "sandbox_templates", "sandbox_configs"} :
         \A c \in DOMAIN Refs(t) : Refs(t)[c].del = "cascade" => Refs(t)[c].to = "users"
<1>1. \A t \in Tables : \A c \in DOMAIN Refs(t) : Refs(t)[c].del = "restrict" =>
         Refs(t)[c].to \in {"oauth_providers", "sandbox_templates", "sandbox_configs"}
  BY TablesAre, RefsOfTables, SMTT(100) DEF Ref, Creator
<1>2. WriteErrors["oauth_providers"].restrict # 500 /\ WriteErrors["sandbox_templates"].restrict # 500
  BY DEF WriteErrors, Errors, OAuthProviderErrors, TemplateErrors
<1>3. \A t \in {"oauth_providers", "sandbox_templates", "sandbox_configs"} :
         \A c \in DOMAIN Refs(t) : Refs(t)[c].del = "cascade" => Refs(t)[c].to = "users"
  BY RefsOfTables, SMTT(60) DEF Ref, Creator
<1>4. QED
  BY <1>1, <1>2, <1>3

(* A create whose route would not classify it names no missing parent: the *)
(* creator is the caller, and connections and templates were looked up.    *)
LEMMA CreateAnchored ==
    ASSUME NEW S \in Scenes, NEW t \in S \cap Managed, NEW c, NEW v, ViewOK(S, v),
           NEW o \in Creates(t, c, v), o.refuse = 0,
           WriteErrors[t].fk = 500, <<t, "create">> \notin Unclassified,
           t # "users" /\ "users" \in S => c.user \in DOMAIN v["users"]
    PROVE  Anchored(v, t, o.row)
<1>0. Refuse(403).refuse # 0 /\ Refuse(404).refuse # 0 /\ Refuse(422).refuse # 0
  BY DEF Refuse
<1>1. t \in {"oauth_clients", "secret_providers", "mcp_server_configs", "provider_connections", "llms",
             "sandbox_templates", "sandbox_configs"}
  BY ForeignKeyTables DEF Unclassified
<1>2. DOMAIN v = S /\ ("users" \in S => c.user \in DOMAIN v["users"])
  BY <1>1 DEF ViewOK
<1>3. CASE t = "oauth_clients"
  <2>1. DOMAIN Refs(t) = {}
    BY <1>3, RefsOfTables
  <2>2. QED
    BY <2>1 DEF Anchored
<1>4. CASE t \in {"secret_providers", "mcp_server_configs", "provider_connections", "sandbox_templates"}
  <2>1. Refs(t) = [creator_id |-> Creator]
    BY <1>4, RefsOfTables
  <2>2. \E name : o = Insert([creator_id |-> c.user], name)
    BY <1>0, <1>4 DEF Creates, SecretProviderCreate, MCPServerConfigCreate, ConnectionCreate, TemplateCreate
  <2>3. o.row.refs = [creator_id |-> c.user]
    BY <2>2, PlainOutcomes
  <2>4. QED
    BY <1>2, <2>1, <2>3 DEF Anchored, Creator, Ref
<1>5. CASE t = "llms"
  <2>1. Refs(t) = [creator_id |-> Creator, provider_connection_id |-> Ref("provider_connections", "cascade")]
    BY <1>5, RefsOfTables
  <2>2. PICK i : /\ OwnConnection(v, i, c.user)
                 /\ o = Insert([creator_id |-> c.user, provider_connection_id |-> i], 0)
    <3>1. o # Refuse(422) /\ o # Refuse(403)
      BY <1>0
    <3>2. PICK i \in Targets(v, "provider_connections") :
             o = IF OwnConnection(v, i, c.user)
                 THEN Insert([creator_id |-> c.user, provider_connection_id |-> i], 0) ELSE Refuse(403)
      BY <1>5, <3>1, SMTT(30) DEF Creates, LlmCreate
    <3>3. QED
      BY <3>1, <3>2
  <2>3. o.row.refs = [creator_id |-> c.user, provider_connection_id |-> i]
    BY <2>2, PlainOutcomes
  <2>4. i \in DOMAIN v["provider_connections"]
    BY <2>2 DEF OwnConnection
  <2>5. QED
    BY <1>2, <2>1, <2>3, <2>4 DEF Anchored, Creator, Ref
<1>6. CASE t = "sandbox_configs"
  <2>1. Refs(t) = [creator_id |-> Creator, sandbox_template_id |-> Ref("sandbox_templates", "restrict")]
    BY <1>6, RefsOfTables
  <2>2. PICK i : /\ "sandbox_templates" \in DOMAIN v => i \in DOMAIN v["sandbox_templates"]
                 /\ o = [Insert([creator_id |-> c.user, sandbox_template_id |-> i], 0)
                           EXCEPT !.add = IF "api_keys" \in DOMAIN v THEN {SystemKey(c.user)} ELSE {}]
    <3> DEFINE found(i) == "sandbox_templates" \in DOMAIN v => i \in DOMAIN v["sandbox_templates"]
               new(i) == [Insert([creator_id |-> c.user, sandbox_template_id |-> i], 0)
                            EXCEPT !.add = IF "api_keys" \in DOMAIN v THEN {SystemKey(c.user)} ELSE {}]
    <3>1. PICK i \in Targets(v, "sandbox_templates") : o = IF found(i) THEN new(i) ELSE Refuse(404)
      <4>1. o \in ConfigCreate(c, v)
        BY <1>6 DEF Creates
      <4>2. QED
        BY <4>1, SMTT(30) DEF ConfigCreate
    <3>2. o # Refuse(404)
      BY <1>0
    <3> HIDE DEF found, new
    <3>3. found(i) /\ o = new(i)
      BY <3>1, <3>2
    <3>4. QED
      BY <3>3 DEF found, new
  <2>3. o.row.refs = [creator_id |-> c.user, sandbox_template_id |-> i]
    BY <2>2 DEF Insert, Write
  <2>4. QED
    BY <1>2, <2>1, <2>2, <2>3 DEF Anchored, Creator, Ref
<1>7. QED
  BY <1>1, <1>3, <1>4, <1>5, <1>6

\* Nor does such an update: it keeps its row's parents, or looked the new one up.
LEMMA PatchAnchored ==
    ASSUME NEW S \in Scenes, NEW t \in S \cap Managed, "update" \in Verbs[t], NEW c,
           NEW v, ViewOK(S, v), Referenced(v), NEW i \in DOMAIN v[t],
           NEW o \in Patches(t, c, v, i), o.refuse = 0,
           <<t, "update">> \notin Unclassified
    PROVE  Anchored(v, t, o.row)
<1>1. DOMAIN v = S /\ IsRow(t, v[t][i]) /\ Anchored(v, t, v[t][i])
  BY DEF ViewOK, Referenced
<1>2. t # "api_keys"
  BY DEF Unclassified
<1>3. CASE o.row.refs = v[t][i].refs
  BY <1>1, <1>3 DEF Anchored
<1>4. ASSUME t = "llms", NEW j, OwnConnection(v, j, v[t][i].refs.creator_id),
             Repointed(v[t][i], o.row, "provider_connection_id", j)
      PROVE  Anchored(v, t, o.row)
  <2>1. Refs(t) = [creator_id |-> Creator, provider_connection_id |-> Ref("provider_connections", "cascade")]
    BY <1>4, RefsOfTables
  <2>2. j \in DOMAIN v["provider_connections"]
    BY <1>4 DEF OwnConnection
  <2>3. \A d \in DOMAIN Refs(t) :
          o.row.refs[d] = IF d = "provider_connection_id" THEN j ELSE v[t][i].refs[d]
    BY <1>1, <1>4 DEF Repointed, IsRow
  <2>4. Refs(t)["provider_connection_id"].to = "provider_connections"
    BY <2>1 DEF Ref
  <2>5. QED
    BY <1>1, <2>2, <2>3, <2>4 DEF Anchored
<1>5. QED
  BY <1>1, <1>2, <1>3, <1>4, PatchGives

\* A create or an update removes nothing but redirect URIs, which nothing points at.
LEMMA WritesKeep ==
    ASSUME TypeInv, NEW r \in Requests, req[r].pc = "flush", req[r].verb # "delete",
           NEW P \in scene, P # "oauth_client_redirect_uris", NEW p \in DOMAIN View(r)[P]
    PROVE  p \in DOMAIN Overlay(View(r), Writes(r))[P]
<1>1. DOMAIN View(r) = scene /\ p \in Ids
  BY ViewIsOK DEF ViewOK
<1>2. ASSUME <<P, p>> \in DOMAIN Writes(r), Writes(r)[<<P, p>>] = Gone
      PROVE  FALSE
  <2>1. <<P, p>> \in req[r].out.drop
    BY <1>2, WritesBeside, RowIsNotGone
  <2>2. QED
    BY <2>1 DEF TypeInv, RequestOK, Payload
<1>3. QED
  BY <1>1, <1>2, OverlayAt

\* A create or an update that finds its row leaves it there.
LEMMA WritesOwn ==
    ASSUME TypeInv, NEW r \in Requests, req[r].pc = "flush", req[r].verb # "delete",
           DOMAIN Writes(r) # {}
    PROVE  req[r].id \in DOMAIN Overlay(View(r), Writes(r))[req[r].table]
<1> DEFINE q == req[r]
           k == <<q.table, q.id>>
           v == View(r)
           here == q.id \in DOMAIN v[q.table]
           extra == Over(Added(q), [n \in q.out.drop |-> Gone])
<1>1. /\ RequestOK(scene, q) /\ ViewOK(scene, v) /\ DOMAIN v = scene /\ q.table \in scene /\ q.id \in Ids
  BY ViewIsOK DEF TypeInv, RequestOK, ViewOK
<1>2. CASE q.verb = "create"
  <2>1. Writes(r) = Over(One(k, q.out.row), extra)
    BY <1>2 DEF Writes
  <2>2. IsRow(q.table, q.out.row)
    BY <1>1, <1>2 DEF RequestOK, Payload
  <2>3. k \in DOMAIN Writes(r) /\ Writes(r)[k] = q.out.row
    BY <2>1 DEF Over, One
  <2>4. QED
    BY <1>1, <2>2, <2>3, OverlayAt, RowIsNotGone
<1>3. CASE q.verb = "update" /\ here
  <2> DEFINE new == Merge(q.old, q.out, v[q.table][q.id])
  <2>1. Writes(r) = Over(One(k, new), extra)
    BY <1>3 DEF Writes
  <2>2. IsRow(q.table, new)
    BY <1>1, <1>3, MergeOK DEF RequestOK, Payload, ViewOK
  <2> HIDE DEF new
  <2>3. k \in DOMAIN Writes(r) /\ Writes(r)[k] = new
    BY <2>1 DEF Over, One
  <2>4. QED
    BY <1>1, <2>2, <2>3, OverlayAt, RowIsNotGone
<1>4. CASE q.verb # "create" /\ ~(q.verb = "update" /\ here)
  <2>1. Writes(r) = Nothing
    BY <1>4 DEF Writes
  <2>2. QED
    BY <2>1 DEF Nothing
<1>5. QED
  BY <1>2, <1>3, <1>4

\* A route without a status for a taken key writes no keys.
LEMMA NoCollision ==
    ASSUME TypeInv, NEW r \in Requests, req[r].pc = "flush", req[r].verb # "delete",
           WriteErrors[req[r].table].unique = 500, NEW k \in DOMAIN Writes(r), NEW v
    PROVE  ~Collides(v, Writes(r), k)
<1> DEFINE q == req[r]
<1>1. q.table \in Managed /\ Payload(scene, q.table, q.out)
  BY DEF TypeInv, RequestOK
<1>2. Schema[q.table].unique = NoColumns
  BY <1>1, UniqueTables
<1>3. Schema["oauth_client_redirect_uris"].unique = NoColumns /\ Schema["api_keys"].unique = NoColumns
  BY DEF Schema, OAuthClientRedirectUrisTable, ApiKeysTable
<1>4. Writes(r)[k] = Gone \/ Schema[k[1]].unique = NoColumns
  <2>1. \/ k = KeyOf(q)
        \/ \E a \in q.out.add : k[1] = a.table
        \/ Writes(r)[k] = Gone
    BY WritesBeside
  <2>2. \A a \in q.out.add : a.table \in {"oauth_client_redirect_uris", "api_keys"}
    BY <1>1 DEF Payload, Beside
  <2>3. KeyOf(q)[1] = q.table
    BY DEF KeyOf
  <2>4. QED
    BY <1>2, <1>3, <2>1, <2>2, <2>3
<1>5. QED
  BY <1>4 DEF Collides, SameKey

\* The foreign keys of a merged row are those of the two rows.
LEMMA MergeAnchored ==
    ASSUME NEW v, NEW t, NEW old, NEW out, NEW now, DOMAIN now.refs = DOMAIN Refs(t),
           Anchored(v, t, out.row), Anchored(v, t, now)
    PROVE  Anchored(v, t, Merge(old, out, now))
<1>1. \A c \in DOMAIN Refs(t) : \/ Merge(old, out, now).refs[c] = out.row.refs[c]
                                \/ Merge(old, out, now).refs[c] = now.refs[c]
  BY DEF Merge
<1>2. QED
  BY <1>1 DEF Anchored

\* The rows beside a resource name the resource and its creator.
LEMMA BesideAnchored ==
    ASSUME NEW q, NEW a, BesideOK(q, a), NEW c \in DOMAIN Refs(a.table), q.caller.user # Null,
           Attach(a, q.id).refs[c] # Null
    PROVE  \/ /\ q.table = "oauth_clients" /\ Refs(a.table)[c].to = q.table
              /\ Attach(a, q.id).refs[c] = q.id
           \/ /\ q.table = "sandbox_configs" /\ Refs(a.table)[c].to = "users"
              /\ Attach(a, q.id).refs[c] = q.caller.user
<1>1. CASE q.table = "oauth_clients" /\ \E m : a = Uri(Null, m) \/ a = Uri(q.id, m)
  <2>1. PICK m : a = Uri(Null, m) \/ a = Uri(q.id, m)
    BY <1>1
  <2>2. a.table = "oauth_client_redirect_uris" /\ a.row.refs \in {[client_id |-> Null], [client_id |-> q.id]}
    BY <2>1 DEF Uri
  <2>3. Refs(a.table) = [client_id |-> Ref("oauth_clients", "cascade")]
    BY <2>2, RefsOfTables
  <2>4. "refs" \in DOMAIN a.row
    BY <2>1 DEF Uri
  <2>5. Attach(a, q.id).refs = [d \in DOMAIN a.row.refs |->
            IF a.row.refs[d] = Null /\ Refs(a.table)[d].del # "null" THEN q.id ELSE a.row.refs[d]]
    BY <2>4 DEF Attach
  <2>6. c = "client_id" /\ Refs(a.table)[c].del = "cascade" /\ Refs(a.table)[c].to = "oauth_clients"
    BY <2>3 DEF Ref
  <2>7. Attach(a, q.id).refs[c] = q.id
    BY <2>2, <2>5, <2>6
  <2>8. QED
    BY <1>1, <2>6, <2>7
<1>2. CASE q.table = "sandbox_configs" /\ a = SystemKey(q.caller.user)
  <2>1. a.table = "api_keys" /\ a.row.refs = [creator_id |-> q.caller.user, role_id |-> Null]
    BY <1>2 DEF SystemKey
  <2>2. Refs(a.table) = [creator_id |-> Creator, role_id |-> Ref("roles", "null")]
    BY <2>1, RefsOfTables
  <2>3. "refs" \in DOMAIN a.row
    BY <1>2 DEF SystemKey
  <2>4. Attach(a, q.id).refs = [d \in DOMAIN a.row.refs |->
            IF a.row.refs[d] = Null /\ Refs(a.table)[d].del # "null" THEN q.id ELSE a.row.refs[d]]
    BY <2>3 DEF Attach
  <2>5. Refs(a.table)["role_id"].del = "null" /\ Refs(a.table)["creator_id"].to = "users"
    BY <2>2 DEF Ref, Creator
  <2>6. c \in {"creator_id", "role_id"}
    BY <2>2
  <2>7. Attach(a, q.id).refs["role_id"] = Null /\ Attach(a, q.id).refs["creator_id"] = q.caller.user
    BY <2>1, <2>4, <2>5
  <2>8. QED
    BY <1>2, <2>5, <2>6, <2>7
<1>3. QED
  BY <1>1, <1>2 DEF BesideOK

(* An undisturbed create or update of an unguarded route finds all the     *)
(* parents that it names.                                                  *)
LEMMA NoDangling ==
    ASSUME TypeInv, KeyInv, NEW r \in Requests, AloneOK(r), Undisturbed(r), req[r].pc = "flush",
           req[r].verb # "delete", Unguarded(req[r]), NEW k \in DOMAIN Writes(r)
    PROVE  ~Dangling(Overlay(View(r), Writes(r)), Writes(r), k)
<1> DEFINE q == req[r]
           v == View(r)
           w == Writes(r)
           after == Overlay(v, w)
<1>1. /\ ViewOK(scene, v) /\ DOMAIN v = scene /\ DOMAIN after = scene /\ Referenced(v)
      /\ q.table \in scene /\ q.id \in Ids /\ scene \subseteq Tables /\ q.caller.user # Null
      /\ Anchored(v, q.table, q.out.row)
  <2>1. ViewOK(scene, v) /\ Referenced(v) /\ RequestOK(scene, q) /\ scene \in Scenes
    BY ViewIsOK DEF TypeInv, KeyInv
  <2>2. DOMAIN v = scene /\ DOMAIN after = scene
    BY <2>1 DEF ViewOK, Overlay
  <2>3. q.table \in scene /\ q.id \in Ids /\ q.caller.user \in Ids
    BY <2>1 DEF RequestOK
  <2>4. Anchored(v, q.table, q.out.row)
    BY DEF Undisturbed
  <2>5. QED
    BY <2>1, <2>2, <2>3, <2>4, ResourcesAssumption DEF Ids, Null
<1>2. \A P \in scene : P # "oauth_client_redirect_uris" => \A p \in DOMAIN v[P] : p \in DOMAIN after[P]
  BY WritesKeep
<1>3. q.id \in DOMAIN after[q.table]
  BY WritesOwn
<1> SUFFICES ASSUME w[k] # Gone, NEW c \in DOMAIN w[k].refs, Refs(k[1])[c].to \in scene,
                    w[k].refs[c] # Null
             PROVE  w[k].refs[c] \in DOMAIN after[Refs(k[1])[c].to]
  BY <1>1, Zenon DEF Dangling
<1> HIDE DEF after
<1>4. ASSUME k = KeyOf(q), IsRow(q.table, w[k]), Anchored(v, q.table, w[k])
      PROVE  w[k].refs[c] \in DOMAIN after[Refs(k[1])[c].to]
  <2>1. k[1] = q.table /\ c \in DOMAIN Refs(q.table) /\ q.table \in Tables
    BY <1>1, <1>4 DEF KeyOf, IsRow
  <2>2. Refs(q.table)[c].to # "oauth_client_redirect_uris"
    BY <2>1, UrisHaveNoChildren
  <2>3. w[k].refs[c] \in DOMAIN v[Refs(q.table)[c].to]
    BY <1>1, <1>4, <2>1 DEF Anchored
  <2>4. QED
    BY <1>2, <2>1, <2>2, <2>3
<1>5. CASE k = KeyOf(q) /\ IsRow(q.table, w[k]) /\ q.verb = "create" /\ w[k] = q.out.row
  BY <1>1, <1>4, <1>5
<1>6. CASE /\ k = KeyOf(q) /\ IsRow(q.table, w[k]) /\ q.id \in DOMAIN v[q.table]
           /\ w[k] = Merge(q.old, q.out, v[q.table][q.id])
  <2>1. Anchored(v, q.table, v[q.table][q.id]) /\ IsRow(q.table, v[q.table][q.id])
    BY <1>1, <1>6 DEF Referenced, ViewOK
  <2>2. DOMAIN v[q.table][q.id].refs = DOMAIN Refs(q.table)
    BY <2>1 DEF IsRow
  <2>3. Anchored(v, q.table, w[k])
    BY <1>1, <1>6, <2>1, <2>2, MergeAnchored
  <2>4. QED
    BY <1>4, <1>6, <2>3
<1>7. ASSUME NEW a \in q.out.add, k[1] = a.table, w[k] = Attach(a, q.id), IsRow(a.table, w[k])
      PROVE  w[k].refs[c] \in DOMAIN after[Refs(k[1])[c].to]
  <2>1. BesideOK(q, a) /\ c \in DOMAIN Refs(a.table)
    BY <1>7 DEF AloneOK, IsRow
  <2>2. \/ q.table = "oauth_clients" /\ Refs(a.table)[c].to = q.table /\ w[k].refs[c] = q.id
        \/ /\ q.table = "sandbox_configs" /\ Refs(a.table)[c].to = "users"
           /\ w[k].refs[c] = q.caller.user
    BY <1>1, <1>7, <2>1, BesideAnchored
  <2>3. "users" \in scene /\ q.table = "sandbox_configs" => q.caller.user \in DOMAIN v["users"]
    BY DEF Undisturbed
  <2>4. QED
    BY <1>2, <1>3, <1>7, <2>2, <2>3
<1>8. QED
  BY <1>5, <1>6, <1>7, WritesBeside

(* Only the deletes of users and configs can meet a child that forbids     *)
(* them and that their routes have no status for.                          *)
LEMMA NoRestriction ==
    ASSUME TypeInv, NEW r \in Requests, req[r].pc = "flush", req[r].verb = "delete",
           Writes(r) # Nothing, Restricted(View(r), KeyOf(req[r])),
           WriteErrors[req[r].table].restrict = 500
    PROVE  <<req[r].table, req[r].verb>> \in Unclassified
<1> DEFINE v == View(r)
           k0 == KeyOf(req[r])
<1>1. k0 \in Keys(v) /\ ViewOK(scene, v) /\ scene \in Scenes /\ scene \subseteq Tables
  BY DeleteWrites, ViewIsOK, ResourcesAssumption DEF TypeInv
<1>2. k0[1] = req[r].table
  BY DEF KeyOf
<1> HIDE DEF v, k0
<1>3. PICK n \in Keys(v) : \E c \in DOMAIN Refs(n[1]) :
         Refs(n[1])[c].del = "restrict" /\ Points(v, n, c, Doomed(v, k0))
  <2>1. Held(v, Doomed(v, k0), "restrict") # {}
    BY DEF Restricted, v, k0
  <2>2. QED
    BY <2>1 DEF Held
<1>10. PICK c \in DOMAIN Refs(n[1]) : Refs(n[1])[c].del = "restrict" /\ Points(v, n, c, Doomed(v, k0))
  BY <1>3
<1>4. n[1] \in Tables /\ Doomed(v, k0) \subseteq Keys(v)
  BY <1>1, KeysOfView, DoomedAreRows
<1>5. PICK p \in Doomed(v, k0) : p[1] = Refs(n[1])[c].to
  BY <1>10 DEF Points
<1>6. p[1] \in {"oauth_providers", "sandbox_templates", "sandbox_configs"}
  BY <1>10, <1>4, <1>5, RestrictTables
<1>7. CASE p = k0
  <2>1. req[r].table = "sandbox_configs"
    BY <1>2, <1>6, <1>7, RestrictTables
  <2>2. QED
    BY <2>1 DEF Unclassified
<1>8. CASE p # k0
  <2>1. PICK d \in DOMAIN Refs(p[1]) : Refs(p[1])[d].del = "cascade" /\ Points(v, p, d, Doomed(v, k0))
    BY <1>8, DoomedHang
  <2>2. PICK u \in Doomed(v, k0) : u[1] = "users"
    BY <1>6, <2>1, RestrictTables DEF Points
  <2>3. u = k0 \/ Level(k0[1]) < Level(u[1])
    BY <1>1, DoomedAbove
  <2>4. Level(u[1]) = 0 /\ Level(k0[1]) \in 0..3
    BY <2>2, LevelsAre DEF Level
  <2>5. req[r].table = "users"
    BY <1>2, <2>2, <2>3, <2>4
  <2>6. QED
    BY <2>5 DEF Unclassified
<1>9. QED
  BY <1>7, <1>8

\* Only a delete of a user removes users.
LEMMA UsersStay ==
    ASSUME TypeInv, NEW r \in Requests, req[r].pc = "flush", req[r].table # "users", "users" \in scene,
           NEW u \in DOMAIN View(r)["users"]
    PROVE  u \in DOMAIN Overlay(View(r), Writes(r))["users"]
<1>1. /\ DOMAIN View(r) = scene /\ u \in Ids /\ ViewOK(scene, View(r)) /\ scene \in Scenes
  BY ViewIsOK DEF ViewOK, TypeInv
<1>2. CASE req[r].verb # "delete"
  BY <1>2, WritesKeep
<1>3. CASE req[r].verb = "delete"
  <2>1. ASSUME <<"users", u>> \in DOMAIN Writes(r), Writes(r)[<<"users", u>>] = Gone
        PROVE  FALSE
    <3> DEFINE v == View(r)
               k0 == KeyOf(req[r])
    <3>1. k0 \in Keys(v) /\ Writes(r) = Delete(v, k0) /\ k0[1] = req[r].table
      BY <1>3, <2>1, DeleteWrites DEF Nothing, KeyOf
    <3> HIDE DEF v, k0
    <3>2. <<"users", u>> \in Doomed(v, k0)
      BY <1>1, <2>1, <3>1, DeleteUnlinks DEF v
    <3>3. <<"users", u>> = k0 \/ Level(k0[1]) < Level("users")
      BY <1>1, <3>1, <3>2, DoomedAbove DEF v
    <3>4. Level("users") = 0 /\ Level(k0[1]) \in 0..3
      BY LevelsAre DEF Level
    <3>5. QED
      BY <3>1, <3>3, <3>4
  <2>2. QED
    BY <1>1, <2>1, OverlayAt
<1>4. QED
  BY <1>2, <1>3

\* A request is not disturbed by a step that leaves it alone.
LEMMA AloneKept ==
    ASSUME TypeInv, UNCHANGED scene, NEW s \in Requests, AloneOK(s), Like(req'[s], req[s]),
           req'[s].alone => req[s].alone,
           req'[s].alone /\ InProgress(s) =>
             UNCHANGED db /\ tx'[s] = tx[s] /\ \A t \in Requests \ {s} : ~InProgress(t)'
    PROVE  AloneOK(s)'
<1> DEFINE q == req[s]
           p == req'[s]
<1>1. /\ p.pc = q.pc /\ p.caller = q.caller /\ p.table = q.table /\ p.verb = q.verb /\ p.id = q.id
      /\ p.out = q.out /\ p.ans = q.ans
  BY DEF Like
<1>2. InProgress(s)' <=> InProgress(s)
  BY <1>1 DEF InProgress
<1>3. \A a : BesideOK(q, a) => BesideOK(p, a)
  BY <1>1 DEF BesideOK
<1>4. /\ p.ans = 500 /\ p.alone => <<p.table, p.verb>> \in Unclassified
      /\ InProgress(s)' => p.ans = 0
      /\ p.pc = "flush" => \A a \in p.out.add : BesideOK(p, a)
  BY <1>1, <1>2, <1>3 DEF AloneOK
<1>5. ASSUME p.alone, InProgress(s)'
      PROVE  Undisturbed(s)'
  <2>1. /\ UNCHANGED db /\ tx'[s] = tx[s] /\ Undisturbed(s)
        /\ \A t \in Requests \ {s} : ~InProgress(t)'
    BY <1>2, <1>5 DEF AloneOK
  <2>2. View(s)' = View(s)
    BY <2>1 DEF View
  <2>3. Unguarded(p) <=> Unguarded(q)
    BY <1>1 DEF Unguarded
  <2> DEFINE v == View(s)
             u == View(s)'
  <2>4. /\ q.table # "users" /\ "users" \in scene => q.caller.user \in DOMAIN v["users"]
        /\ q.pc = "flush" /\ q.verb = "update" => q.id \in DOMAIN v[q.table]
        /\ q.pc = "flush" /\ q.verb # "delete" /\ Unguarded(q) => Anchored(v, q.table, q.out.row)
    BY <2>1, Zenon DEF Undisturbed
  <2>5. u = v
    BY <2>2
  <2> HIDE DEF u, v
  <2>6. /\ p.table # "users" /\ "users" \in scene' => p.caller.user \in DOMAIN u["users"]
        /\ p.pc = "flush" /\ p.verb = "update" => p.id \in DOMAIN u[p.table]
        /\ p.pc = "flush" /\ p.verb # "delete" /\ Unguarded(p) => Anchored(u, p.table, p.out.row)
    BY <1>1, <2>3, <2>4, <2>5
  <2>7. QED
    BY <2>1, <2>6, Zenon DEF Undisturbed, u
<1>6. QED
  BY <1>4, <1>5, Zenon DEF AloneOK

(* A step of one request does not disturb another that is alone: while one *)
(* is in progress, the others only read, or come and tell it so.           *)
LEMMA AloneOthers ==
    ASSUME TypeInv, AloneInv, NEW r \in Requests, Step(r), NEW s \in Requests \ {r}
    PROVE  AloneOK(s)'
<1>1. AloneOK(s)
  BY DEF AloneInv
<1>2. CASE \E t \in scene \cap Managed, c \in Callers : \E n : Receive(r, c, t, n)
  <2>1. /\ UNCHANGED scene /\ Like(req'[s], req[s])
        /\ req'[s].alone => req[s].alone /\ ~InProgress(s)
    BY <1>2, ReceiveIs
  <2>2. QED
    BY <1>1, <2>1, AloneKept
<1>3. CASE \E t \in scene \cap Managed : Anonymous(r, t) \/ \E c \in Callers : Read(r, c, t)
  <2>1. UNCHANGED <<scene, db, tx>> /\ Others(r) /\ req'[r].pc = "done"
    BY <1>3, ReadIs
  <2>2. Like(req'[s], req[s]) /\ req'[s] = req[s]
    BY <2>1 DEF Others, Like
  <2>3. ~InProgress(r)' /\ \A t \in Requests \ {r} : InProgress(t)' <=> InProgress(t)
    BY <2>1 DEF InProgress, Others
  <2>4. req[s].alone /\ InProgress(s) => \A t \in Requests \ {s} : ~InProgress(t)
    BY <1>1 DEF AloneOK, Undisturbed
  <2>5. QED
    BY <1>1, <2>1, <2>2, <2>3, <2>4, AloneKept
<1>4. ASSUME InProgress(r), Others(r), UNCHANGED scene
      PROVE  AloneOK(s)'
  <2>1. Like(req'[s], req[s]) /\ req'[s] = req[s]
    BY <1>4 DEF Others, Like
  <2>2. ~(req[s].alone /\ InProgress(s))
    BY <1>1, <1>4 DEF AloneOK, Undisturbed
  <2>3. QED
    BY <1>1, <1>4, <2>1, <2>2, AloneKept
<1>5. \/ \E t \in scene \cap Managed, c \in Callers : \E n : Receive(r, c, t, n)
      \/ \E t \in scene \cap Managed : Anonymous(r, t) \/ \E c \in Callers : Read(r, c, t)
      \/ InProgress(r)
  BY DEF Step, Create, Select, Flush, Commit, Lost, Deadlock, InProgress
<1>6. \/ \E t \in scene \cap Managed, c \in Callers : \E n : Receive(r, c, t, n)
      \/ Others(r) /\ UNCHANGED scene
  <2>1. ASSUME Flush(r)
        PROVE  Others(r) /\ UNCHANGED scene
    BY <2>1, FlushIs, EndIs
  <2>2. QED
    BY <2>1, StepIs, ReadIs, CreateIs, SelectIs, CommitIs, EndIs
<1>7. QED
  BY <1>2, <1>3, <1>4, <1>5, <1>6

\* An answer to a request that was alone, with an internal error or without one.
LEMMA AloneEnds ==
    ASSUME TypeInv, NEW r \in Requests, NEW status, End(r, status),
           status = 500 /\ req[r].alone => <<req[r].table, req[r].verb>> \in Unclassified
    PROVE  AloneOK(r)'
<1>1. /\ req'[r].pc = "done" /\ req'[r].ans = status /\ req'[r].table = req[r].table
      /\ req'[r].verb = req[r].verb /\ req'[r].alone = req[r].alone
  BY EndIs
<1>2. QED
  BY <1>1 DEF AloneOK, InProgress

(* A request that passed its checks, alone, holds what its statement needs. *)
LEMMA AloneReady ==
    ASSUME TypeInv, NEW r \in Requests, AloneOK(r), req[r].pc = "op",
           UNCHANGED <<scene, db, tx>>, Others(r),
           NEW verb, NEW i, NEW old, NEW o, Ready(req'[r], req[r], verb, i, old, o),
           \A a \in o.add : BesideOK(req'[r], a),
           verb = "update" => i \in DOMAIN View(r)[req[r].table],
           Undisturbed(r) /\ verb # "delete" /\ Unguarded(req'[r]) => Anchored(View(r), req[r].table, o.row)
    PROVE  AloneOK(r)'
<1> DEFINE q == req[r]
           p == req'[r]
<1>1. /\ p.pc = "flush" /\ p.verb = verb /\ p.id = i /\ p.out = o
      /\ p.caller = q.caller /\ p.table = q.table /\ p.alone = q.alone /\ p.ans = q.ans
  BY DEF Ready
<1>2. InProgress(r)' /\ InProgress(r) /\ p.ans = 0
  BY <1>1 DEF InProgress, AloneOK
<1>3. ASSUME p.alone
      PROVE  Undisturbed(r)'
  <2>1. Undisturbed(r)
    BY <1>1, <1>2, <1>3 DEF AloneOK
  <2>2. View(r)' = View(r)
    BY DEF View
  <2>3. \A t \in Requests \ {r} : ~InProgress(t)'
    BY <2>1 DEF Undisturbed, InProgress, Others
  <2> DEFINE v == View(r)
             u == View(r)'
  <2>4. q.table # "users" /\ "users" \in scene => q.caller.user \in DOMAIN v["users"]
    BY <2>1, Zenon DEF Undisturbed
  <2>5. u = v /\ scene' = scene
    BY <2>2
  <2>6. /\ verb = "update" => i \in DOMAIN v[q.table]
        /\ verb # "delete" /\ Unguarded(p) => Anchored(v, q.table, o.row)
    BY <2>1
  <2> HIDE DEF u, v
  <2>7. /\ p.table # "users" /\ "users" \in scene' => p.caller.user \in DOMAIN u["users"]
        /\ p.pc = "flush" /\ p.verb = "update" => p.id \in DOMAIN u[p.table]
        /\ p.pc = "flush" /\ p.verb # "delete" /\ Unguarded(p) => Anchored(u, p.table, p.out.row)
    BY <1>1, <2>4, <2>5, <2>6
  <2>8. QED
    BY <2>3, <2>7, Zenon DEF Undisturbed, u
<1>4. \A a \in p.out.add : BesideOK(p, a)
  BY <1>1
<1>5. QED
  BY <1>2, <1>3, <1>4 DEF AloneOK

\* A request that begins alone sees what is committed.
LEMMA AloneBegins ==
    ASSUME TypeInv, NEW r \in Requests, NEW c \in Callers, NEW t \in scene \cap Managed, NEW n,
           Receive(r, c, t, n)
    PROVE  AloneOK(r)'
<1>1. /\ UNCHANGED <<scene, db, tx>> /\ MaySend(c)
      /\ req[r].pc = "new" /\ req'[r].pc = "op" /\ req'[r].caller = c
      /\ req'[r].ans = 0 /\ (req'[r].alone <=> \A s \in Requests \ {r} : ~InProgress(s))
      /\ \A s \in Requests \ {r} : req'[s].pc = req[s].pc
  BY ReceiveIs DEF Like
<1>2. ASSUME req'[r].alone, "users" \in scene
      PROVE  c.user \in DOMAIN View(r)'["users"]
  <2>1. c.user \in DOMAIN db["users"] /\ tx[r] = Nothing /\ DOMAIN db = scene
    BY <1>1, <1>2 DEF MaySend, TypeInv, ViewOK, InFlight
  <2>2. View(r)' = Overlay(db, Nothing)
    BY <1>1, <2>1 DEF View
  <2>3. c.user \in DOMAIN Overlay(db, Nothing)["users"]
    BY <1>2, <2>1, SeesCommitted DEF Same
  <2>4. QED
    BY <2>2, <2>3
<1>3. \A s \in Requests \ {r} : InProgress(s)' <=> InProgress(s)
  BY <1>1 DEF InProgress
<1>4. req'[r].alone => Undisturbed(r)'
  BY <1>1, <1>2, <1>3, Zenon DEF Undisturbed
<1>5. QED
  BY <1>1, <1>4 DEF AloneOK

\* A create that is alone and that no route would classify names what is there.
LEMMA AloneCreates ==
    ASSUME TypeInv, NEW r \in Requests, AloneOK(r), Create(r)
    PROVE  AloneOK(r)'
<1> DEFINE q == req[r]
           t == q.table
           v == View(r)
<1>1. /\ q.pc = "op"
      /\ \/ \E status \in Statuses \ {500} : End(r, status)
         \/ \E o \in Creates(t, q.caller, v), i \in FreeIds(t) :
              /\ o.refuse = 0
              /\ UNCHANGED <<scene, db, tx>> /\ Others(r)
              /\ Ready(req'[r], q, "create", i, NoRow, o)
  BY CreateIs
<1>2. t \in scene \cap Managed /\ q.caller.user \in Ids /\ ViewOK(scene, v) /\ scene \in Scenes
  BY <1>1, ViewIsOK DEF TypeInv, RequestOK
<1>3. ASSUME NEW o \in Creates(t, q.caller, v), NEW i, o.refuse = 0,
             UNCHANGED <<scene, db, tx>>, Others(r), Ready(req'[r], q, "create", i, NoRow, o)
      PROVE  AloneOK(r)'
  <2>1. req'[r].table = t /\ req'[r].caller = q.caller /\ req'[r].verb = "create"
    BY <1>3 DEF Ready
  <2>2. \A a \in o.add : BesideOK(req'[r], a)
    <3>1. \/ o.add = {}
          \/ t = "oauth_clients" /\ \E m : o.add = {Uri(Null, m)}
          \/ t = "sandbox_configs" /\ o.add = {SystemKey(q.caller.user)}
      BY <1>2, <1>3, CreateGives
    <3>2. /\ SystemKey(q.caller.user).table = "api_keys"
          /\ \A m : Uri(Null, m).table = "oauth_client_redirect_uris"
      BY DEF SystemKey, Uri
    <3>3. QED
      BY <2>1, <3>1, <3>2 DEF BesideOK
  <2>3. ASSUME Undisturbed(r), Unguarded(req'[r])
        PROVE  Anchored(v, t, o.row)
    <3>1. WriteErrors[t].fk = 500 /\ <<t, "create">> \notin Unclassified
      BY <2>1, <2>3 DEF Unguarded
    <3>2. t # "users" /\ "users" \in scene => q.caller.user \in DOMAIN v["users"]
      BY <2>3, Zenon DEF Undisturbed
    <3> HIDE DEF v
    <3>3. QED
      BY <1>2, <1>3, <3>1, <3>2, CreateAnchored
  <2>4. QED
    BY <1>1, <1>3, <2>2, <2>3, AloneReady
<1>4. ASSUME NEW status \in Statuses \ {500}, End(r, status)
      PROVE  AloneOK(r)'
  BY <1>4, AloneEnds
<1>5. QED
  BY <1>1, <1>3, <1>4

\* An update or a delete that is alone holds a row that stays.
LEMMA AloneSelects ==
    ASSUME TypeInv, KeyInv, NEW r \in Requests, AloneOK(r), NEW verb \in {"update", "delete"}, Select(r, verb)
    PROVE  AloneOK(r)'
<1> DEFINE q == req[r]
           t == q.table
           v == View(r)
<1>1. /\ q.pc = "op"
      /\ \/ \E status \in Statuses \ {500} : End(r, status)
         \/ \E i \in DOMAIN v[t] :
              /\ UNCHANGED <<scene, db, tx>> /\ Others(r)
              /\ \/ verb = "delete" /\ Ready(req'[r], q, "delete", i, v[t][i], Write(NoRow))
                 \/ /\ verb = "update"
                    /\ \E o \in Patches(t, q.caller, v, i) :
                         o.refuse = 0 /\ Ready(req'[r], q, "update", i, v[t][i], o)
  BY SelectIs
<1>2. /\ t \in scene \cap Managed /\ q.caller.user \in Ids /\ ViewOK(scene, v) /\ scene \in Scenes
      /\ Referenced(v) /\ verb \in Verbs[t]
  <2>1. RequestOK(scene, q) /\ ViewOK(scene, v) /\ Referenced(v) /\ scene \in Scenes
    BY ViewIsOK DEF TypeInv, KeyInv
  <2>2. [q EXCEPT !.verb = verb].table = t
    BY <2>1 DEF RequestOK, Fields
  <2>3. verb \in Verbs[t]
    BY <2>2 DEF Select
  <2>4. QED
    BY <1>1, <2>1, <2>3 DEF RequestOK
<1>3. ASSUME NEW i \in DOMAIN v[t], UNCHANGED <<scene, db, tx>>, Others(r), verb = "delete",
             Ready(req'[r], q, "delete", i, v[t][i], Write(NoRow))
      PROVE  AloneOK(r)'
  <2>1. \A a \in Write(NoRow).add : BesideOK(req'[r], a)
    BY PlainOutcomes
  <2>2. QED
    BY <1>1, <1>3, <2>1, AloneReady
<1>4. ASSUME NEW i \in DOMAIN v[t], UNCHANGED <<scene, db, tx>>, Others(r), verb = "update",
             NEW o \in Patches(t, q.caller, v, i), o.refuse = 0,
             Ready(req'[r], q, "update", i, v[t][i], o)
      PROVE  AloneOK(r)'
  <2>1. req'[r].table = t /\ req'[r].verb = "update" /\ req'[r].id = i
    BY <1>4 DEF Ready
  <2>2. IsRow(t, v[t][i])
    BY <1>2 DEF ViewOK
  <2> HIDE DEF v
  <2>3. \A a \in o.add : t = "oauth_clients" /\ \E m : a = Uri(i, m)
    BY <1>2, <1>4, <2>2, PatchGives
  <2>4. \A a \in o.add : BesideOK(req'[r], a)
    BY <2>1, <2>3 DEF BesideOK, Uri
  <2>5. ASSUME Unguarded(req'[r])
        PROVE  Anchored(v, t, o.row)
    <3>1. <<t, "update">> \notin Unclassified
      BY <2>1, <2>5 DEF Unguarded
    <3>2. QED
      BY <1>2, <1>4, <3>1, PatchAnchored
  <2>6. i \in DOMAIN View(r)[req[r].table]
    BY DEF v
  <2>7. Unguarded(req'[r]) => Anchored(View(r), req[r].table, o.row)
    BY <2>5 DEF v
  <2>8. /\ q.pc = "op" /\ UNCHANGED <<scene, db, tx>> /\ Others(r)
        /\ Ready(req'[r], req[r], "update", i, v[t][i], o)
    BY <1>1, <1>4
  <2> HIDE DEF t
  <2>9. QED
    BY <2>4, <2>6, <2>7, <2>8, AloneReady
<1>5. ASSUME NEW status \in Statuses \ {500}, End(r, status)
      PROVE  AloneOK(r)'
  BY <1>5, AloneEnds
<1>6. QED
  BY <1>1, <1>3, <1>4, <1>5

(* A statement that is alone fails with a status that its routes know, or  *)
(* is one of those that they do not classify; its caller stays.            *)
LEMMA AloneFlushes ==
    ASSUME TypeInv, KeyInv, NEW r \in Requests, AloneOK(r), Flush(r)
    PROVE  AloneOK(r)'
<1> DEFINE q == req[r]
           p == req'[r]
           w == Writes(r)
           after == Overlay(View(r), w)
<1>1. /\ q.pc = "flush"
      /\ \/ \E status : /\ End(r, status)
                        /\ \/ Stale(r)
                           \/ /\ q.verb # "delete" /\ status = WriteErrors[q.table].unique
                              /\ \E k \in DOMAIN w : Collides(after, w, k)
                           \/ /\ q.verb # "delete" /\ status = WriteErrors[q.table].fk
                              /\ \E k \in DOMAIN w : Dangling(after, w, k)
                           \/ /\ q.verb = "delete" /\ status = WriteErrors[q.table].restrict
                              /\ w # Nothing /\ Restricted(View(r), KeyOf(q))
         \/ /\ UNCHANGED <<scene, db>> /\ Others(r) /\ tx'[r] = Over(w, tx[r])
            /\ p.pc \in {"op", "commit"} /\ p.caller = q.caller
            /\ p.table = q.table /\ p.alone = q.alone /\ p.ans = q.ans
  BY FlushIs
<1>2. InProgress(r) /\ q.ans = 0 /\ (q.alone => Undisturbed(r))
  BY <1>1 DEF InProgress, AloneOK
<1>3. ASSUME q.alone
      PROVE  ~Stale(r)
  <2>1. q.verb = "update" => q.id \in DOMAIN View(r)[q.table]
    BY <1>1, <1>2, <1>3 DEF Undisturbed
  <2>2. QED
    BY <2>1 DEF Stale
<1>4. ASSUME q.alone, q.verb # "delete", WriteErrors[q.table].unique = 500, NEW k \in DOMAIN w
      PROVE  ~Collides(after, w, k)
  BY <1>1, <1>4, NoCollision
<1>5. ASSUME q.alone, q.verb # "delete", WriteErrors[q.table].fk = 500, NEW k \in DOMAIN w,
             Dangling(after, w, k)
      PROVE  <<q.table, q.verb>> \in Unclassified
  BY <1>1, <1>2, <1>5, NoDangling DEF Unguarded
<1>6. ASSUME q.verb = "delete", WriteErrors[q.table].restrict = 500, w # Nothing,
             Restricted(View(r), KeyOf(q))
      PROVE  <<q.table, q.verb>> \in Unclassified
  BY <1>1, <1>6, NoRestriction
<1>7. ASSUME NEW status, End(r, status),
             \/ Stale(r)
             \/ /\ q.verb # "delete" /\ status = WriteErrors[q.table].unique
                /\ \E k \in DOMAIN w : Collides(after, w, k)
             \/ /\ q.verb # "delete" /\ status = WriteErrors[q.table].fk
                /\ \E k \in DOMAIN w : Dangling(after, w, k)
             \/ /\ q.verb = "delete" /\ status = WriteErrors[q.table].restrict
                /\ w # Nothing /\ Restricted(View(r), KeyOf(q))
      PROVE  AloneOK(r)'
  <2>1. status = 500 /\ q.alone => <<q.table, q.verb>> \in Unclassified
    BY <1>3, <1>4, <1>5, <1>6, <1>7
  <2>2. QED
    BY <1>7, <2>1, AloneEnds
<1>8. ASSUME UNCHANGED <<scene, db>>, Others(r), tx'[r] = Over(w, tx[r]),
             p.pc \in {"op", "commit"}, p.caller = q.caller, p.table = q.table,
             p.alone = q.alone, p.ans = q.ans
      PROVE  AloneOK(r)'
  <2>1. ASSUME p.alone
        PROVE  Undisturbed(r)'
    <3>1. /\ \A s \in Requests \ {r} : ~InProgress(s)
          /\ q.table # "users" /\ "users" \in scene => q.caller.user \in DOMAIN View(r)["users"]
      BY <1>2, <1>8, <2>1 DEF Undisturbed
    <3>2. \A s \in Requests \ {r} : ~InProgress(s)'
      BY <1>8, <3>1 DEF InProgress, Others
    <3>3. View(r)' = Overlay(db, Over(w, tx[r]))
      BY <1>8 DEF View
    <3>4. Same(View(r)', after)
      BY <3>3, SeesBoth DEF View
    <3>5. DOMAIN after = scene
      BY ViewIsOK DEF ViewOK, Overlay
    <3>6. ASSUME p.table # "users", "users" \in scene
          PROVE  p.caller.user \in DOMAIN View(r)'["users"]
      <4>1. q.caller.user \in DOMAIN after["users"]
        BY <1>1, <1>8, <3>1, <3>6, UsersStay
      <4>2. QED
        BY <1>8, <3>4, <3>5, <3>6, <4>1 DEF Same
    <3>7. p.pc # "flush" /\ scene' = scene
      BY <1>8
    <3>8. QED
      BY <3>2, <3>6, <3>7, Zenon DEF Undisturbed
  <2>2. p.ans = 0 /\ p.pc # "flush"
    BY <1>2, <1>8
  <2>3. QED
    BY <2>1, <2>2 DEF AloneOK
<1> HIDE DEF w, after
<1>9. QED
  BY <1>1, <1>7, <1>8 DEF p

\* Every step keeps every request in order.
LEMMA AloneNext ==
    ASSUME TypeInv, KeyInv, AloneInv, [Next]_vars
    PROVE  AloneInv'
<1>1. ASSUME UNCHANGED <<scene, db, tx, req>>
      PROVE  AloneInv'
  <2>1. ASSUME NEW s \in Requests
        PROVE  AloneOK(s)'
    <3>1. Like(req'[s], req[s]) /\ req'[s] = req[s]
      BY <1>1 DEF Like
    <3>2. req[s].alone /\ InProgress(s) => \A t \in Requests \ {s} : ~InProgress(t)'
      BY <1>1 DEF AloneInv, AloneOK, Undisturbed, InProgress
    <3>3. QED
      BY <1>1, <3>1, <3>2, AloneKept DEF AloneInv
  <2>2. QED
    BY <2>1 DEF AloneInv
<1>2. ASSUME NEW r \in Requests, Step(r)
      PROVE  AloneInv'
  <2>1. AloneOK(r)
    BY DEF AloneInv
  <2>2. AloneOK(r)'
    <3>1. CASE \E t \in scene \cap Managed : Anonymous(r, t) \/ \E c \in Callers : Read(r, c, t)
      <4>1. req'[r].pc = "done" /\ req'[r].ans # 500
        BY <3>1, ReadIs
      <4>2. QED
        BY <4>1 DEF AloneOK, InProgress
    <3>2. CASE \E t \in scene \cap Managed, c \in Callers : \E n : Receive(r, c, t, n)
      BY <3>2, AloneBegins
    <3>3. CASE Create(r)
      BY <2>1, <3>3, AloneCreates
    <3>4. CASE \E verb \in {"update", "delete"} : Select(r, verb)
      BY <2>1, <3>4, AloneSelects
    <3>5. CASE Flush(r)
      BY <2>1, <3>5, AloneFlushes
    <3>6. CASE Commit(r)
      <4>1. req'[r].pc = "done" /\ req'[r].ans # 500
        BY <3>6, CommitIs
      <4>2. QED
        BY <4>1 DEF AloneOK, InProgress
    <3>7. CASE \E status : End(r, status) /\ status # 500
      BY <3>7, AloneEnds
    <3>8. CASE Deadlock(r) /\ End(r, 500)
      <4>1. PICK s \in Requests \ {r} : req[s].pc = "flush"
        BY <3>8 DEF Deadlock
      <4>2. InProgress(r) /\ InProgress(s)
        BY <3>8, <4>1 DEF Deadlock, InProgress
      <4>3. ~req[r].alone
        BY <2>1, <4>2 DEF AloneOK, Undisturbed
      <4>4. QED
        BY <3>8, <4>3, AloneEnds
    <3>9. ASSUME \E status : End(r, status) /\ (status # 500 \/ (Deadlock(r) /\ status = 500))
          PROVE  AloneOK(r)'
      BY <3>7, <3>8, <3>9
    <3>10. QED
      BY <1>2, <3>1, <3>2, <3>3, <3>4, <3>5, <3>6, <3>9, StepIs, Zenon
  <2>3. \A s \in Requests \ {r} : AloneOK(s)'
    BY <1>2, AloneOthers
  <2>4. QED
    BY <2>2, <2>3 DEF AloneInv
<1>3. CASE UNCHANGED vars
  BY <1>1, <1>3 DEF vars
<1>4. ASSUME NEW c \in Callers, NEW t \in Paged \cap scene, StartPaging(c, t)
      PROVE  AloneInv'
  <2>1. UNCHANGED <<scene, db, tx, req>>
    BY <1>4 DEF StartPaging
  <2>2. QED
    BY <1>1, <2>1
<1>5. CASE ReadPage
  <2>1. UNCHANGED <<scene, db, tx, req>>
    BY <1>5 DEF ReadPage
  <2>2. QED
    BY <1>1, <2>1
<1>6. CASE Finished
  BY <1>3, <1>6 DEF Finished
<1>7. QED
  BY <1>2, <1>3, <1>4, <1>5, <1>6 DEF Next

\* At the start no request is in progress.
LEMMA AloneInit ==
    ASSUME Init
    PROVE  AloneInv
<1>1. New.ans = 0 /\ New.pc = "new"
  BY DEF New
<1>2. QED
  BY <1>1 DEF Init, AloneInv, AloneOK, InProgress

(* No request that nobody overlapped ever ended in an internal error, but  *)
(* for the operations that the property names: what a route checked is     *)
(* still true when its statement runs, so that the statement fails only in *)
(* ways that the route turns into a status (the IntegrityError handlers of *)
(* the services).                                                          *)
THEOREM AloneAnswers == Spec => []AloneNeverFails
<1>1. Init => AloneInv
  BY AloneInit
<1>2. TypeInv /\ KeyInv /\ AloneInv /\ [Next]_vars => AloneInv'
  BY AloneNext
<1>3. AloneInv => AloneNeverFails
  BY DEF AloneInv, AloneOK, AloneNeverFails
<1>4. Init => KeyInv
  BY KeyInit
<1>5. TypeInv /\ KeyInv /\ [Next]_vars => KeyInv'
  BY KeyNext
<1>6. QED
  BY <1>1, <1>2, <1>3, <1>4, <1>5, Types, PTL DEF Spec
-----------------------------------------------------------------------------
(* What a request writes.                                                  *)

Stored(k) == k[2] \in DOMAIN db[k[1]]

(* A row as the database, a transaction or a request in flight has it.     *)
Copy(k, x) ==
    \/ Stored(k) /\ x = db[k[1]][k[2]]
    \/ \E r \in Requests : k \in DOMAIN tx[r] /\ tx[r][k] # Gone /\ x = tx[r][k]
    \/ \E r \in Requests : /\ req[r].pc = "flush" /\ KeyOf(req[r]) = k
                           /\ \/ req[r].verb # "create" /\ x = req[r].old
                              \/ req[r].verb # "delete" /\ x = req[r].out.row
OneCreator ==
    \A k \in scene \X Ids : Owned(k[1]) =>
        \A x, y : Copy(k, x) /\ Copy(k, y) => x.refs.creator_id = y.refs.creator_id

Attached(q, t) == <<q.table, t>> \in Attachments

(* Nobody else knows the id of a row that is about to be created.          *)
Fresh1(r) ==
    LET k == KeyOf(req[r])
    IN ~Stored(k) /\ \A s \in Requests : /\ k \notin DOMAIN tx[s]
                                         /\ s # r /\ req[s].pc = "flush" => KeyOf(req[s]) # k

(* A request that is about to run its statement has passed its checks.     *)
Checked(r) ==
    LET q == req[r]
    IN /\ q.verb = "create" => Fresh1(r) /\ MayDo(q, "CREATE", q.out.row)
       /\ q.verb # "create" => MayDo(q, ActionOf[q.verb], q.old)
       /\ q.verb = "update" =>
            /\ \A c \in Changes(q.old, q.out) : <<q.id, c>> \in q.asked
            /\ q.out.rewrites = {} \/ q.table \in RewritingTables
       /\ \A a \in q.out.add : Attached(q, a.table)
       /\ \A n \in q.out.drop : Attached(q, n[1])

Removed(r, k) == k \in DOMAIN tx[r] /\ tx[r][k] = Gone
Parent(k, row, c) == <<Refs(k[1])[c].to, row.refs[c]>>

(* A row that only lost its pointers to rows its transaction removed.      *)
Released(r, k, old, new) ==
    /\ new.name = old.name /\ new.val = old.val
    /\ \A c \in DOMAIN old.refs :
         new.refs[c] = old.refs[c] \/ (new.refs[c] = Null /\ Removed(r, Parent(k, old, c)))

(* Every row in an open transaction is there for a reason.                 *)
Justified(r, k) ==
    LET q == req[r]
        old == db[k[1]][k[2]]
        new == tx[r][k]
        own == k[1] = q.table
    IN /\ ~Stored(k) /\ new # Gone => Attached(q, k[1]) \/ (own /\ MayDo(q, "CREATE", new))
       /\ Stored(k) /\ new # Gone =>
            \/ /\ own /\ MayDo(q, "UPDATE", old)
               /\ \/ k[1] \in RewritingTables
                  \/ \A c \in Changes(old, Write(new)) : <<k[2], c>> \in q.asked
            \/ ~own /\ Released(r, k, old, new)
       /\ Stored(k) /\ new = Gone =>
            \/ Attached(q, k[1])
            \/ own /\ MayDo(q, "DELETE", old)
            \/ \E c \in DOMAIN Refs(k[1]) : Removed(r, Parent(k, old, c))

EffectInv ==
    /\ OneCreator
    /\ \A r \in Requests : /\ req[r].pc = "flush" => Checked(r)
                           /\ \A k \in DOMAIN tx[r] : Justified(r, k)

\* The creator of a row takes the row along.
LEMMA OwnersCascade ==
    ASSUME NEW t \in Tables, Owned(t)
    PROVE  Refs(t)["creator_id"].del = "cascade"
BY TablesAre, RefsOfTables, SMTT(100) DEF Owned, Ref, Creator

\* A grant looks at nothing but the creator of a row.
LEMMA MayDoSame ==
    ASSUME NEW p, NEW q, p.table = q.table, p.caller = q.caller, NEW action, NEW x, NEW y,
           Owned(q.table) => x.refs.creator_id = y.refs.creator_id, MayDo(q, action, x)
    PROVE  MayDo(p, action, y)
<1>1. Scope(q.caller, q.table, action) = "mine" => Owned(q.table)
  BY DEF Scope
<1>2. QED
  BY <1>1 DEF MayDo, Matches

\* What a transaction sees is its own write or what is committed.
LEMMA SeenIs ==
    ASSUME TypeInv, NEW r \in Requests, NEW k \in Keys(View(r))
    PROVE  /\ k \in scene \X Ids /\ k = <<k[1], k[2]>> /\ IsRow(k[1], View(r)[k[1]][k[2]])
           /\ Copy(k, View(r)[k[1]][k[2]])
           /\ \/ k \in DOMAIN tx[r] /\ tx[r][k] # Gone /\ View(r)[k[1]][k[2]] = tx[r][k]
              \/ k \notin DOMAIN tx[r] /\ Stored(k) /\ View(r)[k[1]][k[2]] = db[k[1]][k[2]]
<1>1. k \in scene \X Ids /\ k[2] \in DOMAIN View(r)[k[1]] /\ IsRow(k[1], View(r)[k[1]][k[2]])
  BY ViewIsOK, KeysOfView
<1>2. k = <<k[1], k[2]>> /\ k[1] \in DOMAIN db /\ k[2] \in Ids
  BY <1>1 DEF TypeInv, ViewOK
<1>3. \/ k \in DOMAIN tx[r] /\ tx[r][k] # Gone /\ View(r)[k[1]][k[2]] = tx[r][k]
      \/ k \notin DOMAIN tx[r] /\ Stored(k) /\ View(r)[k[1]][k[2]] = db[k[1]][k[2]]
  <2>1. CASE k \in DOMAIN tx[r]
    BY <1>1, <1>2, <2>1, OverlayAt DEF View
  <2>2. CASE k \notin DOMAIN tx[r]
    BY <1>1, <1>2, <2>2, OverlayAt DEF View, Stored
  <2>3. QED
    BY <2>1, <2>2
<1>4. QED
  BY <1>1, <1>2, <1>3 DEF Copy

\* Nobody has a row under a free id.
LEMMA FreeIsNew ==
    ASSUME NEW t, NEW i \in FreeIds(t)
    PROVE  /\ ~Stored(<<t, i>>) /\ \A x : ~Copy(<<t, i>>, x)
           /\ \A s \in Requests : <<t, i>> \notin DOMAIN tx[s] /\ KeyOf(req[s]) # <<t, i>>
BY DEF FreeIds, Holds, KeyOf, Copy, Stored

(* Copies keep agreeing on the creator when each new one has the creator   *)
(* of an old one, or is the first of its row.                              *)
LEMMA CreatorsAgree ==
    ASSUME OneCreator, UNCHANGED scene, NEW w,
           \A k \in scene \X Ids : Owned(k[1]) => \A x : Copy(k, x)' =>
              \/ \E y : Copy(k, y) /\ y.refs.creator_id = x.refs.creator_id
              \/ x = w[k] /\ \A y : ~Copy(k, y)
    PROVE  OneCreator'
<1> SUFFICES ASSUME NEW k \in scene \X Ids, Owned(k[1]), NEW x, NEW y, Copy(k, x)', Copy(k, y)'
             PROVE  x.refs.creator_id = y.refs.creator_id
  BY DEF OneCreator
<1>1. \A a, b : Copy(k, a) /\ Copy(k, b) => a.refs.creator_id = b.refs.creator_id
  BY DEF OneCreator
<1>2. \/ \E a : Copy(k, a) /\ a.refs.creator_id = x.refs.creator_id
      \/ x = w[k] /\ \A a : ~Copy(k, a)
  OBVIOUS
<1>3. \/ \E a : Copy(k, a) /\ a.refs.creator_id = y.refs.creator_id
      \/ y = w[k] /\ \A a : ~Copy(k, a)
  OBVIOUS
<1>4. QED
  BY <1>1, <1>2, <1>3

\* A statement never brings back what its transaction removed.
LEMMA GoneStays ==
    ASSUME TypeInv, NEW r \in Requests, req[r].pc = "flush", req[r].verb = "create" => Fresh1(r),
           NEW k \in DOMAIN Writes(r), Removed(r, k)
    PROVE  Writes(r)[k] = Gone
<1> DEFINE q == req[r]
           w == Writes(r)
<1>1. ASSUME NEW i, k = <<q.table, i>>, i \in DOMAIN View(r)[q.table]
      PROVE  FALSE
  <2>1. k \in Keys(View(r))
    BY <1>1, ViewIsOK, KeysOfView DEF TypeInv, RequestOK
  <2>2. QED
    BY <2>1, SeenIs DEF Removed
<1>2. CASE q.verb # "delete"
  <2>1. \/ /\ k = KeyOf(q)
           /\ \/ q.verb = "create"
              \/ q.id \in DOMAIN View(r)[q.table]
        \/ \E a \in q.out.add : k[2] \in FreeIds(a.table) /\ k = <<a.table, k[2]>>
        \/ w[k] = Gone
    BY <1>2, WritesBeside
  <2>2. ~(q.verb = "create" /\ k = KeyOf(q))
    BY DEF Fresh1, Removed
  <2>3. ASSUME NEW t, k[2] \in FreeIds(t), k = <<t, k[2]>>
        PROVE  FALSE
    BY <2>3, FreeIsNew DEF Removed
  <2>4. QED
    BY <1>1, <2>1, <2>2, <2>3 DEF KeyOf
<1>3. CASE q.verb = "delete"
  <2> DEFINE v == View(r)
             root == KeyOf(q)
  <2>1. root \in Keys(v) /\ w = Delete(v, root)
    BY <1>3, DeleteWrites DEF Nothing
  <2>2. k \in Keys(v)
    BY <2>1, DeleteMarks
  <2>3. QED
    BY <2>2, SeenIs DEF Removed
<1>4. QED
  BY <1>2, <1>3

\* Where a copy comes from when only one request moves.
LEMMA CopyAfter ==
    ASSUME NEW r \in Requests, \A s \in Requests \ {r} : tx'[s] = tx[s] /\ Like(req'[s], req[s]),
           NEW k, NEW x, Copy(k, x)'
    PROVE  \/ Copy(k, x)
           \/ k[2] \in DOMAIN db'[k[1]] /\ x = db'[k[1]][k[2]]
           \/ k \in DOMAIN tx'[r] /\ tx'[r][k] # Gone /\ x = tx'[r][k]
           \/ /\ req'[r].pc = "flush" /\ KeyOf(req'[r]) = k
              /\ \/ req'[r].verb # "create" /\ x = req'[r].old
                 \/ req'[r].verb # "delete" /\ x = req'[r].out.row
<1>1. ASSUME NEW s \in Requests \ {r}, k \in DOMAIN tx'[s], tx'[s][k] # Gone, x = tx'[s][k]
      PROVE  Copy(k, x)
  BY <1>1 DEF Copy
<1>2. ASSUME NEW s \in Requests \ {r}, req'[s].pc = "flush", KeyOf(req'[s]) = k,
             \/ req'[s].verb # "create" /\ x = req'[s].old
             \/ req'[s].verb # "delete" /\ x = req'[s].out.row
      PROVE  Copy(k, x)
  BY <1>2 DEF Copy, Like, KeyOf
<1>3. \/ k[2] \in DOMAIN db'[k[1]] /\ x = db'[k[1]][k[2]]
      \/ \E s \in Requests : k \in DOMAIN tx'[s] /\ tx'[s][k] # Gone /\ x = tx'[s][k]
      \/ \E s \in Requests : /\ req'[s].pc = "flush" /\ KeyOf(req'[s]) = k
                             /\ \/ req'[s].verb # "create" /\ x = req'[s].old
                                \/ req'[s].verb # "delete" /\ x = req'[s].out.row
  BY DEF Copy, Stored, KeyOf
<1>4. QED
  BY <1>1, <1>2, <1>3, Zenon

\* A step that prepares no statement and writes nothing makes no copy.
LEMMA CreatorsKept ==
    ASSUME TypeInv, OneCreator, NEW r \in Requests, UNCHANGED <<scene, db>>,
           \A s \in Requests \ {r} : tx'[s] = tx[s] /\ Like(req'[s], req[s]),
           tx'[r] = tx[r] \/ tx'[r] = Nothing, req'[r].pc # "flush"
    PROVE  OneCreator'
<1>1. ASSUME NEW k, NEW x, Copy(k, x)'
      PROVE  Copy(k, x)
  <2>1. \/ Copy(k, x)
        \/ k[2] \in DOMAIN db'[k[1]] /\ x = db'[k[1]][k[2]]
        \/ k \in DOMAIN tx'[r] /\ tx'[r][k] # Gone /\ x = tx'[r][k]
    BY <1>1, CopyAfter
  <2>2. DOMAIN Nothing = {}
    BY DEF Nothing
  <2>3. QED
    BY <2>1, <2>2 DEF Copy, Stored
<1>2. QED
  BY <1>1, CreatorsAgree

\* A commit makes no copy that the request did not see.
LEMMA CreatorsCommit ==
    ASSUME TypeInv, OneCreator, NEW r \in Requests, Commit(r)
    PROVE  OneCreator'
<1>1. /\ db' = View(r) /\ UNCHANGED scene /\ tx'[r] = Nothing /\ req'[r].pc = "done"
      /\ \A s \in Requests \ {r} : tx'[s] = tx[s] /\ Like(req'[s], req[s])
  BY CommitIs DEF Others, Like
<1>2. ASSUME NEW k \in scene \X Ids, NEW x, Copy(k, x)'
      PROVE  Copy(k, x)
  <2>1. \/ Copy(k, x)
        \/ k[2] \in DOMAIN View(r)[k[1]] /\ x = View(r)[k[1]][k[2]]
    <3>1. DOMAIN tx'[r] = {} /\ req'[r].pc # "flush"
      BY <1>1 DEF Nothing
    <3>2. \/ Copy(k, x)
          \/ k[2] \in DOMAIN db'[k[1]] /\ x = db'[k[1]][k[2]]
      BY <1>1, <1>2, <3>1, CopyAfter
    <3>3. QED
      BY <1>1, <3>2
  <2>2. ASSUME k[2] \in DOMAIN View(r)[k[1]]
        PROVE  k \in Keys(View(r))
    BY <1>2, <2>2, ViewIsOK, KeysOfView
  <2>3. QED
    BY <2>1, <2>2, SeenIs
<1>3. QED
  BY <1>1, <1>2, CreatorsAgree

\* The first copy of a row is the one that a create prepares.
LEMMA CreatorsCreate ==
    ASSUME TypeInv, OneCreator, NEW r \in Requests, req[r].pc = "op", UNCHANGED <<scene, db, tx>>, Others(r),
           NEW o, NEW i \in FreeIds(req[r].table), Ready(req'[r], req[r], "create", i, NoRow, o)
    PROVE  OneCreator'
<1> DEFINE k0 == <<req[r].table, i>>
<1>1. /\ req'[r].pc = "flush" /\ KeyOf(req'[r]) = k0 /\ req'[r].verb = "create"
      /\ req'[r].out = o
  BY DEF Ready, KeyOf
<1>2. \A y : ~Copy(k0, y)
  BY FreeIsNew
<1>3. \A s \in Requests \ {r} : tx'[s] = tx[s] /\ Like(req'[s], req[s])
  BY DEF Others, Like
<1> HIDE DEF k0
<1>4. ASSUME NEW k, NEW x, Copy(k, x)'
      PROVE  Copy(k, x) \/ (k = k0 /\ x = o.row)
  <2>1. \/ Copy(k, x)
        \/ k[2] \in DOMAIN db'[k[1]] /\ x = db'[k[1]][k[2]]
        \/ k \in DOMAIN tx'[r] /\ tx'[r][k] # Gone /\ x = tx'[r][k]
        \/ k = k0 /\ x = o.row
    BY <1>1, <1>3, <1>4, CopyAfter
  <2>2. QED
    BY <2>1 DEF Copy, Stored
<1> DEFINE w == [k \in {k0} |-> o.row]
<1>5. w[k0] = o.row
  OBVIOUS
<1> HIDE DEF w
<1>6. QED
  BY <1>2, <1>4, <1>5, CreatorsAgree

\* An update or a delete holds the row it saw, and keeps its creator.
LEMMA CreatorsSelect ==
    ASSUME TypeInv, OneCreator, NEW r \in Requests, req[r].pc = "op", UNCHANGED <<scene, db, tx>>, Others(r),
           NEW verb \in {"update", "delete"}, NEW i \in DOMAIN View(r)[req[r].table], NEW o,
           Ready(req'[r], req[r], verb, i, View(r)[req[r].table][i], o),
           verb = "update" /\ Owned(req[r].table) =>
              o.row.refs.creator_id = View(r)[req[r].table][i].refs.creator_id
    PROVE  OneCreator'
<1> DEFINE k0 == <<req[r].table, i>>
           old == View(r)[req[r].table][i]
<1>1. /\ req'[r].pc = "flush" /\ KeyOf(req'[r]) = k0 /\ req'[r].verb = verb
      /\ req'[r].out = o /\ req'[r].old = old
  BY DEF Ready, KeyOf
<1>2. Copy(k0, old)
  <2>1. k0 \in Keys(View(r))
    BY ViewIsOK, KeysOfView DEF TypeInv, RequestOK
  <2>2. QED
    BY <2>1, SeenIs
<1>3. \A s \in Requests \ {r} : tx'[s] = tx[s] /\ Like(req'[s], req[s])
  BY DEF Others, Like
<1>7. k0[1] = req[r].table
  OBVIOUS
<1>8. verb = "update" /\ Owned(req[r].table) => o.row.refs.creator_id = old.refs.creator_id
  OBVIOUS
<1> HIDE DEF k0, old
<1>4. ASSUME NEW k, NEW x, Copy(k, x)'
      PROVE  Copy(k, x) \/ (k = k0 /\ (x = old \/ (verb = "update" /\ x = o.row)))
  <2>1. \/ Copy(k, x)
        \/ k[2] \in DOMAIN db'[k[1]] /\ x = db'[k[1]][k[2]]
        \/ k \in DOMAIN tx'[r] /\ tx'[r][k] # Gone /\ x = tx'[r][k]
        \/ k = k0 /\ (x = old \/ (verb = "update" /\ x = o.row))
    BY <1>1, <1>3, <1>4, CopyAfter
  <2>2. QED
    BY <2>1 DEF Copy, Stored
<1>5. ASSUME NEW k, Owned(k[1]), NEW x, Copy(k, x)'
      PROVE  \E y : Copy(k, y) /\ y.refs.creator_id = x.refs.creator_id
  BY <1>2, <1>4, <1>5, <1>7, <1>8
<1>6. QED
  BY <1>5, CreatorsAgree

\* What a statement writes to a row that exists keeps its creator.
LEMMA WritesKeepCreator ==
    ASSUME TypeInv, NEW r \in Requests, req[r].pc = "flush", NEW k \in DOMAIN Writes(r), k \in scene \X Ids,
           Owned(k[1]), Writes(r)[k] # Gone
    PROVE  \/ \E y : Copy(k, y) /\ y.refs.creator_id = Writes(r)[k].refs.creator_id
           \/ \A y : ~Copy(k, y)
<1> DEFINE q == req[r]
           v == View(r)
           w == Writes(r)
<1>1. /\ RequestOK(scene, q) /\ ViewOK(scene, v) /\ scene \in Scenes /\ scene \subseteq Tables
  BY ViewIsOK, ResourcesAssumption DEF TypeInv
<1>2. CASE q.verb # "delete"
  <2>1. \/ /\ k = KeyOf(q)
           /\ \/ q.verb = "create" /\ w[k] = q.out.row
              \/ q.verb = "update" /\ q.id \in DOMAIN v[q.table] /\ w[k] = Merge(q.old, q.out, v[q.table][q.id])
        \/ \E a \in q.out.add : k[2] \in FreeIds(a.table) /\ k = <<a.table, k[2]>>
    BY <1>2, WritesBeside
  <2>2. ASSUME k = KeyOf(q)
        PROVE  Copy(k, q.out.row) /\ k[1] = q.table /\ k[2] = q.id
    BY <1>2, <2>2 DEF Copy, KeyOf
  <2>3. ASSUME k = KeyOf(q), q.id \in DOMAIN v[q.table], w[k] = Merge(q.old, q.out, v[q.table][q.id])
        PROVE  \E y : Copy(k, y) /\ y.refs.creator_id = w[k].refs.creator_id
    <3> DEFINE now == v[q.table][q.id]
    <3>1. k \in Keys(v)
      BY <1>1, <2>2, <2>3, KeysOfView DEF KeyOf, RequestOK
    <3>2. Copy(k, now) /\ IsRow(q.table, now)
      BY <2>2, <2>3, <3>1, SeenIs
    <3>3. "creator_id" \in DOMAIN now.refs
      BY <2>2, <2>3, <3>2 DEF IsRow, Owned
    <3> HIDE DEF now, w
    <3>4. w[k] = Merge(q.old, q.out, now)
      BY <2>3 DEF now
    <3>5. \/ w[k].refs.creator_id = q.out.row.refs.creator_id
          \/ w[k].refs.creator_id = now.refs.creator_id
      BY <3>3, <3>4 DEF Merge
    <3>6. QED
      BY <2>2, <2>3, <3>2, <3>5
  <2>4. ASSUME NEW t, k[2] \in FreeIds(t), k = <<t, k[2]>>
        PROVE  \A y : ~Copy(k, y)
    BY <2>4, FreeIsNew
  <2>5. QED
    BY <2>1, <2>2, <2>3, <2>4
<1>3. CASE q.verb = "delete"
  <2> DEFINE root == KeyOf(q)
  <2>1. root \in Keys(v) /\ w = Delete(v, root)
    BY <1>3, DeleteWrites DEF Nothing
  <2> HIDE DEF v, w, root
  <2>2. k \in Keys(v) /\ k \notin Doomed(v, root)
    <3>1. k \in DOMAIN w /\ w[k] # Gone
      BY DEF w
    <3>2. /\ DOMAIN Delete(v, root) \subseteq Keys(v)
          /\ \A n \in Doomed(v, root) : Delete(v, root)[n] = Gone
      BY <2>1, DeleteMarks
    <3>3. QED
      BY <2>1, <3>1, <3>2
  <2>3. /\ k[1] \in Tables /\ "creator_id" \in DOMAIN Refs(k[1])
        /\ Refs(k[1])["creator_id"].del = "cascade"
    BY <1>1, OwnersCascade DEF Owned
  <2>4. ~Points(v, k, "creator_id", Doomed(v, root))
    BY <1>1, <2>1, <2>2, <2>3, DoomedAbove
  <2>5. w[k].refs["creator_id"] = v[k[1]][k[2]].refs["creator_id"]
    BY <1>1, <2>1, <2>2, <2>3, <2>4, DeleteUnlinks DEF w
  <2>6. Copy(k, v[k[1]][k[2]])
    BY <2>2, SeenIs DEF v
  <2>7. QED
    BY <2>5, <2>6 DEF w
<1>4. QED
  BY <1>2, <1>3

\* So a statement keeps all copies of a row with one creator.
LEMMA CreatorsFlush ==
    ASSUME TypeInv, OneCreator, NEW r \in Requests, req[r].pc = "flush", UNCHANGED <<scene, db>>, Others(r),
           tx'[r] = Over(Writes(r), tx[r]), req'[r].pc # "flush"
    PROVE  OneCreator'
<1> DEFINE w == Writes(r)
<1>1. \A s \in Requests \ {r} : tx'[s] = tx[s] /\ Like(req'[s], req[s])
  BY DEF Others, Like
<1>2. ASSUME NEW k \in scene \X Ids, NEW x, Copy(k, x)'
      PROVE  Copy(k, x) \/ (k \in DOMAIN w /\ w[k] # Gone /\ x = w[k])
  <2>1. \/ Copy(k, x)
        \/ k[2] \in DOMAIN db'[k[1]] /\ x = db'[k[1]][k[2]]
        \/ k \in DOMAIN tx'[r] /\ tx'[r][k] # Gone /\ x = tx'[r][k]
    BY <1>1, <1>2, CopyAfter
  <2>2. \/ Copy(k, x)
        \/ k \in DOMAIN Over(w, tx[r]) /\ Over(w, tx[r])[k] # Gone /\ x = Over(w, tx[r])[k]
    BY <2>1 DEF Copy, Stored
  <2>3. CASE k \in DOMAIN w
    BY <2>2, <2>3 DEF Over
  <2>4. CASE k \notin DOMAIN w
    BY <2>2, <2>4 DEF Over, Copy
  <2>5. QED
    BY <2>3, <2>4
<1>3. ASSUME NEW k \in scene \X Ids, Owned(k[1]), NEW x, Copy(k, x)'
      PROVE  \/ \E y : Copy(k, y) /\ y.refs.creator_id = x.refs.creator_id
             \/ x = w[k] /\ \A y : ~Copy(k, y)
  BY <1>2, <1>3, WritesKeepCreator
<1> HIDE DEF w
<1>4. QED
  BY <1>3, CreatorsAgree

\* A new id stays unknown to the others when no step of theirs uses it.
LEMMA FreshKept ==
    ASSUME NEW s \in Requests, Fresh1(s), NEW r \in Requests \ {s},
           \A t \in Requests \ {r} : tx'[t] = tx[t] /\ Like(req'[t], req[t]),
           KeyOf(req[s])[2] \notin DOMAIN db'[KeyOf(req[s])[1]],
           KeyOf(req[s]) \notin DOMAIN tx'[r],
           req'[r].pc = "flush" => KeyOf(req'[r]) # KeyOf(req[s])
    PROVE  Fresh1(s)'
<1> DEFINE k == KeyOf(req[s])
           k2 == KeyOf(req'[s])
<1>1. k2 = k
  BY DEF Like, KeyOf
<1>2. \A t \in Requests : k \notin DOMAIN tx'[t]
  BY DEF Fresh1
<1>3. \A t \in Requests : t # s /\ req'[t].pc = "flush" => KeyOf(req'[t]) # k
  BY DEF Fresh1, Like, KeyOf
<1>4. k[2] \notin DOMAIN db'[k[1]]
  OBVIOUS
<1> HIDE DEF k, k2
<1>5. /\ k2[2] \notin DOMAIN db'[k2[1]]
      /\ \A t \in Requests : k2 \notin DOMAIN tx'[t]
      /\ \A t \in Requests : t # s /\ req'[t].pc = "flush" => KeyOf(req'[t]) # k2
  BY <1>1, <1>2, <1>3, <1>4
<1>6. QED
  BY <1>5 DEF Fresh1, Stored, k2, KeyOf

\* A statement of another request does not write the row either.
LEMMA FreshFlush ==
    ASSUME TypeInv, NEW s \in Requests, req[s].pc = "flush", Fresh1(s), NEW r \in Requests \ {s},
           req[r].pc = "flush", NEW k \in DOMAIN Writes(r)
    PROVE  k # KeyOf(req[s])
<1> DEFINE q == req[r]
           k0 == KeyOf(req[s])
<1>1. /\ RequestOK(scene, q) /\ RequestOK(scene, req[s]) /\ k0[1] \in Managed /\ KeyOf(q) # k0
      /\ ~Stored(k0) /\ \A t \in Requests : k0 \notin DOMAIN tx[t]
  BY DEF TypeInv, RequestOK, Fresh1, KeyOf
<1>2. CASE q.verb # "delete"
  <2>1. \/ k = KeyOf(q)
        \/ \E a \in q.out.add : k[2] \in FreeIds(a.table) /\ k = <<a.table, k[2]>>
        \/ k \in q.out.drop
    BY <1>2, WritesBeside
  <2>2. ASSUME NEW t, k[2] \in FreeIds(t), k = <<t, k[2]>>
        PROVE  k # k0
    BY <2>2, FreeIsNew
  <2>3. ASSUME k \in q.out.drop
        PROVE  k # k0
    <3>1. k[1] = "oauth_client_redirect_uris"
      BY <1>1, <1>2, <2>3 DEF RequestOK, Payload
    <3>2. QED
      BY <1>1, <3>1, ManagedAre
  <2>4. QED
    BY <1>1, <2>1, <2>2, <2>3
<1>3. CASE q.verb = "delete"
  <2>1. KeyOf(q) \in Keys(View(r)) /\ Writes(r) = Delete(View(r), KeyOf(q))
    BY <1>3, DeleteWrites DEF Nothing
  <2>2. k \in Keys(View(r))
    BY <2>1, DeleteMarks
  <2>3. QED
    BY <1>1, <2>2, SeenIs
<1>4. QED
  BY <1>2, <1>3

\* No step of another request makes the id of a new row known.
LEMMA FreshNext ==
    ASSUME TypeInv, NEW s \in Requests, req[s].pc = "flush", Fresh1(s), NEW r \in Requests \ {s}, Step(r)
    PROVE  Fresh1(s)'
<1> DEFINE k0 == KeyOf(req[s])
<1>1. /\ k0 \in scene \X Ids /\ ~Stored(k0) /\ \A t \in Requests : k0 \notin DOMAIN tx[t]
      /\ k0 = <<req[s].table, req[s].id>>
  BY DEF TypeInv, RequestOK, Fresh1, KeyOf
<1>2. ASSUME UNCHANGED db, tx'[r] = tx[r] \/ tx'[r] = Nothing, req'[r].pc # "flush",
             \A t \in Requests \ {r} : tx'[t] = tx[t] /\ Like(req'[t], req[t])
      PROVE  Fresh1(s)'
  <2>1. k0[2] \notin DOMAIN db'[k0[1]] /\ k0 \notin DOMAIN tx'[r]
    BY <1>1, <1>2 DEF Stored, Nothing
  <2>2. QED
    BY <1>2, <2>1, FreshKept
<1>3. ASSUME UNCHANGED <<scene, db, tx>>, Others(r), NEW verb, NEW i, NEW old, NEW o,
             Ready(req'[r], req[r], verb, i, old, o), <<req[r].table, i>> # k0
      PROVE  Fresh1(s)'
  <2>1. KeyOf(req'[r]) # k0
    BY <1>3 DEF Ready, KeyOf
  <2>2. k0[2] \notin DOMAIN db'[k0[1]] /\ k0 \notin DOMAIN tx'[r]
    BY <1>1, <1>3 DEF Stored
  <2>3. \A t \in Requests \ {r} : tx'[t] = tx[t] /\ Like(req'[t], req[t])
    BY <1>3 DEF Others, Like
  <2>4. QED
    BY <2>1, <2>2, <2>3, FreshKept
<1>4. ASSUME NEW k \in Keys(View(r))
      PROVE  k # k0
  BY <1>1, SeenIs
<1>5. ASSUME NEW status, End(r, status)
      PROVE  Fresh1(s)'
  BY <1>2, <1>5, EndIs DEF Others, Like
<1>6. CASE \E t \in scene \cap Managed : Anonymous(r, t) \/ \E c \in Callers : Read(r, c, t)
  <2>1. UNCHANGED <<scene, db, tx>> /\ Others(r) /\ req'[r].pc # "flush"
    BY <1>6, ReadIs
  <2>2. QED
    BY <1>2, <2>1 DEF Others, Like
<1>7. CASE \E t \in scene \cap Managed, c \in Callers : \E n : Receive(r, c, t, n)
  <2>1. UNCHANGED <<db, tx>> /\ req'[r].pc # "flush" /\ \A t \in Requests \ {r} : Like(req'[t], req[t])
    BY <1>7, ReceiveIs
  <2>2. QED
    BY <1>2, <2>1
<1>8. CASE Create(r)
  <2>1. ASSUME NEW i \in FreeIds(req[r].table)
        PROVE  <<req[r].table, i>> # k0
    BY FreeIsNew
  <2>2. QED
    BY <1>3, <1>5, <1>8, <2>1, CreateIs
<1>9. CASE \E verb \in {"update", "delete"} : Select(r, verb)
  <2>1. req[r].pc = "op"
    BY <1>9, SelectIs
  <2>2. req[r].table \in scene
    BY <2>1 DEF TypeInv, RequestOK
  <2>3. ASSUME NEW i \in DOMAIN View(r)[req[r].table]
        PROVE  <<req[r].table, i>> # k0
    <3>1. <<req[r].table, i>> \in Keys(View(r))
      BY <2>2, ViewIsOK, KeysOfView
    <3>2. QED
      BY <1>4, <3>1
  <2>4. \/ \E status : End(r, status)
        \/ \E i \in DOMAIN View(r)[req[r].table] :
             /\ UNCHANGED <<scene, db, tx>> /\ Others(r)
             /\ \E verb, old, o : Ready(req'[r], req[r], verb, i, old, o)
    BY <1>9, SelectIs
  <2>5. QED
    BY <1>3, <1>5, <2>3, <2>4
<1>10. CASE Flush(r)
  <2>1. /\ req[r].pc = "flush"
        /\ \/ \E status : End(r, status)
           \/ /\ UNCHANGED <<scene, db>> /\ Others(r) /\ tx'[r] = Over(Writes(r), tx[r])
              /\ req'[r].pc \in {"op", "commit"}
    BY <1>10, FlushIs
  <2>2. ASSUME UNCHANGED <<scene, db>>, Others(r), tx'[r] = Over(Writes(r), tx[r]),
               req'[r].pc \in {"op", "commit"}
        PROVE  Fresh1(s)'
    <3>1. k0 \notin DOMAIN Writes(r)
      BY <2>1, FreshFlush
    <3>2. k0[2] \notin DOMAIN db'[k0[1]] /\ k0 \notin DOMAIN tx'[r] /\ req'[r].pc # "flush"
      BY <1>1, <2>2, <3>1 DEF Stored, Over
    <3>3. \A t \in Requests \ {r} : tx'[t] = tx[t] /\ Like(req'[t], req[t])
      BY <2>2 DEF Others, Like
    <3>4. QED
      BY <3>2, <3>3, FreshKept
  <2>3. QED
    BY <1>5, <2>1, <2>2
<1>11. CASE Commit(r)
  <2>1. db' = View(r) /\ Others(r) /\ tx'[r] = Nothing /\ req'[r].pc # "flush"
    BY <1>11, CommitIs
  <2>2. k0[2] \notin DOMAIN View(r)[k0[1]]
    <3>1. k0[2] \in DOMAIN View(r)[k0[1]] => k0 \in Keys(View(r))
      BY <1>1, ViewIsOK, KeysOfView
    <3>2. QED
      BY <1>4, <3>1
  <2>3. k0 \notin DOMAIN tx'[r]
    BY <2>1 DEF Nothing
  <2>4. \A t \in Requests \ {r} : tx'[t] = tx[t] /\ Like(req'[t], req[t])
    BY <2>1 DEF Others, Like
  <2>5. QED
    BY <2>1, <2>2, <2>3, <2>4, FreshKept
<1>12. QED
  BY <1>5, <1>6, <1>7, <1>8, <1>9, <1>10, <1>11, StepIs, Zenon

\* What a request checked does not depend on what others do.
LEMMA CheckedKept ==
    ASSUME NEW s \in Requests, Checked(s), Like(req'[s], req[s]), req[s].verb = "create" => Fresh1(s)'
    PROVE  Checked(s)'
<1> DEFINE q == req[s]
           p == req'[s]
<1>1. /\ p.caller = q.caller /\ p.table = q.table /\ p.verb = q.verb /\ p.id = q.id
      /\ p.old = q.old /\ p.out = q.out /\ p.asked = q.asked
  BY DEF Like
<1>2. \A action, row : MayDo(q, action, row) => MayDo(p, action, row)
  BY <1>1 DEF MayDo
<1>3. \A t : Attached(q, t) => Attached(p, t)
  BY <1>1 DEF Attached
<1>4. /\ q.verb = "create" => MayDo(q, "CREATE", q.out.row)
      /\ q.verb # "create" => MayDo(q, ActionOf[q.verb], q.old)
      /\ q.verb = "update" =>
            /\ \A c \in Changes(q.old, q.out) : <<q.id, c>> \in q.asked
            /\ q.out.rewrites = {} \/ q.table \in RewritingTables
      /\ \A a \in q.out.add : Attached(q, a.table)
      /\ \A n \in q.out.drop : Attached(q, n[1])
  BY Zenon DEF Checked
<1> HIDE DEF p, q
<1>5. /\ p.verb = "create" => MayDo(p, "CREATE", p.out.row)
      /\ p.verb # "create" => MayDo(p, ActionOf[p.verb], p.old)
      /\ p.verb = "update" =>
            /\ \A c \in Changes(p.old, p.out) : <<p.id, c>> \in p.asked
            /\ p.out.rewrites = {} \/ p.table \in RewritingTables
      /\ \A a \in p.out.add : Attached(p, a.table)
      /\ \A n \in p.out.drop : Attached(p, n[1])
  BY <1>1, <1>2, <1>3, <1>4
<1>6. p.verb = "create" => Fresh1(s)'
  BY <1>1 DEF q
<1>7. QED
  BY <1>5, <1>6, Zenon DEF Checked, p

\* A create has passed its checks when its row is ready.
LEMMA CheckedCreate ==
    ASSUME TypeInv, NEW r \in Requests, req[r].pc = "op", UNCHANGED <<scene, db, tx>>, Others(r),
           NEW o \in Creates(req[r].table, req[r].caller, View(r)), NEW i \in FreeIds(req[r].table),
           o.refuse = 0, MayDo(req[r], "CREATE", o.row),
           Ready(req'[r], req[r], "create", i, NoRow, o)
    PROVE  Checked(r)'
<1> DEFINE q == req[r]
           p == req'[r]
           k == <<q.table, i>>
<1>1. /\ p.verb = "create" /\ p.id = i /\ p.out = o /\ p.caller = q.caller /\ p.table = q.table
      /\ KeyOf(p) = k /\ q.table \in Managed
  BY DEF Ready, KeyOf, TypeInv, RequestOK
<1>2. Fresh1(r)'
  <2>1. ~Stored(k) /\ \A s \in Requests : k \notin DOMAIN tx[s] /\ KeyOf(req[s]) # k
    BY FreeIsNew
  <2> HIDE DEF k
  <2>2. /\ ~(KeyOf(p)[2] \in DOMAIN db'[KeyOf(p)[1]])
        /\ \A s \in Requests : KeyOf(p) \notin DOMAIN tx'[s]
        /\ \A s \in Requests : s # r => KeyOf(req'[s]) # KeyOf(p)
    BY <1>1, <2>1 DEF Others, Stored
  <2>3. QED
    BY <2>2 DEF Fresh1, Stored, KeyOf
<1>3. MayDo(p, "CREATE", p.out.row)
  BY <1>1 DEF MayDo
<1>4. /\ p.out.drop = {}
      /\ \/ p.out.add = {}
         \/ q.table = "oauth_clients" /\ \E m : p.out.add = {Uri(Null, m)}
         \/ q.table = "sandbox_configs" /\ p.out.add = {SystemKey(q.caller.user)}
  BY <1>1, CreateGives
<1>5. /\ \A u : SystemKey(u).table = "api_keys"
      /\ \A m : Uri(Null, m).table = "oauth_client_redirect_uris"
  BY DEF SystemKey, Uri
<1>6. \A a \in p.out.add : Attached(p, a.table)
  BY <1>1, <1>4, <1>5 DEF Attached, Attachments
<1>7. QED
  BY <1>1, <1>2, <1>3, <1>4, <1>6 DEF Checked

\* An update or a delete has passed its checks when it holds its row.
LEMMA CheckedSelect ==
    ASSUME TypeInv, NEW r \in Requests, req[r].pc = "op",
           NEW i \in DOMAIN View(r)[req[r].table], NEW verb \in {"update", "delete"},
           verb \in Verbs[req[r].table], NEW o,
           MayDo(req[r], ActionOf[verb], View(r)[req[r].table][i]),
           Ready(req'[r], req[r], verb, i, View(r)[req[r].table][i], o),
           \/ verb = "delete" /\ o = Write(NoRow)
           \/ /\ verb = "update" /\ o \in Patches(req[r].table, req[r].caller, View(r), i)
              /\ o.refuse = 0
              /\ req'[r].asked = req[r].asked \cup ({i} \X Changes(View(r)[req[r].table][i], o))
    PROVE  Checked(r)'
<1> DEFINE q == req[r]
           p == req'[r]
           old == View(r)[q.table][i]
<1>1. /\ p.verb = verb /\ p.id = i /\ p.out = o /\ p.old = old /\ p.caller = q.caller
      /\ p.table = q.table
  BY DEF Ready
<1>2. q.table \in Managed /\ IsRow(q.table, old)
  BY ViewIsOK DEF ViewOK, TypeInv, RequestOK
<1>3. MayDo(p, ActionOf[p.verb], p.old)
  BY <1>1 DEF MayDo
<1>4. CASE verb = "delete" /\ o = Write(NoRow)
  <2>1. o.add = {} /\ o.drop = {}
    BY <1>4, PlainOutcomes
  <2> HIDE DEF old
  <2>2. QED
    BY <1>1, <1>3, <1>4, <2>1 DEF Checked
<1>5. CASE /\ verb = "update" /\ o \in Patches(q.table, q.caller, View(r), i)
           /\ o.refuse = 0 /\ p.asked = q.asked \cup ({i} \X Changes(old, o))
  <2>1. /\ o.rewrites = {} \/ q.table = "mcp_server_configs"
        /\ \/ o.add = {} /\ o.drop = {}
           \/ /\ q.table = "oauth_clients" /\ \E m : o.add = {Uri(i, m)}
              /\ \A n \in o.drop : n[1] = "oauth_client_redirect_uris"
    BY <1>2, <1>5, PatchGives
  <2>2. \A m : Uri(i, m).table = "oauth_client_redirect_uris"
    BY DEF Uri
  <2>3. (\A a \in o.add : Attached(p, a.table)) /\ \A n \in o.drop : Attached(p, n[1])
    BY <1>1, <2>1, <2>2 DEF Attached, Attachments
  <2>4. o.rewrites = {} \/ q.table \in RewritingTables
    BY <2>1 DEF RewritingTables
  <2> HIDE DEF old
  <2>5. \A c \in Changes(p.old, p.out) : <<p.id, c>> \in p.asked
    BY <1>1, <1>5
  <2>6. QED
    BY <1>1, <1>3, <1>5, <2>3, <2>4, <2>5 DEF Checked
<1>6. QED
  BY <1>4, <1>5

\* What makes a row of a transaction justified after a step.
LEMMA JustifiedAfter ==
    ASSUME NEW r \in Requests, NEW k, NEW old, NEW new, tx'[r][k] = new,
           k[2] \in DOMAIN db'[k[1]] <=> Stored(k), Stored(k) => db'[k[1]][k[2]] = old,
           NEW q, req'[r].caller = q.caller, req'[r].table = q.table, q.asked \subseteq req'[r].asked,
           ~Stored(k) /\ new # Gone =>
               Attached(q, k[1]) \/ (k[1] = q.table /\ MayDo(q, "CREATE", new)),
           Stored(k) /\ new # Gone =>
               \/ /\ k[1] = q.table /\ MayDo(q, "UPDATE", old)
                  /\ k[1] \in RewritingTables \/ \A c \in Changes(old, Write(new)) : <<k[2], c>> \in q.asked
               \/ k[1] # q.table /\ Released(r, k, old, new)',
           Stored(k) /\ new = Gone =>
               \/ Attached(q, k[1])
               \/ k[1] = q.table /\ MayDo(q, "DELETE", old)
               \/ \E c \in DOMAIN Refs(k[1]) : Removed(r, Parent(k, old, c))'
    PROVE  Justified(r, k)'
<1> DEFINE p == req'[r]
           was == db'[k[1]][k[2]]
<1>1. \A action, row : MayDo(q, action, row) => MayDo(p, action, row)
  BY DEF MayDo
<1>2. Attached(q, k[1]) => Attached(p, k[1])
  BY DEF Attached
<1>3. p.table = q.table /\ (Stored(k) => was = old) /\ q.asked \subseteq p.asked
  OBVIOUS
<1>4. Stored(k)' <=> Stored(k)
  BY DEF Stored
<1>5. Stored(k) => /\ (Released(r, k, old, new)' => Released(r, k, db[k[1]][k[2]], new)')
                   /\ \A c : Removed(r, Parent(k, old, c))' => Removed(r, Parent(k, db[k[1]][k[2]], c))'
  BY DEF Released, Parent, Removed
<1> HIDE DEF p, was
<1>6. ~Stored(k)' /\ new # Gone =>
           Attached(p, k[1]) \/ (k[1] = p.table /\ MayDo(p, "CREATE", new))
  BY <1>1, <1>2, <1>3, <1>4
<1>7. Stored(k)' /\ new # Gone =>
            \/ /\ k[1] = p.table /\ MayDo(p, "UPDATE", was)
               /\ k[1] \in RewritingTables \/ \A c \in Changes(was, Write(new)) : <<k[2], c>> \in p.asked
            \/ k[1] # p.table /\ Released(r, k, db[k[1]][k[2]], new)'
  BY <1>1, <1>3, <1>4, <1>5
<1>8. Stored(k)' /\ new = Gone =>
            \/ Attached(p, k[1])
            \/ k[1] = p.table /\ MayDo(p, "DELETE", was)
            \/ \E c \in DOMAIN Refs(k[1]) : Removed(r, Parent(k, db[k[1]][k[2]], c))'
  BY <1>1, <1>2, <1>3, <1>4, <1>5
<1>9. QED
  BY <1>6, <1>7, <1>8, Zenon DEF Justified, p, was

\* A reason holds as long as the row, its old version and the caller are the same.
LEMMA JustifiedKept ==
    ASSUME NEW s \in Requests, NEW k, Justified(s, k), tx'[s] = tx[s],
           req'[s].caller = req[s].caller, req'[s].table = req[s].table,
           req[s].asked \subseteq req'[s].asked,
           k[2] \in DOMAIN db'[k[1]] <=> Stored(k), Stored(k) => db'[k[1]][k[2]] = db[k[1]][k[2]]
    PROVE  Justified(s, k)'
<1> DEFINE q0 == req[s]
<1>0. PICK old, new, q : old = db[k[1]][k[2]] /\ new = tx[s][k] /\ q = q0
  OBVIOUS
<1>1. \A n : Removed(s, n) => Removed(s, n)'
  BY DEF Removed
<1>2. \A x, y : Released(s, k, x, y) => Released(s, k, x, y)'
  BY <1>1 DEF Released
<1>3. ~Stored(k) /\ new # Gone =>
           Attached(q, k[1]) \/ (k[1] = q.table /\ MayDo(q, "CREATE", new))
  BY <1>0 DEF Justified
<1>4. Stored(k) /\ new # Gone =>
           \/ /\ k[1] = q.table /\ MayDo(q, "UPDATE", old)
              /\ k[1] \in RewritingTables \/ \A c \in Changes(old, Write(new)) : <<k[2], c>> \in q.asked
           \/ k[1] # q.table /\ Released(s, k, old, new)
  BY <1>0 DEF Justified
<1>5. Stored(k) /\ new = Gone =>
           \/ Attached(q, k[1])
           \/ k[1] = q.table /\ MayDo(q, "DELETE", old)
           \/ \E c \in DOMAIN Refs(k[1]) : Removed(s, Parent(k, old, c))
  BY <1>0 DEF Justified
<1>6. /\ tx'[s][k] = new /\ (Stored(k) => db'[k[1]][k[2]] = old)
      /\ req'[s].caller = q.caller /\ req'[s].table = q.table /\ q.asked \subseteq req'[s].asked
  BY <1>0
<1>7. QED
  BY <1>1, <1>2, <1>3, <1>4, <1>5, <1>6, JustifiedAfter

\* An UPDATE changes what its request changed, and what had been changed before.
LEMMA MergeChanges ==
    ASSUME NEW t, NEW old, NEW out, NEW now, NEW was, IsRow(t, old), IsRow(t, now), IsRow(t, was),
           out.rewrites = {}, NEW c \in Changes(was, Write(Merge(old, out, now)))
    PROVE  c \in Changes(old, out) \/ c \in Changes(was, Write(now))
<1> DEFINE new == Merge(old, out, now)
<1>1. Write(new).row = new /\ Write(now).row = now
  BY PlainOutcomes
<1>2. DOMAIN old.refs = DOMAIN Refs(t) /\ DOMAIN now.refs = DOMAIN Refs(t) /\ DOMAIN was.refs = DOMAIN Refs(t)
  BY DEF IsRow
<1>3. /\ new["name"] = IF out.row["name"] # old["name"] THEN out.row["name"] ELSE now["name"]
      /\ new["val"] = IF out.row["val"] # old["val"] THEN out.row["val"] ELSE now["val"]
      /\ \A d \in DOMAIN Refs(t) :
           new.refs[d] = IF out.row.refs[d] # old.refs[d] THEN out.row.refs[d] ELSE now.refs[d]
  BY <1>2 DEF Merge
<1> HIDE DEF new
<1>4. CASE c \in {"name", "val"} /\ new[c] # was[c]
  <2>1. out.row[c] # old[c] \/ now[c] # was[c]
    BY <1>3, <1>4
  <2>2. QED
    BY <1>1, <1>4, <2>1 DEF Changes
<1>5. CASE c \in DOMAIN Refs(t) /\ new.refs[c] # was.refs[c]
  <2>1. out.row.refs[c] # old.refs[c] \/ now.refs[c] # was.refs[c]
    BY <1>3, <1>5
  <2>2. QED
    BY <1>1, <1>2, <1>5, <2>1 DEF Changes
<1>6. QED
  BY <1>1, <1>2, <1>4, <1>5 DEF Changes, new

\* The row that an update writes is justified by what it checked and asked for.
LEMMA UpdateJustified ==
    ASSUME TypeInv, OneCreator, NEW r \in Requests, req[r].pc = "flush", req[r].verb = "update", Checked(r),
           \A n \in DOMAIN tx[r] : Justified(r, n), NEW k, k = KeyOf(req[r]), k \in Keys(View(r)),
           NEW old, Stored(k) => old = db[k[1]][k[2]],
           NEW new, new = Merge(req[r].old, req[r].out, View(r)[k[1]][k[2]])
    PROVE  LET q == req[r] IN
           /\ ~Stored(k) => Attached(q, k[1]) \/ MayDo(q, "CREATE", new)
           /\ Stored(k) =>
                /\ MayDo(q, "UPDATE", old)
                /\ k[1] \in RewritingTables \/ \A c \in Changes(old, Write(new)) : <<k[2], c>> \in q.asked
<1> DEFINE q == req[r]
           now == View(r)[k[1]][k[2]]
<1>1. /\ k[1] = q.table /\ k[2] = q.id /\ k \in scene \X Ids /\ IsRow(q.table, now) /\ Copy(k, now)
      /\ \/ k \in DOMAIN tx[r] /\ tx[r][k] # Gone /\ now = tx[r][k]
         \/ k \notin DOMAIN tx[r] /\ Stored(k) /\ now = db[k[1]][k[2]]
  BY SeenIs DEF KeyOf
<1>2. IsRow(q.table, q.old) /\ ViewOK(scene, db)
  BY DEF TypeInv, RequestOK
<1>3. Copy(k, q.old) /\ Copy(k, q.out.row)
  BY DEF Copy
<1>4. /\ MayDo(q, "UPDATE", q.old) /\ \A c \in Changes(q.old, q.out) : <<q.id, c>> \in q.asked
      /\ q.out.rewrites = {} \/ q.table \in RewritingTables
  BY DEF Checked, ActionOf
<1> HIDE DEF now
<1>5. new = Merge(q.old, q.out, now)
  BY DEF now
<1>6. ASSUME ~Stored(k)
      PROVE  Attached(q, k[1]) \/ MayDo(q, "CREATE", new)
  <2>1. Attached(q, k[1]) \/ MayDo(q, "CREATE", now)
    <3>1. Justified(r, k) /\ now # Gone /\ now = tx[r][k]
      BY <1>1, <1>6
    <3>2. QED
      BY <1>6, <3>1, Zenon DEF Justified
  <2>2. ASSUME Owned(q.table)
        PROVE  new.refs.creator_id = now.refs.creator_id
    <3>1. "creator_id" \in DOMAIN now.refs
      BY <1>1, <2>2 DEF IsRow, Owned
    <3>2. \/ new.refs["creator_id"] = q.out.row.refs["creator_id"]
          \/ new.refs["creator_id"] = now.refs["creator_id"]
      <4>1. Merge(q.old, q.out, now).refs = [c \in DOMAIN now.refs |->
                IF q.out.row.refs[c] # q.old.refs[c] THEN q.out.row.refs[c] ELSE now.refs[c]]
        BY DEF Merge
      <4>2. QED
        BY <1>5, <3>1, <4>1
    <3>3. q.out.row.refs.creator_id = now.refs.creator_id
      BY <1>1, <1>3, <2>2 DEF OneCreator
    <3>4. QED
      BY <3>2, <3>3
  <2>3. QED
    BY <2>1, <2>2, MayDoSame
<1>7. ASSUME Stored(k)
      PROVE  MayDo(q, "UPDATE", old)
  <2>1. Copy(k, old)
    BY <1>7 DEF Copy
  <2>2. Owned(q.table) => q.old.refs.creator_id = old.refs.creator_id
    BY <1>1, <1>3, <2>1 DEF OneCreator
  <2>3. QED
    BY <1>4, <2>2, MayDoSame
<1>8. ASSUME Stored(k), k[1] \notin RewritingTables, NEW c \in Changes(old, Write(new))
      PROVE  <<k[2], c>> \in q.asked
  <2>1. IsRow(q.table, old)
    BY <1>1, <1>2, <1>8 DEF ViewOK, Stored
  <2>2. c \in Changes(q.old, q.out) \/ c \in Changes(old, Write(now))
    BY <1>1, <1>2, <1>4, <1>5, <1>8, <2>1, MergeChanges
  <2>3. ASSUME c \in Changes(old, Write(now)), k \in DOMAIN tx[r], now = tx[r][k], now # Gone
        PROVE  <<k[2], c>> \in q.asked
    <3>1. Justified(r, k)
      BY <2>3
    <3>2. \A d \in Changes(db[k[1]][k[2]], Write(tx[r][k])) : <<k[2], d>> \in q.asked
      BY <1>1, <1>8, <2>3, <3>1, Zenon DEF Justified
    <3>3. QED
      BY <1>8, <2>3, <3>2
  <2>4. ASSUME now = db[k[1]][k[2]]
        PROVE  c \notin Changes(old, Write(now))
    <3>1. Write(now).row = now /\ now = old
      BY <1>8, <2>4, PlainOutcomes
    <3>2. QED
      BY <3>1 DEF Changes
  <2>5. QED
    BY <1>1, <1>4, <2>2, <2>3, <2>4
<1>9. QED
  BY <1>6, <1>7, <1>8

\* A row of another table was put beside a resource, or at most lost pointers so far.
LEMMA SeenBeside ==
    ASSUME TypeInv, NEW r \in Requests, \A n \in DOMAIN tx[r] : Justified(r, n),
           NEW k \in Keys(View(r)), k[1] # req[r].table
    PROVE  /\ ~Stored(k) => Attached(req[r], k[1])
           /\ Stored(k) => Released(r, k, db[k[1]][k[2]], View(r)[k[1]][k[2]])
<1>1. \/ k \in DOMAIN tx[r] /\ tx[r][k] # Gone /\ View(r)[k[1]][k[2]] = tx[r][k]
      \/ k \notin DOMAIN tx[r] /\ Stored(k) /\ View(r)[k[1]][k[2]] = db[k[1]][k[2]]
  BY SeenIs
<1>2. CASE k \in DOMAIN tx[r] /\ tx[r][k] # Gone /\ View(r)[k[1]][k[2]] = tx[r][k]
  <2>1. Justified(r, k)
    BY <1>2
  <2>2. /\ ~Stored(k) => Attached(req[r], k[1])
        /\ Stored(k) => Released(r, k, db[k[1]][k[2]], tx[r][k])
    BY <1>2, <2>1, Zenon DEF Justified
  <2>3. QED
    BY <1>2, <2>2
<1>3. CASE Stored(k) /\ View(r)[k[1]][k[2]] = db[k[1]][k[2]]
  BY <1>3 DEF Released
<1>4. QED
  BY <1>1, <1>2, <1>3

(* What a delete takes along hangs on what it removes, in the database as  *)
(* in the view of its transaction.                                         *)
LEMMA DeleteJustified ==
    ASSUME TypeInv, OneCreator, NEW r \in Requests, req[r].pc = "flush", req[r].verb = "delete", Checked(r),
           \A n \in DOMAIN tx[r] : Justified(r, n),
           \A n : \/ Removed(r, n)
                  \/ n \in DOMAIN Writes(r) /\ Writes(r)[n] = Gone
                  => Removed(r, n)',
           NEW k \in DOMAIN Writes(r),
           NEW old, Stored(k) => old = db[k[1]][k[2]], NEW new, new = Writes(r)[k]
    PROVE  LET q == req[r] IN
           /\ ~Stored(k) /\ new # Gone => Attached(q, k[1])
           /\ Stored(k) /\ new # Gone => k[1] # q.table /\ Released(r, k, old, new)'
           /\ Stored(k) /\ new = Gone =>
                \/ k[1] = q.table /\ MayDo(q, "DELETE", old)
                \/ \E c \in DOMAIN Refs(k[1]) : Removed(r, Parent(k, old, c))'
<1> DEFINE q == req[r]
           v == View(r)
           w == Writes(r)
           root == KeyOf(q)
           doomed == Doomed(v, root)
           row == v[k[1]][k[2]]
<1>1. root \in Keys(v) /\ w = Delete(v, root) /\ root[1] = q.table
  BY DeleteWrites DEF Nothing, KeyOf
<1>2. ViewOK(scene, v) /\ scene \in Scenes /\ scene \subseteq Tables /\ ViewOK(scene, db)
  BY ViewIsOK, ResourcesAssumption DEF TypeInv
<1>3. /\ k \in Keys(v) /\ doomed \subseteq Keys(v) /\ Keys(v) \subseteq scene \X Ids
      /\ \A n \in doomed : n \in DOMAIN w /\ w[n] = Gone
  <2>1. k \in DOMAIN w
    OBVIOUS
  <2> HIDE DEF v, w, root, doomed
  <2>2. /\ DOMAIN Delete(v, root) = doomed \cup Held(v, doomed, "null") /\ DOMAIN Delete(v, root) \subseteq Keys(v)
        /\ \A n \in doomed : Delete(v, root)[n] = Gone
    BY <1>1, DeleteMarks DEF doomed
  <2>3. doomed \subseteq Keys(v) /\ Keys(v) \subseteq scene \X Ids
    BY <1>1, <1>2, DoomedAreRows, KeysOfView DEF doomed
  <2>4. QED
    BY <1>1, <2>1, <2>2, <2>3
<1>4. k \in scene \X Ids /\ k = <<k[1], k[2]>> /\ IsRow(k[1], row) /\ Copy(k, row)
  BY <1>3, SeenIs
<1>5. k[1] # q.table =>
           /\ ~Stored(k) => Attached(q, k[1])
           /\ Stored(k) => Released(r, k, old, row)
  BY <1>3, SeenBeside
<1>6. \A n \in doomed : Removed(r, n)'
  BY <1>3
<1>7. Stored(k) => IsRow(k[1], old)
  BY <1>2, <1>4 DEF ViewOK, Stored
<1>8. MayDo(q, "DELETE", q.old) /\ (k = root => Copy(k, q.old))
  BY DEF Checked, ActionOf, Copy
<1>9. Null \notin Ids
  BY DEF Null, Ids
<1>13. \A n : Removed(r, n) => Removed(r, n)'
  OBVIOUS
<1>14. new = w[k]
  OBVIOUS
<1> HIDE DEF v, w, root, doomed, row
<1>10. CASE k = root
  <2>1. new = Gone
    <3>1. k \in doomed
      BY <1>10 DEF doomed, Doomed, Cascade
    <3>2. QED
      BY <1>3, <1>14, <3>1
  <2>2. ASSUME Stored(k)
        PROVE  MayDo(q, "DELETE", old)
    <3>1. Copy(k, old)
      BY <2>2 DEF Copy
    <3>2. Owned(q.table) => q.old.refs.creator_id = old.refs.creator_id
      BY <1>1, <1>4, <1>8, <1>10, <3>1 DEF OneCreator
    <3>3. QED
      BY <1>8, <3>2, MayDoSame
  <2>3. QED
    BY <1>1, <1>10, <2>1, <2>2
<1>11. CASE k \in doomed /\ k # root
  <2>1. Level(root[1]) < Level(k[1])
    BY <1>1, <1>2, <1>11, DoomedAbove DEF doomed
  <2>2. k[1] # q.table
    <3>1. Level(root[1]) \in 0..3
      BY LevelsAre
    <3>2. QED
      BY <1>1, <2>1, <3>1
  <2>3. PICK c \in DOMAIN Refs(k[1]) : Points(v, k, c, doomed)
    BY <1>11, DoomedHang DEF doomed
  <2>4. Parent(k, row, c) \in doomed
    BY <2>3 DEF Points, Parent, row
  <2>5. row.refs[c] # Null
    BY <1>3, <1>9, <2>4 DEF Parent
  <2>6. ASSUME Stored(k)
        PROVE  row.refs[c] = old.refs[c]
    <3>1. c \in DOMAIN old.refs
      BY <1>7, <2>6 DEF IsRow
    <3>2. QED
      BY <1>5, <2>2, <2>5, <2>6, <3>1 DEF Released
  <2>7. Stored(k) => Removed(r, Parent(k, old, c))'
    BY <1>6, <2>4, <2>6 DEF Parent
  <2>8. new = Gone
    BY <1>3, <1>11, <1>14
  <2>9. QED
    BY <2>7, <2>8
<1>12. CASE k \notin doomed
  <2>1. /\ k[1] # q.table /\ new # Gone /\ new.name = row.name /\ new.val = row.val
        /\ \A c \in DOMAIN Refs(k[1]) : new.refs[c] = IF Points(v, k, c, doomed) THEN Null ELSE row.refs[c]
    BY <1>1, <1>2, <1>12, <1>14, DeleteUnlinks DEF doomed, row, w
  <2>2. ASSUME Stored(k)
        PROVE  Released(r, k, old, new)'
    <3>1. Released(r, k, old, row) /\ DOMAIN old.refs = DOMAIN Refs(k[1])
      BY <1>5, <1>7, <2>1, <2>2 DEF IsRow
    <3>2. ASSUME NEW c \in DOMAIN Refs(k[1])
          PROVE  new.refs[c] = old.refs[c] \/ (new.refs[c] = Null /\ Removed(r, Parent(k, old, c))')
      <4>1. \/ row.refs[c] = old.refs[c]
            \/ row.refs[c] = Null /\ Removed(r, Parent(k, old, c))'
        BY <1>13, <3>1 DEF Released
      <4>2. CASE Points(v, k, c, doomed)
        <5>1. Parent(k, row, c) \in doomed
          BY <4>2 DEF Points, Parent, row
        <5>2. row.refs[c] # Null
          BY <1>3, <1>9, <5>1 DEF Parent
        <5>3. Parent(k, old, c) \in doomed
          BY <4>1, <5>1, <5>2 DEF Parent
        <5>4. QED
          BY <1>6, <2>1, <4>2, <5>3
      <4>3. CASE ~Points(v, k, c, doomed)
        BY <2>1, <4>1, <4>3
      <4>4. QED
        BY <4>2, <4>3
    <3>3. new.name = old.name /\ new.val = old.val
      BY <2>1, <3>1 DEF Released
    <3>4. QED
      BY <3>1, <3>2, <3>3 DEF Released, Parent
  <2>3. QED
    BY <1>5, <2>1, <2>2
<1>15. QED
  BY <1>10, <1>11, <1>12

(* After a statement every row of the transaction is there for a reason.   *)
LEMMA JustifiedFlush ==
    ASSUME TypeInv, OneCreator, NEW r \in Requests, req[r].pc = "flush", Checked(r),
           \A n \in DOMAIN tx[r] : Justified(r, n), UNCHANGED <<scene, db>>,
           tx'[r] = Over(Writes(r), tx[r]), req'[r].caller = req[r].caller,
           req'[r].table = req[r].table, req'[r].asked = req[r].asked, NEW k \in DOMAIN tx'[r]
    PROVE  Justified(r, k)'
<1> DEFINE q0 == req[r]
           w == Writes(r)
           u == tx[r]
<1>0. PICK old, new, q : old = db[k[1]][k[2]] /\ new = tx'[r][k] /\ q = q0
  OBVIOUS
<1>1. /\ k[2] \in DOMAIN db'[k[1]] <=> Stored(k)
      /\ db'[k[1]][k[2]] = old
  BY <1>0 DEF Stored
<1>2. ASSUME NEW n, \/ Removed(r, n)
                    \/ n \in DOMAIN w /\ w[n] = Gone
      PROVE  Removed(r, n)'
  <2>1. Removed(r, n) /\ n \in DOMAIN w => w[n] = Gone
    BY GoneStays DEF Checked
  <2>2. n \in DOMAIN Over(w, u) /\ Over(w, u)[n] = Gone
    BY <1>2, <2>1 DEF Over, Removed
  <2>3. QED
    BY <2>2 DEF Removed
<1>3. CASE k \notin DOMAIN w
  <2>1. k \in DOMAIN u /\ new = u[k]
    BY <1>0, <1>3 DEF Over
  <2>2. Justified(r, k)
    BY <2>1
  <2>3. ~Stored(k) /\ new # Gone =>
           Attached(q, k[1]) \/ (k[1] = q.table /\ MayDo(q, "CREATE", new))
    BY <1>0, <2>1, <2>2, Zenon DEF Justified
  <2>4. Stored(k) /\ new # Gone =>
           \/ /\ k[1] = q.table /\ MayDo(q, "UPDATE", old)
              /\ k[1] \in RewritingTables \/ \A c \in Changes(old, Write(new)) : <<k[2], c>> \in q.asked
           \/ k[1] # q.table /\ Released(r, k, old, new)
    BY <1>0, <2>1, <2>2 DEF Justified
  <2>5. Stored(k) /\ new = Gone =>
           \/ Attached(q, k[1])
           \/ k[1] = q.table /\ MayDo(q, "DELETE", old)
           \/ \E c \in DOMAIN Refs(k[1]) : Removed(r, Parent(k, old, c))
    BY <1>0, <2>1, <2>2 DEF Justified
  <2>6. Released(r, k, old, new) => Released(r, k, old, new)'
    BY <1>2 DEF Released
  <2> HIDE DEF w, u
  <2>7. QED
    BY <1>0, <1>1, <1>2, <2>3, <2>4, <2>5, <2>6, JustifiedAfter
<1>4. CASE k \in DOMAIN w
  <2>1. new = w[k]
    BY <1>0, <1>4 DEF Over
  <2>2. ASSUME /\ ~Stored(k) /\ new # Gone =>
                    Attached(q, k[1]) \/ (k[1] = q.table /\ MayDo(q, "CREATE", new)),
               Stored(k) /\ new # Gone =>
                  \/ /\ k[1] = q.table /\ MayDo(q, "UPDATE", old)
                     /\ k[1] \in RewritingTables \/ \A c \in Changes(old, Write(new)) : <<k[2], c>> \in q.asked
                  \/ k[1] # q.table /\ Released(r, k, old, new)',
               Stored(k) /\ new = Gone =>
                  \/ Attached(q, k[1])
                  \/ k[1] = q.table /\ MayDo(q, "DELETE", old)
                  \/ \E c \in DOMAIN Refs(k[1]) : Removed(r, Parent(k, old, c))'
        PROVE  Justified(r, k)'
    <3> HIDE DEF w, u
    <3>1. QED
      BY <1>0, <1>1, <2>2, JustifiedAfter
  <2>3. CASE q.verb = "delete"
    <3> HIDE DEF w, u
    <3>1. /\ ~Stored(k) /\ new # Gone => Attached(q, k[1])
          /\ Stored(k) /\ new # Gone => k[1] # q.table /\ Released(r, k, old, new)'
          /\ Stored(k) /\ new = Gone =>
                \/ k[1] = q.table /\ MayDo(q, "DELETE", old)
                \/ \E c \in DOMAIN Refs(k[1]) : Removed(r, Parent(k, old, c))'
      BY <1>0, <1>2, <1>4, <2>1, <2>3, DeleteJustified DEF w
    <3>2. QED
      BY <2>2, <3>1
  <2>4. ASSUME q.verb # "delete", k = KeyOf(q), q.verb = "create", new = q.out.row, IsRow(q.table, new)
        PROVE  Justified(r, k)'
    <3>1. ~Stored(k) /\ MayDo(q, "CREATE", new) /\ k[1] = q.table /\ new # Gone
      BY <1>0, <2>4, RowIsNotGone DEF Checked, Fresh1, KeyOf
    <3>2. QED
      BY <2>2, <3>1
  <2>5. ASSUME k = KeyOf(q), q.verb = "update", q.id \in DOMAIN View(r)[q.table], IsRow(q.table, new),
               new = Merge(q.old, q.out, View(r)[q.table][q.id])
        PROVE  Justified(r, k)'
    <3>1. k[1] = q.table /\ k[2] = q.id /\ new # Gone
      BY <2>5, RowIsNotGone DEF KeyOf
    <3>2. k \in Keys(View(r))
      BY <1>0, <2>5, ViewIsOK, KeysOfView DEF KeyOf, TypeInv, RequestOK
    <3>3. /\ ~Stored(k) => Attached(q, k[1]) \/ MayDo(q, "CREATE", new)
          /\ Stored(k) =>
               /\ MayDo(q, "UPDATE", old)
               /\ k[1] \in RewritingTables \/ \A c \in Changes(old, Write(new)) : <<k[2], c>> \in q.asked
      BY <1>0, <2>5, <3>1, <3>2, UpdateJustified
    <3>4. QED
      BY <2>2, <3>1, <3>3
  <2>6. ASSUME q.verb # "delete", NEW a \in q.out.add, k[2] \in FreeIds(a.table), k = <<a.table, k[2]>>,
               IsRow(a.table, new)
        PROVE  Justified(r, k)'
    <3>1. ~Stored(k) /\ Attached(q, k[1]) /\ new # Gone
      BY <1>0, <2>6, FreeIsNew, RowIsNotGone DEF Checked
    <3>2. QED
      BY <2>2, <3>1
  <2>7. ASSUME k \in q.out.drop, new = Gone
        PROVE  Justified(r, k)'
    <3>1. Attached(q, k[1])
      BY <1>0, <2>7 DEF Checked
    <3>2. QED
      BY <2>2, <2>7, <3>1
  <2>8. q.verb # "delete" =>
           \/ /\ k = KeyOf(q) /\ IsRow(q.table, new)
              /\ \/ q.verb = "create" /\ new = q.out.row
                 \/ /\ q.verb = "update" /\ q.id \in DOMAIN View(r)[q.table]
                    /\ new = Merge(q.old, q.out, View(r)[q.table][q.id])
           \/ \E a \in q.out.add : k[2] \in FreeIds(a.table) /\ k = <<a.table, k[2]>> /\ IsRow(a.table, new)
           \/ k \in q.out.drop /\ new = Gone
    BY <1>0, <1>4, <2>1, WritesBeside
  <2> HIDE DEF w, u
  <2>9. QED
    BY <2>3, <2>4, <2>5, <2>6, <2>7, <2>8
<1>5. QED
  BY <1>3, <1>4

\* What a step leaves of the other requests and of the database.
LEMMA FrameIs ==
    ASSUME TypeInv, NEW r \in Requests, Step(r)
    PROVE  /\ UNCHANGED scene /\ \A s \in Requests \ {r} : tx'[s] = tx[s] /\ Like(req'[s], req[s])
           /\ UNCHANGED db \/ Commit(r)
<1>1. Others(r) => \A s \in Requests \ {r} : tx'[s] = tx[s] /\ Like(req'[s], req[s])
  BY DEF Others, Like
<1>2. CASE \E t \in scene \cap Managed, c \in Callers : \E n : Receive(r, c, t, n)
  BY <1>2, ReceiveIs
<1>3. CASE \E t \in scene \cap Managed : Anonymous(r, t) \/ \E c \in Callers : Read(r, c, t)
  BY <1>1, <1>3, ReadIs
<1>4. ASSUME NEW status, End(r, status)
      PROVE  UNCHANGED <<scene, db>> /\ Others(r)
  BY <1>4, EndIs
<1>5. CASE Flush(r)
  <2>1. UNCHANGED <<scene, db>> /\ Others(r)
    BY <1>4, <1>5, FlushIs
  <2>2. QED
    BY <1>1, <2>1
<1>6. CASE Create(r)
  <2>1. UNCHANGED <<scene, db>> /\ Others(r)
    BY <1>4, <1>6, CreateIs
  <2>2. QED
    BY <1>1, <2>1
<1>7. CASE \E verb \in {"update", "delete"} : Select(r, verb)
  <2>1. UNCHANGED <<scene, db>> /\ Others(r)
    BY <1>4, <1>7, SelectIs
  <2>2. QED
    BY <1>1, <2>1
<1>8. CASE Commit(r)
  BY <1>1, <1>8, CommitIs
<1>9. QED
  BY <1>1, <1>2, <1>3, <1>4, <1>5, <1>6, <1>7, <1>8, StepIs

\* The reasons of one request are not touched by the steps of another.
LEMMA EffectOthers ==
    ASSUME TypeInv, KeyInv, EffectInv, NEW r \in Requests, Step(r), NEW s \in Requests \ {r}
    PROVE  /\ (req[s].pc = "flush" => Checked(s))'
           /\ \A k \in DOMAIN tx'[s] : Justified(s, k)'
<1>1. /\ UNCHANGED scene /\ tx'[s] = tx[s] /\ Like(req'[s], req[s])
      /\ UNCHANGED db \/ Commit(r)
  BY FrameIs
<1>2. ASSUME req'[s].pc = "flush"
      PROVE  Checked(s)'
  <2>1. req[s].pc = "flush" /\ Checked(s)
    BY <1>1, <1>2 DEF Like, EffectInv
  <2>2. req[s].verb = "create" => Fresh1(s)'
    BY <2>1, FreshNext DEF Checked
  <2>3. QED
    BY <1>1, <2>1, <2>2, CheckedKept
<1>3. ASSUME NEW k \in DOMAIN tx[s]
      PROVE  Justified(s, k)'
  <2>1. Justified(s, k)
    BY DEF EffectInv
  <2>2. k[2] \in DOMAIN db'[k[1]] <=> Stored(k)
    <3>1. CASE UNCHANGED db
      BY <3>1 DEF Stored
    <3>2. CASE Commit(r)
      <4>1. db' = View(r) /\ k \notin DOMAIN tx[r]
        BY <3>2, CommitIs DEF KeyInv, Exclusive
      <4>2. k[1] \in DOMAIN db /\ k = <<k[1], k[2]>>
        BY DEF TypeInv, Written, ViewOK
      <4>3. QED
        BY <4>1, <4>2, OverlayAt DEF View, Stored
    <3>3. QED
      BY <1>1, <3>1, <3>2
  <2>3. Stored(k) => db'[k[1]][k[2]] = db[k[1]][k[2]]
    <3>1. CASE UNCHANGED db
      BY <3>1
    <3>2. CASE Commit(r)
      <4>1. db' = View(r) /\ k \notin DOMAIN tx[r]
        BY <3>2, CommitIs DEF KeyInv, Exclusive
      <4>2. k[1] \in DOMAIN db /\ k = <<k[1], k[2]>>
        BY DEF TypeInv, Written, ViewOK
      <4>3. QED
        BY <4>1, <4>2, OverlayAt DEF View, Stored
    <3>3. QED
      BY <1>1, <3>1, <3>2
  <2>4. /\ req'[s].caller = req[s].caller /\ req'[s].table = req[s].table
        /\ req[s].asked \subseteq req'[s].asked
    BY <1>1 DEF Like
  <2>5. QED
    BY <1>1, <2>1, <2>2, <2>3, <2>4, JustifiedKept
<1>4. QED
  BY <1>1, <1>2, <1>3

\* A request that has prepared its statement keeps the reasons of the earlier ones.
LEMMA EffectReady ==
    ASSUME EffectInv, NEW r \in Requests, UNCHANGED <<scene, db, tx>>,
           NEW verb, NEW i, NEW old, NEW o, Ready(req'[r], req[r], verb, i, old, o),
           req[r].asked \subseteq req'[r].asked, NEW k \in DOMAIN tx'[r]
    PROVE  Justified(r, k)'
<1>1. Justified(r, k) /\ tx'[r] = tx[r]
  BY DEF EffectInv
<1>2. req'[r].caller = req[r].caller /\ req'[r].table = req[r].table
  BY DEF Ready
<1>3. /\ k[2] \in DOMAIN db'[k[1]] <=> Stored(k)
      /\ db'[k[1]][k[2]] = db[k[1]][k[2]]
  BY DEF Stored
<1>4. QED
  BY <1>1, <1>2, <1>3, JustifiedKept

\* What a step of a request does to the request itself and to the copies of rows.
LEMMA EffectOwn ==
    ASSUME TypeInv, EffectInv, NEW r \in Requests, Step(r)
    PROVE  /\ OneCreator' /\ (req[r].pc = "flush" => Checked(r))'
           /\ \A k \in DOMAIN tx'[r] : Justified(r, k)'
<1>1. OneCreator /\ (req[r].pc = "flush" => Checked(r)) /\ \A k \in DOMAIN tx[r] : Justified(r, k)
  BY DEF EffectInv
<1>2. /\ UNCHANGED scene /\ \A s \in Requests \ {r} : tx'[s] = tx[s] /\ Like(req'[s], req[s])
  BY FrameIs
<1>3. DOMAIN Nothing = {}
  BY DEF Nothing
<1>4. ASSUME UNCHANGED <<scene, db>>, tx'[r] = Nothing, req'[r].pc # "flush"
      PROVE  /\ OneCreator' /\ (req[r].pc = "flush" => Checked(r))'
             /\ \A k \in DOMAIN tx'[r] : Justified(r, k)'
  BY <1>1, <1>2, <1>3, <1>4, CreatorsKept
<1>5. ASSUME NEW status, End(r, status)
      PROVE  UNCHANGED <<scene, db>> /\ tx'[r] = Nothing /\ req'[r].pc # "flush"
  BY <1>5, EndIs
<1>6. CASE \/ \E t \in scene \cap Managed, c \in Callers : \E n : Receive(r, c, t, n)
           \/ \E t \in scene \cap Managed : Anonymous(r, t) \/ \E c \in Callers : Read(r, c, t)
  <2>1. UNCHANGED <<scene, db, tx>> /\ req[r].pc = "new" /\ req'[r].pc # "flush"
    BY <1>6, ReceiveIs, ReadIs
  <2>2. tx'[r] = Nothing
    BY <2>1 DEF TypeInv, InFlight
  <2>3. QED
    BY <1>4, <2>1, <2>2
<1>7. CASE Create(r)
  <2>1. req[r].pc = "op" /\ req[r].table \in scene
    BY <1>7, CreateIs DEF TypeInv, RequestOK
  <2>2. ASSUME NEW o \in Creates(req[r].table, req[r].caller, View(r)), NEW i \in FreeIds(req[r].table),
               o.refuse = 0, MayDo(req[r], "CREATE", o.row), UNCHANGED <<scene, db, tx>>, Others(r),
               Ready(req'[r], req[r], "create", i, NoRow, o), req'[r].asked = req[r].asked
        PROVE  /\ OneCreator' /\ (req[r].pc = "flush" => Checked(r))'
               /\ \A k \in DOMAIN tx'[r] : Justified(r, k)'
    <3>1. OneCreator'
      BY <1>1, <2>1, <2>2, CreatorsCreate
    <3>2. Checked(r)'
      BY <2>1, <2>2, CheckedCreate
    <3>3. \A k \in DOMAIN tx'[r] : Justified(r, k)'
      BY <2>2, EffectReady
    <3>4. QED
      BY <3>1, <3>2, <3>3
  <2>3. QED
    BY <1>4, <1>5, <1>7, <2>2, CreateIs
<1>8. ASSUME NEW verb \in {"update", "delete"}, Select(r, verb)
      PROVE  /\ OneCreator' /\ (req[r].pc = "flush" => Checked(r))'
             /\ \A k \in DOMAIN tx'[r] : Justified(r, k)'
  <2> DEFINE t == req[r].table
             v == View(r)
  <2>1. /\ req[r].pc = "op"
        /\ \/ \E status : End(r, status)
           \/ \E i \in DOMAIN v[t] :
                /\ UNCHANGED <<scene, db, tx>> /\ Others(r) /\ MayDo(req[r], ActionOf[verb], v[t][i])
                /\ \/ /\ verb = "delete" /\ Ready(req'[r], req[r], "delete", i, v[t][i], Write(NoRow))
                      /\ req'[r].asked = req[r].asked
                   \/ /\ verb = "update"
                      /\ \E o \in Patches(t, req[r].caller, v, i) :
                           /\ o.refuse = 0 /\ Ready(req'[r], req[r], "update", i, v[t][i], o)
                           /\ req'[r].asked = req[r].asked \cup ({i} \X Changes(v[t][i], o))
    BY <1>8, SelectIs
  <2>2. RequestOK(scene, req[r]) /\ ViewOK(scene, v)
    BY ViewIsOK DEF TypeInv
  <2>3. t \in scene \cap Managed /\ verb \in Verbs[t]
    <3>1. [req[r] EXCEPT !.verb = verb].table = t
      BY <2>2 DEF RequestOK, Fields
    <3>2. verb \in Verbs[t]
      BY <1>8, <3>1 DEF Select
    <3>3. QED
      BY <2>1, <2>2, <3>2 DEF RequestOK
  <2>4. ASSUME NEW i \in DOMAIN v[t], UNCHANGED <<scene, db, tx>>, Others(r),
               MayDo(req[r], ActionOf[verb], v[t][i]), verb = "delete",
               Ready(req'[r], req[r], "delete", i, v[t][i], Write(NoRow)),
               req'[r].asked = req[r].asked
        PROVE  OneCreator' /\ Checked(r)' /\ \A k \in DOMAIN tx'[r] : Justified(r, k)'
    <3>1. OneCreator'
      BY <1>1, <2>1, <2>4, CreatorsSelect
    <3>2. Checked(r)'
      BY <2>1, <2>3, <2>4, CheckedSelect
    <3>3. \A k \in DOMAIN tx'[r] : Justified(r, k)'
      BY <2>4, EffectReady
    <3>4. QED
      BY <3>1, <3>2, <3>3
  <2>5. ASSUME NEW i \in DOMAIN v[t], UNCHANGED <<scene, db, tx>>, Others(r),
               MayDo(req[r], ActionOf[verb], v[t][i]), verb = "update",
               NEW o \in Patches(t, req[r].caller, v, i), o.refuse = 0,
               Ready(req'[r], req[r], "update", i, v[t][i], o),
               req'[r].asked = req[r].asked \cup ({i} \X Changes(v[t][i], o))
        PROVE  OneCreator' /\ Checked(r)' /\ \A k \in DOMAIN tx'[r] : Justified(r, k)'
    <3>1. IsRow(t, v[t][i])
      BY <2>2, <2>3 DEF ViewOK
    <3>2. Owned(t) => o.row.refs.creator_id = v[t][i].refs.creator_id
      BY <2>3, <2>5, <3>1, PatchKeepsCreator
    <3>3. OneCreator'
      BY <1>1, <2>1, <2>5, <3>2, CreatorsSelect
    <3>4. Checked(r)'
      BY <2>1, <2>3, <2>5, CheckedSelect
    <3>5. req[r].asked \subseteq req'[r].asked
      BY <2>5
    <3>6. \A k \in DOMAIN tx'[r] : Justified(r, k)'
      BY <2>5, <3>5, EffectReady
    <3>7. QED
      BY <3>3, <3>4, <3>6
  <2>6. QED
    BY <1>4, <1>5, <2>1, <2>4, <2>5
<1>9. CASE Flush(r)
  <2>1. /\ req[r].pc = "flush"
        /\ \/ \E status : End(r, status)
           \/ /\ UNCHANGED <<scene, db>> /\ Others(r) /\ tx'[r] = Over(Writes(r), tx[r])
              /\ req'[r].pc \in {"op", "commit"} /\ req'[r].caller = req[r].caller
              /\ req'[r].table = req[r].table /\ req'[r].asked = req[r].asked
    BY <1>9, FlushIs
  <2>2. ASSUME UNCHANGED <<scene, db>>, Others(r), tx'[r] = Over(Writes(r), tx[r]),
               req'[r].pc \in {"op", "commit"}, req'[r].caller = req[r].caller,
               req'[r].table = req[r].table, req'[r].asked = req[r].asked
        PROVE  /\ OneCreator' /\ (req[r].pc = "flush" => Checked(r))'
               /\ \A k \in DOMAIN tx'[r] : Justified(r, k)'
    <3>1. OneCreator'
      BY <1>1, <2>1, <2>2, CreatorsFlush
    <3>2. \A k \in DOMAIN tx'[r] : Justified(r, k)'
      BY <1>1, <2>1, <2>2, JustifiedFlush
    <3>3. QED
      BY <2>2, <3>1, <3>2
  <2>3. QED
    BY <1>4, <1>5, <2>1, <2>2
<1>10. CASE Commit(r)
  <2>1. tx'[r] = Nothing /\ req'[r].pc # "flush"
    BY <1>10, CommitIs
  <2>2. OneCreator'
    BY <1>1, <1>10, CreatorsCommit
  <2>3. QED
    BY <1>3, <2>1, <2>2
<1>11. QED
  BY <1>4, <1>5, <1>6, <1>7, <1>8, <1>9, <1>10, StepIs

\* At the start nothing is under way.
LEMMA EffectInit ==
    ASSUME Init
    PROVE  EffectInv
<1>1. \A r \in Requests : DOMAIN tx[r] = {} /\ req[r].pc # "flush"
  <2>1. New.pc = "new" /\ DOMAIN Nothing = {}
    BY DEF New, Nothing
  <2>2. QED
    BY <2>1 DEF Init
<1>2. OneCreator
  <2>1. \A k, x : Copy(k, x) => x = db[k[1]][k[2]]
    BY <1>1 DEF Copy
  <2>2. QED
    BY <2>1 DEF OneCreator
<1>3. QED
  BY <1>1, <1>2 DEF EffectInv

\* The reasons of the requests depend on the rows and the requests alone.
LEMMA EffectKept ==
    ASSUME EffectInv, UNCHANGED <<scene, db, tx, req>>
    PROVE  EffectInv'
<1>1. OneCreator'
  <2>1. ASSUME NEW k, NEW x, Copy(k, x)'
        PROVE  Copy(k, x)
    BY <2>1 DEF Copy, Stored, KeyOf
  <2>2. QED
    BY <2>1 DEF EffectInv, OneCreator
<1>2. ASSUME NEW r \in Requests, req'[r].pc = "flush"
      PROVE  Checked(r)'
  BY <1>2 DEF EffectInv, Checked, Fresh1, Stored, KeyOf
<1>3. ASSUME NEW r \in Requests, NEW k \in DOMAIN tx'[r]
      PROVE  Justified(r, k)'
  BY <1>3 DEF EffectInv, Justified, Released, Removed, Stored
<1>4. QED
  BY <1>1, <1>2, <1>3 DEF EffectInv

\* The steps of the client that pages change no row and no request.
LEMMA PagingIs ==
    ASSUME Next, \A r \in Requests : ~Step(r)
    PROVE  UNCHANGED <<scene, db, tx, req>>
BY DEF Next, StartPaging, ReadPage, Finished, vars

\* Every step keeps the reasons.
LEMMA EffectNext ==
    ASSUME TypeInv, KeyInv, EffectInv, [Next]_vars
    PROVE  EffectInv'
<1>1. ASSUME NEW r \in Requests, Step(r)
      PROVE  EffectInv'
  <2>1. /\ OneCreator' /\ (req[r].pc = "flush" => Checked(r))'
        /\ \A k \in DOMAIN tx'[r] : Justified(r, k)'
    BY <1>1, EffectOwn
  <2>2. \A s \in Requests \ {r} : /\ (req[s].pc = "flush" => Checked(s))'
                                  /\ \A k \in DOMAIN tx'[s] : Justified(s, k)'
    BY <1>1, EffectOthers
  <2>3. QED
    BY <2>1, <2>2 DEF EffectInv
<1>2. CASE \A r \in Requests : ~Step(r)
  <2>1. UNCHANGED <<scene, db, tx, req>>
    BY <1>2, PagingIs DEF vars
  <2>2. QED
    BY <2>1, EffectKept
<1>3. QED
  BY <1>1, <1>2

(* The step that answers a request that is ready to commit with 200 is its *)
(* commit, or changes no row.                                              *)
LEMMA CommittingIs ==
    ASSUME TypeInv, AloneInv, [Next]_vars, NEW r \in Requests, Committing(r)
    PROVE  UNCHANGED scene /\ (UNCHANGED db \/ Commit(r))
<1>1. req[r].ans = 0 /\ req'[r].ans = 200
  BY DEF AloneInv, AloneOK, InProgress, Committing
<1>2. ASSUME NEW s \in Requests, Step(s)
      PROVE  UNCHANGED scene /\ (UNCHANGED db \/ Commit(r))
  <2>1. s # r => Like(req'[r], req[r])
    BY <1>2, FrameIs
  <2>2. s = r
    BY <1>1, <2>1 DEF Like
  <2>3. QED
    BY <1>2, <2>2, FrameIs
<1>3. CASE \A s \in Requests : ~Step(s)
  BY <1>3, PagingIs DEF vars
<1>4. QED
  BY <1>2, <1>3

\* What a commit leaves of a row.
LEMMA CommitAt ==
    ASSUME TypeInv, NEW r \in Requests, Commit(r), NEW k \in scene \X Ids
    PROVE  /\ k \in DOMAIN tx[r] =>
                /\ k[2] \in DOMAIN db'[k[1]] <=> tx[r][k] # Gone
                /\ tx[r][k] # Gone => db'[k[1]][k[2]] = tx[r][k]
           /\ k \notin DOMAIN tx[r] =>
                /\ k[2] \in DOMAIN db'[k[1]] <=> Stored(k)
                /\ Stored(k) => db'[k[1]][k[2]] = db[k[1]][k[2]]
<1>1. db' = Overlay(db, tx[r])
  BY CommitIs DEF View
<1>2. k[1] \in DOMAIN db /\ k[2] \in Ids /\ k = <<k[1], k[2]>>
  BY DEF TypeInv, ViewOK
<1>3. QED
  BY <1>1, <1>2, OverlayAt DEF Stored

\* A row that a commit changes is one that its transaction wrote, for a reason.
LEMMA CommitReason ==
    ASSUME TypeInv, EffectInv, NEW r \in Requests, Commit(r), NEW k \in scene \X Ids,
           \/ ~Stored(k) /\ k[2] \in DOMAIN db'[k[1]]
           \/ Stored(k) /\ k[2] \notin DOMAIN db'[k[1]]
           \/ Stored(k) /\ k[2] \in DOMAIN db'[k[1]] /\ db'[k[1]][k[2]] # db[k[1]][k[2]]
    PROVE  /\ k \in DOMAIN tx[r] /\ Justified(r, k)
           /\ k[2] \in DOMAIN db'[k[1]] <=> tx[r][k] # Gone
           /\ tx[r][k] # Gone => db'[k[1]][k[2]] = tx[r][k]
<1>1. k \in DOMAIN tx[r]
  BY CommitAt
<1>2. QED
  BY <1>1, CommitAt DEF EffectInv

(* A parent whose removal a transaction used as a reason is a row that the *)
(* commit deletes: a committed row names no parent that was already gone.  *)
LEMMA ParentVanishes ==
    ASSUME TypeInv, KeyInv, NEW r \in Requests, Commit(r), NEW k \in scene \X Ids, Stored(k),
           NEW c \in DOMAIN Refs(k[1]), Removed(r, Parent(k, db[k[1]][k[2]], c))
    PROVE  Points(db, k, c, Vanished)
<1> DEFINE n == Parent(k, db[k[1]][k[2]], c)
<1>1. n = <<Refs(k[1])[c].to, db[k[1]][k[2]].refs[c]>>
  BY DEF Parent
<1>2. n \in scene \X Ids /\ n \in DOMAIN tx[r] /\ tx[r][n] = Gone
  BY DEF Removed, TypeInv, Written
<1>3. n[2] \in DOMAIN db[n[1]]
  <2>1. k[1] \in DOMAIN db /\ k[2] \in DOMAIN db[k[1]] /\ n[1] \in DOMAIN db
    BY <1>2 DEF Stored, TypeInv, ViewOK
  <2>2. Anchored(db, k[1], db[k[1]][k[2]])
    BY <2>1 DEF KeyInv, Referenced
  <2>3. Null \notin Ids
    BY DEF Null, Ids
  <2>4. n[1] = Refs(k[1])[c].to /\ n[2] = db[k[1]][k[2]].refs[c] /\ n[2] \in Ids
    BY <1>1, <1>2
  <2>5. QED
    BY <2>1, <2>2, <2>3, <2>4 DEF Anchored
<1>4. n[2] \notin DOMAIN db'[n[1]]
  BY <1>2, CommitAt
<1>5. n \in Keys(db) /\ n[1] \in scene'
  <2>1. n[1] \in scene /\ n = <<n[1], n[2]>> /\ ViewOK(scene, db) /\ UNCHANGED scene
    BY <1>2, CommitIs DEF TypeInv
  <2>2. QED
    BY <1>3, <2>1, KeysOfView
<1>6. n \in Vanished
  BY <1>3, <1>4, <1>5 DEF Vanished
<1>7. QED
  BY <1>1, <1>6 DEF Points

\* Every row that a commit adds, changes or deletes is covered by its reason.
LEMMA CommitEffects ==
    ASSUME TypeInv, KeyInv, EffectInv, NEW r \in Requests, Commit(r)
    PROVE  /\ \A k \in Appeared :
                \/ Attached(req[r], k[1])
                \/ k[1] = req[r].table /\ MayDo(req[r], "CREATE", db'[k[1]][k[2]])
           /\ \A k \in Changed :
                \/ Unlinked(k)
                \/ /\ k[1] = req[r].table /\ MayDo(req[r], "UPDATE", db[k[1]][k[2]])
                   /\ \/ k[1] \in RewritingTables
                      \/ \A c \in Changes(db[k[1]][k[2]], Write(db'[k[1]][k[2]])) :
                            <<k[2], c>> \in req[r].asked
           /\ \A k \in Vanished :
                \/ Attached(req[r], k[1])
                \/ k[1] = req[r].table /\ MayDo(req[r], "DELETE", db[k[1]][k[2]])
                \/ \E c \in DOMAIN Refs(k[1]) : Points(db, k, c, Vanished)
<1>1. db' = View(r) /\ UNCHANGED scene /\ ViewOK(scene, db) /\ ViewOK(scene, View(r))
  BY CommitIs, ViewIsOK DEF TypeInv
<1>2. \A k \in Keys(db) : k \in scene \X Ids /\ Stored(k) /\ IsRow(k[1], db[k[1]][k[2]])
  BY <1>1, KeysOfView DEF Stored
<1>3. \A k \in Keys(db') : k \in scene \X Ids /\ k[2] \in DOMAIN db'[k[1]]
  BY <1>1, KeysOfView
<1>4. ASSUME NEW k \in Appeared
      PROVE  \/ Attached(req[r], k[1])
             \/ k[1] = req[r].table /\ MayDo(req[r], "CREATE", db'[k[1]][k[2]])
  <2>1. k \in scene \X Ids /\ ~Stored(k) /\ k[2] \in DOMAIN db'[k[1]]
    BY <1>3, <1>4 DEF Appeared, Stored
  <2>2. Justified(r, k) /\ tx[r][k] # Gone /\ db'[k[1]][k[2]] = tx[r][k]
    BY <2>1, CommitReason
  <2>3. QED
    BY <2>1, <2>2 DEF Justified
<1>5. ASSUME NEW k \in Changed
      PROVE  \/ Unlinked(k)
             \/ /\ k[1] = req[r].table /\ MayDo(req[r], "UPDATE", db[k[1]][k[2]])
                /\ \/ k[1] \in RewritingTables
                   \/ \A c \in Changes(db[k[1]][k[2]], Write(db'[k[1]][k[2]])) :
                         <<k[2], c>> \in req[r].asked
  <2>1. /\ k \in scene \X Ids /\ Stored(k) /\ IsRow(k[1], db[k[1]][k[2]])
        /\ db'[k[1]][k[2]] # db[k[1]][k[2]]
    BY <1>2, <1>5 DEF Changed
  <2>2. k[2] \in DOMAIN db'[k[1]]
    <3>1. k \in Keys(db) /\ k \notin Vanished /\ k[1] \in scene'
      BY <1>1, <1>5, <2>1 DEF Changed
    <3>2. QED
      BY <3>1 DEF Vanished
  <2>3. Justified(r, k) /\ tx[r][k] # Gone /\ db'[k[1]][k[2]] = tx[r][k]
    BY <2>1, <2>2, CommitReason
  <2>4. ASSUME Released(r, k, db[k[1]][k[2]], tx[r][k])
        PROVE  Unlinked(k)
    <3>1. DOMAIN db[k[1]][k[2]].refs = DOMAIN Refs(k[1])
      BY <2>1 DEF IsRow
    <3>2. ASSUME NEW c \in DOMAIN Refs(k[1]), Removed(r, Parent(k, db[k[1]][k[2]], c))
          PROVE  Points(db, k, c, Vanished)
      BY <2>1, <3>2, ParentVanishes
    <3>3. QED
      BY <2>3, <2>4, <3>1, <3>2 DEF Released, Unlinked
  <2>5. QED
    BY <2>1, <2>3, <2>4 DEF Justified
<1>6. ASSUME NEW k \in Vanished
      PROVE  \/ Attached(req[r], k[1])
             \/ k[1] = req[r].table /\ MayDo(req[r], "DELETE", db[k[1]][k[2]])
             \/ \E c \in DOMAIN Refs(k[1]) : Points(db, k, c, Vanished)
  <2>1. k \in scene \X Ids /\ Stored(k) /\ k[2] \notin DOMAIN db'[k[1]]
    BY <1>2, <1>6 DEF Vanished
  <2>2. Justified(r, k) /\ tx[r][k] = Gone
    BY <2>1, CommitReason
  <2>3. ASSUME NEW c \in DOMAIN Refs(k[1]), Removed(r, Parent(k, db[k[1]][k[2]], c))
        PROVE  Points(db, k, c, Vanished)
    BY <2>1, <2>3, ParentVanishes
  <2>4. QED
    BY <2>1, <2>2, <2>3 DEF Justified
<1>7. QED
  BY <1>4, <1>5, <1>6

\* Without a change of the rows nothing appears, changes or vanishes.
LEMMA NoEffects ==
    ASSUME UNCHANGED <<scene, db>>
    PROVE  Appeared = {} /\ Changed = {} /\ Vanished = {}
<1>1. \A k \in Keys(db) : k[2] \in DOMAIN db[k[1]]
  BY DEF Keys
<1>2. QED
  BY <1>1 DEF Appeared, Changed, Vanished

(* What a request commits is covered row by row by the grants of its       *)
(* caller: the row filters that the services put in the WHERE clause of a  *)
(* select, or check on the row they are about to insert, still hold of the *)
(* row that the statement writes, whatever was committed in between.       *)
THEOREM EffectsGranted == Spec => EffectsAreGranted
<1>1. TypeInv /\ KeyInv /\ AloneInv /\ EffectInv /\ [Next]_vars =>
        [\A r \in Requests : Committing(r) =>
            LET q == req[r]
                With(k) == <<q.table, k[1]>> \in Attachments
                Granted(k, action, row) ==
                    /\ k[1] = q.table
                    /\ IgnoresFilter(k[1]) \/ Matches(q.caller, k[1], action, row)
            IN /\ \A k \in Appeared : With(k) \/ Granted(k, "CREATE", db'[k[1]][k[2]])
               /\ \A k \in Changed : Unlinked(k) \/ Granted(k, "UPDATE", db[k[1]][k[2]])
               /\ \A k \in Vanished :
                    \/ With(k) \/ Granted(k, "DELETE", db[k[1]][k[2]])
                    \/ \E c \in DOMAIN Refs(k[1]) : Points(db, k, c, Vanished)]_vars
  <2> SUFFICES ASSUME TypeInv, KeyInv, AloneInv, EffectInv, [Next]_vars, NEW r \in Requests,
                      Committing(r)
               PROVE  LET q == req[r]
                          With(k) == <<q.table, k[1]>> \in Attachments
                          Granted(k, action, row) ==
                              /\ k[1] = q.table
                              /\ IgnoresFilter(k[1]) \/ Matches(q.caller, k[1], action, row)
                      IN /\ \A k \in Appeared : With(k) \/ Granted(k, "CREATE", db'[k[1]][k[2]])
                         /\ \A k \in Changed : Unlinked(k) \/ Granted(k, "UPDATE", db[k[1]][k[2]])
                         /\ \A k \in Vanished :
                              \/ With(k) \/ Granted(k, "DELETE", db[k[1]][k[2]])
                              \/ \E c \in DOMAIN Refs(k[1]) : Points(db, k, c, Vanished)
    OBVIOUS
  <2>1. CASE UNCHANGED <<scene, db>>
    BY <2>1, NoEffects
  <2>2. CASE Commit(r)
    BY <2>2, CommitEffects DEF Attached, MayDo
  <2>3. QED
    BY <2>1, <2>2, CommittingIs
<1>2. Init => KeyInv /\ AloneInv /\ EffectInv
  BY KeyInit, AloneInit, EffectInit
<1>3. TypeInv /\ KeyInv /\ AloneInv /\ EffectInv /\ [Next]_vars => KeyInv' /\ AloneInv' /\ EffectInv'
  BY KeyNext, AloneNext, EffectNext
<1>4. QED
  BY <1>1, <1>2, <1>3, Types, PTL DEF Spec, EffectsAreGranted

(* A commit changes no column of a row but those that its request asked to *)
(* change or the pointers that its deletes emptied: an UPDATE carries only *)
(* the columns that differ from the loaded row, so what others committed   *)
(* after the load stays (the encrypted columns of the MCP servers apart).  *)
THEOREM PatchesKeep == Spec => PatchesKeepOtherColumns
<1>1. TypeInv /\ KeyInv /\ AloneInv /\ EffectInv /\ [Next]_vars =>
        [\A r \in Requests : Committing(r) =>
            \A k \in Changed : k[1] \in RewritingTables \/ Unlinked(k) \/
                Changes(db[k[1]][k[2]], Write(db'[k[1]][k[2]])) \subseteq
                    {a[2] : a \in {a \in req[r].asked : a[1] = k[2]}}]_vars
  <2> SUFFICES ASSUME TypeInv, KeyInv, AloneInv, EffectInv, [Next]_vars, NEW r \in Requests,
                      Committing(r), NEW k \in Changed, k[1] \notin RewritingTables, ~Unlinked(k),
                      NEW c \in Changes(db[k[1]][k[2]], Write(db'[k[1]][k[2]]))
               PROVE  c \in {a[2] : a \in {a \in req[r].asked : a[1] = k[2]}}
    OBVIOUS
  <2>1. CASE UNCHANGED <<scene, db>>
    BY <2>1, NoEffects
  <2>2. CASE Commit(r)
    <3>1. <<k[2], c>> \in req[r].asked
      BY <2>2, CommitEffects
    <3>2. QED
      BY <3>1
  <2>3. QED
    BY <2>1, <2>2, CommittingIs
<1>2. Init => KeyInv /\ AloneInv /\ EffectInv
  BY KeyInit, AloneInit, EffectInit
<1>3. TypeInv /\ KeyInv /\ AloneInv /\ EffectInv /\ [Next]_vars => KeyInv' /\ AloneInv' /\ EffectInv'
  BY KeyNext, AloneNext, EffectNext
<1>4. QED
  BY <1>1, <1>2, <1>3, Types, PTL DEF Spec, PatchesKeepOtherColumns
=============================================================================
