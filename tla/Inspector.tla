----------------------------- MODULE Inspector -----------------------------
(***************************************************************************)
(* The inspector of Apps with the unique version                           *)
(* (internal/security/inspector): which of them an ordinary user may       *)
(* submit.  How an entry of a list matches a name (equality, or a common   *)
(* prefix or suffix) is given by the constants Affixed and StartsWith.     *)
(***************************************************************************)
EXTENDS AppCR

CONSTANTS
  NamespaceBlacklist,   \* --blacklist-namespace
  DashedEntries,        \* its entries that start or end with a dash
  Affixed,              \* <<namespace, dashed entry it starts or ends with>>
  AppBlacklist,         \* --blacklist-app
  CatalogBlacklist,     \* --blacklist-catalog
  GroupWhitelist,       \* --whitelist-group
  UserWhitelist,        \* --whitelist-user
  StartsWith            \* <<user name, user whitelist entry it starts with>>

ASSUME InspectorAssumption ==
  /\ DashedEntries \subseteq NamespaceBlacklist
  /\ \A p \in Affixed : p[1] \in Namespaces /\ p[2] \in DashedEntries

FixedNamespaceBlacklist == NamespaceBlacklist \ DashedEntries

\* The user of a request: [name, groups].
IsWhitelistedActor(user) ==
  \/ \E entry \in UserWhitelist : <<user.name, entry>> \in StartsWith
  \/ user.groups \cap GroupWhitelist # {}

Protected(ns) ==
  \/ ns \in FixedNamespaceBlacklist
  \/ \E entry \in DashedEntries : <<ns, entry>> \in Affixed

\* A mistake to rule out: entries with a dash count.
IsPrivateAppByAnyEntry(app) == Protected(app.ns)
IsPrivateApp(app) == app.ns \in FixedNamespaceBlacklist

IsBlacklistedApp(app) == app.specName \in AppBlacklist /\ app.catalog \in CatalogBlacklist

\* A mistake to rule out: extra configs are forgotten.
ReferencedNamespacesOfConfigs(app) ==
  {app.config.ns, app.configSecret.ns, app.userConfig.ns, app.userSecret.ns, app.secret.ns}
ReferencedNamespaces(app) ==
  {app.config.ns, app.configSecret.ns, app.userConfig.ns, app.userSecret.ns, app.secret.ns}
    \cup {e.ns : e \in Entries(app)}

HasBlacklistedReference(app) == \E ns \in ReferencedNamespaces(app) : Protected(ns)

\* Whether an App passes.
Inspect(app, user) ==
  \/ IsWhitelistedActor(user)
  \/ IsPrivateApp(app)
  \/ ~IsBlacklistedApp(app) /\ ~HasBlacklistedReference(app)
=============================================================================
