SPECIFICATION WebhooksSpec
CONSTANTS
  None = None
  Namespaces <- MCNamespaces
  OrgNamespaces = {"org-a"}
  ManagementNamespace = "giantswarm"
  ClusterIds = {"c1"}
  AppNames = {"a", "b"}
  SpecNames <- MCSpecNames
  ClusterAppNames = {"cluster-aws"}
  Catalogs = {"cluster", "default", "missing"}
  ClusterCatalogs = {"cluster"}
  ChartVersions = {"v1", "v2"}
  TargetNamespaces = {"default", "kube-system"}
  VersionLabels <- MCVersionLabels
  Major <- MCMajor
  LegacyVersion = "1.0.0"
  UniqueVersion = "0.0.0"
  ConfigPatches <- MCConfigPatches
  Truncated <- MCTruncated
  DefaultPspValues = "default values"
  ReleaseVersions = {1930}
  PssCutoffVersion = 1930
  MalformedRelease = MalformedRelease
  ReleaseNames = {"1.0.0"}
  Releases <- MCReleases
  Requests = {}
  NamespaceBlacklist = {"giantswarm", "-monitoring"}
  DashedEntries = {"-monitoring"}
  Affixed <- MCAffixed
  AppBlacklist = {"operator"}
  CatalogBlacklist = {"default"}
  GroupWhitelist = {"giantswarm"}
  UserWhitelist = {"giantswarm:"}
  StartsWith <- MCStartsWith
  KnownCatalogs = {"cluster", "default"}
  SingletonOf <- MCSingletonOf
  Workers = {w1}
  Environments <- FrozenEnvironments
  EnvironmentMoves = FALSE
  MaxFaults = 1
  Manifests <- Shapes
  Submitters <- OrdinaryAndStaff
INVARIANTS
  OrdinaryUsersConfined
  DefaultingPassesInspection
  WebhooksTypeOK
  GatesAgree
  RefusedUpdatesAreSilent
