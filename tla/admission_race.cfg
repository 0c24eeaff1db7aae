SPECIFICATION AdmissionSpec
CONSTANTS
  None = None
  Namespaces = {"org-a", "giantswarm"}
  OrgNamespaces = {"org-a"}
  ManagementNamespace = "giantswarm"
  ClusterIds = {"c1"}
  AppNames = {"a", "b", "c"}
  SpecNames = {"custom", "shared", "cluster-aws"}
  ClusterAppNames = {"cluster-aws"}
  Catalogs = {"cluster", "cluster-test", "default"}
  ClusterCatalogs = {"cluster", "cluster-test"}
  ChartVersions = {"v1", "v2"}
  TargetNamespaces = {"default"}
  VersionLabels <- MCVersionLabels
  Major <- MCMajor
  LegacyVersion = "1.0.0"
  UniqueVersion = "0.0.0"
  ConfigPatches <- MCConfigPatches
  Truncated <- MCTruncated
  DefaultPspValues = "default values"
  ReleaseVersions = {1930}
  PssCutoffVersion = 1930
  MalformedRelease = MalformedRelease
  ReleaseNames = {"1.0.0", "1.0.1"}
  Releases <- MCReleases
  Workers = {w1, w2}
  Requests = {}
  Environments <- RaceEnvironments
  EnvironmentMoves = TRUE
  MaxFaults = 1
  Manifests <- TwoApps
SYMMETRY Symmetry
INVARIANTS
  EnsuredBeforeReferenced
  
  NeverBeforeEnforced
  StoredEntriesResolve
PROPERTIES
  EntryKept
  StoredAppsKeepContract
