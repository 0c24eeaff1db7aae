SPECIFICATION AdmissionSpec
CONSTANTS
  None = None
  Namespaces <- MCNamespaces
  OrgNamespaces = {"org-a"}
  ManagementNamespace = "giantswarm"
  ClusterIds = {"c1"}
  AppNames = {"a", "b", "c"}
  SpecNames <- MCSpecNames
  ClusterAppNames = {"cluster-aws"}
  Catalogs = {"cluster", "cluster-test", "default"}
  ClusterCatalogs = {"cluster", "cluster-test"}
  ChartVersions = {"v1", "v2"}
  TargetNamespaces = {"default"}
  VersionLabels <- MCVersionLabels
  Major <- MCMajor
  LegacyVersion = "1.0.0"
  UniqueVersion = "0.0.0"
  ConfigPatches <- MCConfigPatches
  Truncated <- MCTruncated
  DefaultPspValues = "default values"
  ReleaseVersions = {1930}
  PssCutoffVersion = 1930
  MalformedRelease = MalformedRelease
  ReleaseNames = {"1.0.0", "1.0.1"}
  Releases <- MCReleases
  Workers = {w1}
  Requests = {}
  Environments <- FrozenEnvironments
  EnvironmentMoves = FALSE
  MaxFaults = 0
  Manifests <- ManyManifests
INVARIANTS
  AdmissionTypeOK
PROPERTIES
  ResubmissionChangesNothing
