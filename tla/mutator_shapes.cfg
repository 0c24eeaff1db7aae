SPECIFICATION Spec
CONSTANTS
  None = None
  Namespaces <- MCNamespaces
  OrgNamespaces <- MCOrgNamespaces
  ManagementNamespace = "giantswarm"
  ClusterIds <- MCClusterIds
  AppNames <- MCAppNames
  SpecNames <- MCSpecNames
  ClusterAppNames = {"cluster-aws"}
  Catalogs = {"cluster", "cluster-test", "default"}
  ClusterCatalogs = {"cluster", "cluster-test"}
  ChartVersions = {"v1", "v2"}
  TargetNamespaces = {"default"}
  VersionLabels <- MCVersionLabels
  Major <- MCMajor
  LegacyVersion = "1.0.0"
  UniqueVersion = "0.0.0"
  ConfigPatches <- MCConfigPatches
  Truncated <- MCTruncated
  DefaultPspValues = "default values"
  ReleaseVersions <- MCReleaseVersions
  PssCutoffVersion = 1930
  MalformedRelease = MalformedRelease
  ReleaseNames = {"1.0.0", "1.0.1", "1.0.2", "1.0.3"}
  Releases <- MCReleases
  Workers = {w1}
  Requests <- ShapeRequests
  Environments <- ShapeEnvironments
  EnvironmentMoves = FALSE
  MaxFaults = 0
INVARIANTS
  TypeOK
  PatchApplies
  SubmittedContentKept
  ClusterValuesReferencedOnce
  AddedKubeConfigExists
  ClusterAppFollowsRelease
  EntryIffPssEnforced
  RejectedForCause
PROPERTIES
  ConfigMapsWrittenByOwners
