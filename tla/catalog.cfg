\* One rule of a user, two packaged rules, three good packages and sixteen bad ones.
SPECIFICATION Spec
CONSTANTS
  MaxRules = 3
  CustomRules = {c1}
  OfficialRules = {1, 2}
  Instances = {i1}
  Packages <- MCPackages
  BindingLists <- MCBindingLists
  Offered = {"http", "dns", "gopher"}
  PlatformVersion = 1
  Nil = Nil
INVARIANTS TypeOK RowsHaveRules RefusedForValuesOnly EngineMatchesRow CatalogIsCurrent
PROPERTIES ImportSparesInstances
\* Every instance has been deployed once.
CHECK_DEADLOCK FALSE
