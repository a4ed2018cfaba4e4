SPECIFICATION Spec
CONSTANT Services = {web, api, db}
INVARIANTS TypeOK DependenciesRun DownRemovesAll UpStartsMissing
