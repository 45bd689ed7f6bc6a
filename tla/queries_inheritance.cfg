SPECIFICATION Spec
CONSTANTS
    Settings = {majority}
    Default = local
    Options = {asc, desc}
    NoOption = none
    Adapters = {observeOn}
    Noop = noop
    MaxHandles = 4
    MaxQueries = 2
    MaxObservables = 1
    MaxOperations = 1
INVARIANTS
    TypeOK
    AdapterInherited
    SettingsInherited
PROPERTY OptionsOfOwnQuery
CHECK_DEADLOCK FALSE
