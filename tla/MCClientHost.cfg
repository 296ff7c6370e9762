SPECIFICATION Spec
CONSTANTS
    Releases <- MCReleases
    Fields <- MCFields
    Values <- MCValues
    Flags <- MCFlags
    Default = "default"
    Unset = "unset"
    None = None
    Part = Part
    Whole = Whole
    MaxCommands = 3
    MaxFailures = 2
    MaxKills = 1
INVARIANTS
    NeverTorn
    BinaryKept
    NoDowngrade
    ConfigInForce
    VersionInForce
PROPERTIES
    FieldsKept
    ServiceComesBack
