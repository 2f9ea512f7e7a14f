\* One thing the README says that does not hold: ExplicitFileStarts.
SPECIFICATION Spec
CONSTANTS
    APP_ENV = APP_ENV
    DB = DB
    PORT = PORT
    EXTRA = EXTRA
    Keys = {APP_ENV, DB, PORT, EXTRA}
    one = one
    two = two
    prod = prod
    odd = odd
    Blank = Blank
    Unset = Unset
    Dev = Dev
    Texts <- AllTexts
    defaultValues <- Defaults
    Supported = {Dev, prod}
    name = name
    section = section
    Names = {name, section}
    Fields = {DB, PORT}
    Required = {name}
    Absent = Absent
    Base = Base
    NoFile = NoFile
    BadLine = BadLine
    Malformed = Malformed
    Givens <- AllGivens
    DotEnvs <- UpToTwoLines
    JobEnvs <- UpToOneLine
    Disks <- RepositoryDisks
    Flags <- READMEFlags
\* The start ends: the process serves or has panicked.
CHECK_DEADLOCK FALSE
INVARIANT ExplicitFileStarts
