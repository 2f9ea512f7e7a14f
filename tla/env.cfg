\* APP_ENV and two variables, .env of up to two lines, .env.job of one.
SPECIFICATION Spec
CONSTANTS
    APP_ENV = APP_ENV
    DB = DB
    PORT = PORT
    EXTRA = EXTRA
    Keys = {APP_ENV, DB, PORT, EXTRA}
    one = one
    two = two
    prod = prod
    odd = odd
    Blank = Blank
    Unset = Unset
    Dev = Dev
    Texts <- AllTexts
    defaultValues <- Defaults
    Supported = {Dev, prod}
    name = name
    section = section
    Names = {name, section}
    Fields = {DB, PORT}
    Required = {name}
    Absent = Absent
    Base = Base
    NoFile = NoFile
    BadLine = BadLine
    Malformed = Malformed
    Givens <- AllGivens
    DotEnvs <- UpToTwoLines
    JobEnvs <- UpToOneLine
    Disks <- AllDisks
    Flags <- AllFlags
\* The start ends: the process serves or has panicked.
CHECK_DEADLOCK FALSE
INVARIANTS
    Precedence
    ServesItsProfile
    NothingLost
