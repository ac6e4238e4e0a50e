CONSTANTS
    Callers = {c1, c2, c3}
    MustCallers = {c1}
    KernelInit = c1
    KernelListCmd <- MCKernelList
    Commands <- MCCommands
    NoREST = NoREST
    WordLess <- MCWordLess
SPECIFICATION CLISpec
\* Every caller makes one Register call and `ntm kernel list` runs once, or
\* the init panics: the system stops.
CHECK_DEADLOCK FALSE
INVARIANTS
    TypeOK
    IndexConsistent
    OneWinnerPerBinding
PROPERTIES
    RegistryRefinesAbstract
    KernelListShowsRegistry
