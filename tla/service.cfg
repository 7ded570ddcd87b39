SPECIFICATION Spec
CONSTANTS
    Migrators = {"entrypoint", "operator"}
    Scenarios <- AllScenarios
    MAX_ATTEMPTS = 3
CHECK_DEADLOCK FALSE
INVARIANTS  OnboardedIsProvisioned
PROPERTIES SchemaMatches ShutdownEnds
