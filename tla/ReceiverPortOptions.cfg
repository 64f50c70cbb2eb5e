\* A CLI with --no-receiver, one with --receiver-port, and a web server --with-receiver
\* next to a dashboard. All three properties are violated, each on its own.
CONSTANTS
    Procs <- MCFewProcs
    Ports = {8080, 8081, 5000, 5001}
    DefaultPort = 8080
    None = None
    Program <- MCProgram
    AskedPort <- MCCrossedPort
    Serving <- MCFewServing
    WebPort = 5000
    MaxTries = 2
SPECIFICATION Spec
CHECK_DEADLOCK FALSE
INVARIANTS OptOutKept
PROPERTIES WebComesUp StartedIsTrue
