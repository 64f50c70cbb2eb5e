\* A receiver program on the default port, a CLI on another one.
CONSTANTS
    Procs <- MCFewProcs
    Ports = {8080, 8081, 5000, 5001}
    DefaultPort = 8080
    None = None
    Program <- MCProgram
    AskedPort <- MCCrossedPort
    Serving <- MCFewServing
    WebPort = 5000
    MaxTries = 2
SPECIFICATION Spec
CHECK_DEADLOCK FALSE
PROPERTIES AlreadyIsTrue
