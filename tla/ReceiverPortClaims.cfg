\* A page or a stranger is taken for a receiver; two programs find one port free for their
\* web servers; a CLI names a web port it does not serve on. Each is violated on its own.
CONSTANTS
    Procs <- MCProcs
    Ports = {8080, 8081, 5000, 5001}
    DefaultPort = 8080
    None = None
    Program <- MCProgram
    AskedPort <- MCAskedPort
    Serving <- MCServing
    WebPort = 5000
    MaxTries = 2
SPECIFICATION Spec
CHECK_DEADLOCK FALSE
INVARIANTS PortStaysFree EveryUrlIsTrue
PROPERTIES AlreadyIsReceiver
