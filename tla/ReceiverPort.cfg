\* Receivers on ports of their own, the CLI, the web server and the dashboard on the default
\* one, and two strangers, of which one answers /health.
CONSTANTS
    Procs <- MCProcs
    Ports = {8080, 8081, 5000, 5001}
    DefaultPort = 8080
    None = None
    Program <- MCProgram
    AskedPort <- MCAskedPort
    Serving <- MCServing
    WebPort = 5000
    MaxTries = 2
SPECIFICATION Spec
CHECK_DEADLOCK FALSE
INVARIANTS ServerListens UrlIsTrue
PROPERTIES AlreadyIsTrue StartedIsTrue
