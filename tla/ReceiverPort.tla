---------------------------- MODULE ReceiverPort ----------------------------
(***************************************************************************)
(* Who listens on the receiver ports of a host. Importing the package      *)
(* discovers plugins, and the EC2 plugin then starts a receiver on the     *)
(* default port; after that the receiver program, the CLI and the web      *)
(* server try to start one themselves, on the port they are asked for.     *)
(*                                                                         *)
(* The package means to leave the plugins out of `python -m` with the      *)
(* receiver, the agent or the CLI and looks at the name of the main        *)
(* module, but Python imports a package before it gives its main module a  *)
(* name: every program discovers the plugins.                              *)
(*                                                                         *)
(* Then those that serve the web dashboard look for a port for it. They    *)
(* give the one they find back before their server binds it.               *)
(***************************************************************************)
EXTENDS Integers

CONSTANTS
    Procs,         \* processes of the host
    Ports,         \* TCP ports
    DefaultPort,   \* the port of get_or_start_receiver
    None,          \* no process, no port
    Program,       \* Program[p]: the program p runs
    AskedPort,     \* AskedPort[p]: the port p is started with
    Serving,       \* the processes that serve the web dashboard
    WebPort,       \* NANO_WEB_PORT, which they are asked to serve it on
    MaxTries       \* max_tries of _find_free_port

(* "quiet" is a CLI started with --no-receiver, "web" a web server started *)
(* --with-receiver, "dashboard" any other program of the package. The      *)
(* strangers are services of others: a "silent" one answers /health with   *)
(* no 200, a "site" answers every request with a page, and a "service" has *)
(* a /health of its own and JSON there.                                    *)
Strangers == {"silent", "site", "service"}
Programs == {"receiver", "cli", "quiet", "web", "dashboard"} \cup Strangers

(* What _find_free_port tries.                                             *)
WebPorts == WebPort..(WebPort + MaxTries - 1)

ASSUME ReceiverPortAssumption ==
    /\ DefaultPort \in Ports /\ None \notin Procs /\ None \notin Ports
    /\ Program \in [Procs -> Programs]
    /\ AskedPort \in [Procs -> Ports]
    /\ \A p \in Procs : Program[p] = "web" => AskedPort[p] = DefaultPort /\ p \in Serving
    /\ \A p \in Serving : Program[p] \in {"web", "cli", "quiet", "dashboard"}
    /\ MaxTries \in Nat \ {0} /\ WebPort \in Nat
    /\ WebPorts \subseteq Ports

VARIABLES
    bound,   \* bound[x]: the process that listens on port x
    server,  \* server[p]: port of p's _ACTIVE_SERVER, while it is running
    pc,      \* where p is
    told,    \* what p last told its user of the receiver
    tried,   \* tried[p]: ports that p found taken for its web server
    url      \* url[p]: the port p told its user that the web dashboard is on

web == <<tried, url>>
vars == <<bound, server, pc, told, tried, url>>

TypeOK ==
    /\ bound \in [Ports -> Procs \cup {None}]
    /\ server \in [Procs -> Ports \cup {None}]
    /\ pc \in [Procs -> {"down", "import", "main", "probe", "find", "serve", "up"}]
    /\ told \in [Procs -> {"nothing", "started", "already", "busy"}]
    /\ tried \in [Procs -> 0..MaxTries]
    /\ url \in [Procs -> Ports \cup {None}]
    /\ \A p \in Procs : pc[p] = "down" => server[p] = None /\ \A x \in Ports : bound[x] # p

Init ==
    /\ bound = [x \in Ports |-> None]
    /\ server = [p \in Procs |-> None]
    /\ pc = [p \in Procs |-> "down"]
    /\ told = [p \in Procs |-> "nothing"]
    /\ tried = [p \in Procs |-> 0]
    /\ url = [p \in Procs |-> None]

-----------------------------------------------------------------------------
Goto(p, from, to) == pc[p] = from /\ pc' = [pc EXCEPT ![p] = to]

(* Where the receiver's part of a program leads.                           *)
Ready(p) == IF p \in Serving THEN "find" ELSE "up"

Tell(p, what) == told' = [told EXCEPT ![p] = what]

Bind(p, x) == bound[x] = None /\ bound' = [bound EXCEPT ![x] = p]

(* What is bound is given back when the process ends.                      *)
Released(p) == [x \in Ports |-> IF bound[x] = p THEN None ELSE bound[x]]

(* Mutant of StartServer: any free port will do, as for the web dashboard. *)
OnFreePort(p, x) ==
    \E y \in Ports : Bind(p, y) /\ server' = [server EXCEPT ![p] = y]

(* get_or_start_receiver where no server of p's own runs.                  *)
StartServer(p, x) == Bind(p, x) /\ server' = [server EXCEPT ![p] = x]

Spawn(p) ==
    /\ Program[p] \notin Strangers
    /\ Goto(p, "down", "import") /\ Tell(p, "nothing")
    /\ tried' = [tried EXCEPT ![p] = 0]
    /\ url' = [url EXCEPT ![p] = None]
    /\ UNCHANGED <<bound, server>>

(* The package is imported. The EC2 plugin ignores a port that is taken.   *)
Import(p) ==
    /\ Goto(p, "import", "main")
    /\ \/ StartServer(p, DefaultPort)
       \/ bound[DefaultPort] # None /\ UNCHANGED <<bound, server>>
    /\ UNCHANGED told

(* Somebody else's service takes its port.                                 *)
Occupy(p) ==
    /\ Program[p] \in Strangers
    /\ Goto(p, "down", "up") /\ Bind(p, AskedPort[p])
    /\ UNCHANGED <<server, told, tried, url>>

(* The receiver program, a port scan away from serve_forever.              *)
ReceiverMain(p) ==
    /\ Program[p] = "receiver"
    /\ \/ /\ Bind(p, AskedPort[p])
          /\ Goto(p, "main", "up") /\ Tell(p, "started")
       \/ /\ bound[AskedPort[p]] # None
          /\ Goto(p, "main", "probe")
          /\ UNCHANGED <<bound, told>>
    /\ UNCHANGED server

(* Whose /health p takes for that of a receiver: any 200 will do for the   *)
(* receiver program, and any 200 with JSON for the CLI. Receivers and web  *)
(* dashboards both answer so.                                              *)
Credible(p) == Programs \ (IF Program[p] = "receiver" THEN {"silent"} ELSE {"silent", "site"})

(* Mutant of Verdict: whoever has the port is taken for a receiver.        *)
Trusting(p, x) == {IF bound[x] # None THEN "already" ELSE "busy"}

(* What p may make of port x; the answer may come too late.                *)
Verdict(p, x) ==
    {"busy"} \cup
    (IF bound[x] # None /\ Program[bound[x]] \in Credible(p) THEN {"already"} ELSE {})

(* The port was taken: the receiver program asks for its health and exits. *)
ReceiverProbe(p) ==
    /\ Program[p] = "receiver"
    /\ Goto(p, "probe", "down")
    /\ \E what \in Verdict(p, AskedPort[p]) : Tell(p, what)
    /\ bound' = Released(p)
    /\ server' = [server EXCEPT ![p] = None]

(* The CLI's start of a receiver, and its probe if the port is taken.      *)
CliMain(p) ==
    /\ Program[p] = "cli"
    /\ \/ /\ server[p] # None
          /\ Goto(p, "main", Ready(p)) /\ Tell(p, "started")
          /\ UNCHANGED <<bound, server>>
       \/ /\ server[p] = None /\ StartServer(p, AskedPort[p])
          /\ Goto(p, "main", Ready(p)) /\ Tell(p, "started")
       \/ /\ server[p] = None /\ bound[AskedPort[p]] # None
          /\ Goto(p, "main", "probe")
          /\ UNCHANGED <<bound, server, told>>

CliProbe(p) ==
    /\ Program[p] = "cli"
    /\ Goto(p, "probe", Ready(p))
    /\ \E what \in Verdict(p, AskedPort[p]) : Tell(p, what)
    /\ UNCHANGED <<bound, server>>

(* The web server's start of a receiver. A port that is taken ends it.     *)
WebMain(p) ==
    /\ Program[p] = "web"
    /\ \/ /\ server[p] # None
          /\ Goto(p, "main", Ready(p)) /\ Tell(p, "started")
          /\ UNCHANGED <<bound, server>>
       \/ /\ server[p] = None /\ StartServer(p, AskedPort[p])
          /\ Goto(p, "main", Ready(p)) /\ Tell(p, "started")
       \/ /\ server[p] = None /\ bound[AskedPort[p]] # None
          /\ Goto(p, "main", "down")
          /\ bound' = Released(p)
          /\ UNCHANGED <<server, told>>

(* Other programs go on with what they have.                               *)
OtherMain(p) ==
    /\ Program[p] \in {"quiet", "dashboard"}
    /\ Goto(p, "main", Ready(p))
    /\ UNCHANGED <<bound, server, told>>

(* Commands are typed into dashboards and CLIs.                            *)
Commanded(p) == pc[p] = "up" /\ Program[p] \in {"cli", "quiet", "dashboard"}

(* `ec2.server start`, a command of the EC2 plugin.                        *)
ServerStart(p) ==
    /\ Commanded(p)
    /\ server[p] = None /\ StartServer(p, DefaultPort)
    /\ UNCHANGED <<pc, told>>

(* Mutant of Stopped: the server is closed and still said to run.          *)
StillRunning(p) == server

Stopped(p) == [server EXCEPT ![p] = None]

(* `ec2.server stop`.                                                      *)
ServerStop(p) ==
    /\ Commanded(p)
    /\ server[p] # None
    /\ bound' = [bound EXCEPT ![server[p]] = None]
    /\ server' = Stopped(p)
    /\ UNCHANGED <<pc, told>>

Exit(p) ==
    /\ Goto(p, "up", "down")
    /\ bound' = Released(p)
    /\ server' = [server EXCEPT ![p] = None]
    /\ UNCHANGED told

Main(p) == ReceiverMain(p) \/ CliMain(p) \/ WebMain(p) \/ OtherMain(p)
Probe(p) == ReceiverProbe(p) \/ CliProbe(p)

(* Nothing of this is about the web dashboard.                             *)
Receiving(p) ==
    /\ Import(p) \/ Main(p) \/ Probe(p) \/ ServerStart(p) \/ ServerStop(p) \/ Exit(p)
    /\ UNCHANGED web

-----------------------------------------------------------------------------
(* No port, or not any more: the web server ends, others go without it.    *)
NoWeb(p) ==
    IF Program[p] = "web"
    THEN pc' = [pc EXCEPT ![p] = "down"] /\ bound' = Released(p) /\ server' = [server EXCEPT ![p] = None]
    ELSE pc' = [pc EXCEPT ![p] = "up"] /\ UNCHANGED <<bound, server>>

(* _find_free_port, port by port, binds a port and gives it back.          *)
FindPort(p) ==
    /\ pc[p] = "find"
    /\ IF bound[WebPort + tried[p]] = None
       THEN Goto(p, "find", "serve") /\ UNCHANGED <<tried, bound, server>>
       ELSE /\ tried' = [tried EXCEPT ![p] = @ + 1]
            /\ IF tried[p] + 1 < MaxTries THEN UNCHANGED <<pc, bound, server>> ELSE NoWeb(p)
    /\ UNCHANGED <<told, url>>

(* Mutant of Named: the port that was asked for, as the CLI names it.      *)
NamedAsAsked(p, x) == WebPort

(* The web server's main names the port it found, and the dashboard the    *)
(* one its server has; the CLI names the port it was asked for.            *)
Named(p, x) == IF Program[p] \in {"cli", "quiet"} THEN WebPort ELSE x

(* WebServer, on the port that was found, if that is still free.           *)
ServeWeb(p) ==
    LET x == WebPort + tried[p]
    IN /\ pc[p] = "serve"
       /\ \/ /\ Bind(p, x)
             /\ Goto(p, "serve", "up")
             /\ url' = [url EXCEPT ![p] = Named(p, x)]
             /\ UNCHANGED server
          \/ bound[x] # None /\ NoWeb(p) /\ UNCHANGED url
       /\ UNCHANGED <<told, tried>>

Next == \E p \in Procs : Spawn(p) \/ Occupy(p) \/ Receiving(p) \/ FindPort(p) \/ ServeWeb(p)

Spec == Init /\ [][Next]_vars

-----------------------------------------------------------------------------
(* A process that counts on a server of its own has one on that port: as   *)
(* long as _ACTIVE_SERVER is running, its store syncs with no one else.    *)
ServerListens == \A p \in Procs : server[p] # None => bound[server[p]] = p

(* The cases the next two properties hold in: no receiver program is asked *)
(* for the port of its own plugin, and every CLI is.                       *)
ReceiversElsewhere == \A p \in Procs : Program[p] = "receiver" => AskedPort[p] # DefaultPort
ClisOnDefault == \A p \in Procs : Program[p] = "cli" => AskedPort[p] = DefaultPort

(* A receiver listens on port x; a web dashboard serves there.             *)
Receives(x) ==
    \E q \in Procs : /\ bound[x] = q
                     /\ server[q] = x \/ (Program[q] = "receiver" /\ AskedPort[q] = x)
Serves(x) ==
    \E q \in Serving : bound[x] = q /\ pc[q] = "up" /\ x = WebPort + tried[q]

(* If ReceiversElsewhere, a user who is told that a receiver is "ALREADY   *)
(* ACTIVE" on the port has one there, and not in the program that tells,   *)
(* which may be about to exit; or else it is a web dashboard or a service  *)
(* of others that answers /health in a way the program must believe. It is *)
(* never a port that fell free meanwhile, or one that does not answer.     *)
AlreadyIsTrue ==
    [][\A p \in Procs : told[p] = "nothing" /\ told'[p] = "already" =>
          LET x == AskedPort[p] IN
          /\ bound'[x] \notin {None, p}
          /\ Receives(x)' \/ Serves(x)' \/ Program[bound'[x]] \in Strangers \cap Credible(p)]_vars

(* "nano-dsl Metrics Receiver is ALREADY ACTIVE": one is.                  *)
AlreadyIsReceiver ==
    [][\A p \in Procs : told[p] = "nothing" /\ told'[p] = "already" => Receives(AskedPort[p])']_vars

(* If ClisOnDefault, a user who is told that a receiver was started on a   *)
(* port has it there, in the program that tells.                           *)
StartedIsTrue ==
    [][\A p \in Procs : told[p] = "nothing" /\ told'[p] = "started" =>
          bound'[AskedPort[p]] = p]_vars

(* A user who is told where the web dashboard is finds it there, in the    *)
(* process that tells: for the web server and the dashboard always, for    *)
(* the CLI if the port it was asked for was free when it looked.           *)
UrlIsTrue == \A p \in Procs :
    /\ pc[p] = "up" /\ url[p] # None
    /\ Program[p] \in {"cli", "quiet"} => tried[p] = 0
    => bound[url[p]] = p

(* "Web dashboard started on" a port: the page is there.                   *)
EveryUrlIsTrue == \A p \in Procs : pc[p] = "up" /\ url[p] # None => bound[url[p]] = p

(* "The server automatically binds to the next available port so the       *)
(* caller never has to handle EADDRINUSE."                                 *)
PortStaysFree == \A p \in Procs :
    pc[p] = "serve" /\ Program[p] # "web" => bound[WebPort + tried[p]] = None

(* "Don't auto-start the metrics receiver": a CLI that is told so starts   *)
(* none on its own.                                                        *)
OptOutKept == \A p \in Procs :
    Program[p] = "quiet" /\ pc[p] \in {"import", "main"} => server[p] = None

(* "Also auto-start the metrics telemetry receiver on port 8080 if not     *)
(* running": a receiver that runs elsewhere does not keep the web server   *)
(* from coming up.                                                         *)
WebComesUp ==
    [][\A p \in Procs : Program[p] = "web" /\ pc[p] = "main" => pc'[p] # "down"]_vars
=============================================================================
