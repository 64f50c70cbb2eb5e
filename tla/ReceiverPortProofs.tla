------------------------- MODULE ReceiverPortProofs -------------------------
(***************************************************************************)
(* Proofs about ReceiverPort, for any processes, programs and ports.       *)
(***************************************************************************)
EXTENDS ReceiverPort, TLAPS

LEMMA Constants ==
  /\ DefaultPort \in Ports /\ None \notin Procs /\ None \notin Ports
  /\ AskedPort \in [Procs -> Ports]
  /\ \A p \in Procs : Program[p] = "web" => AskedPort[p] = DefaultPort
  /\ MaxTries \in Nat \ {0} /\ WebPort \in Ports
  /\ \A n \in 0..MaxTries : n < MaxTries => WebPort + n \in Ports
  BY ReceiverPortAssumption DEF WebPorts

(* A process that is not up yet has no server but that of its plugin; a    *)
(* CLI that probes has none at all.                                        *)
EarlyHoldings ==
    \A p \in Procs :
        /\ pc[p] \in {"import", "main", "probe"} => server[p] \in {None, DefaultPort}
        /\ Program[p] = "cli" /\ pc[p] = "probe" => server[p] = None

(* The ports that a process of the package holds are that of its server    *)
(* and, once it is up, that of the receiver program and that of its page.  *)
Held(p, x) ==
    \/ server[p] = x
    \/ Program[p] = "receiver" /\ pc[p] = "up" /\ x = AskedPort[p]
    \/ p \in Serving /\ pc[p] = "up" /\ x = WebPort + tried[p]

Holdings ==
    \A p \in Procs : Program[p] \notin Strangers => \A x \in Ports : bound[x] = p => Held(p, x)

(* Before it has served the web, or gone on without, it has told of no     *)
(* page, and there are ports left to try.                                  *)
EarlyWeb ==
    \A p \in Procs :
        /\ pc[p] \notin {"down", "up"} => url[p] = None /\ tried[p] < MaxTries
        /\ pc[p] \in {"find", "serve"} => p \in Serving

IInv == TypeOK /\ ServerListens /\ EarlyWeb

LEMMA InitIInv == Init => IInv /\ EarlyHoldings /\ Holdings
  BY Constants DEF Init, IInv, TypeOK, ServerListens, EarlyHoldings, EarlyWeb, Holdings

LEMMA ReadyType == ASSUME NEW p \in Procs PROVE Ready(p) \in {"find", "up"}
  BY DEF Ready

(* No step of a process lets another lose or win a port.                   *)
LEMMA ReceivingIInv ==
  ASSUME IInv, NEW p \in Procs, Receiving(p) PROVE (TypeOK /\ ServerListens)'
<1> USE Constants, ReadyType
<1> UNCHANGED web
  BY DEF Receiving
<1>2. CASE Import(p)
  <2>1. CASE StartServer(p, DefaultPort)
    BY <1>2, <2>1 DEF Import, StartServer, Bind, Goto, IInv, TypeOK, ServerListens, web
  <2>2. CASE UNCHANGED <<bound, server>>
    BY <1>2, <2>2 DEF Import, Goto, IInv, TypeOK, ServerListens, web
  <2> QED BY <1>2, <2>1, <2>2 DEF Import
<1>3. CASE ReceiverMain(p)
  <2>1. AskedPort[p] \in Ports
    OBVIOUS
  <2>2. CASE Bind(p, AskedPort[p]) /\ Goto(p, "main", "up") /\ Tell(p, "started")
    BY <1>3, <2>1, <2>2 DEF ReceiverMain, Bind, Goto, Tell, IInv, TypeOK, ServerListens, web
  <2>3. CASE Goto(p, "main", "probe") /\ UNCHANGED <<bound, told>>
    BY <1>3, <2>3 DEF ReceiverMain, Goto, IInv, TypeOK, ServerListens, web
  <2> QED BY <1>3, <2>2, <2>3 DEF ReceiverMain
<1>4. CASE ReceiverProbe(p) \/ Exit(p)
  <2>1. /\ bound' = Released(p) /\ server' = [server EXCEPT ![p] = None]
        /\ pc' = [pc EXCEPT ![p] = "down"]
    BY <1>4 DEF ReceiverProbe, Exit, Goto
  <2>2. told' \in [Procs -> {"nothing", "started", "already", "busy"}]
    BY <1>4 DEF ReceiverProbe, Exit, Tell, Verdict, IInv, TypeOK
  <2> QED BY <2>1, <2>2 DEF Released, IInv, TypeOK, ServerListens, web
<1>5. CASE CliMain(p)
  <2>1. CASE StartServer(p, AskedPort[p]) /\ Goto(p, "main", Ready(p)) /\ Tell(p, "started") /\ server[p] = None
    <3>1. AskedPort[p] \in Ports
      OBVIOUS
    <3> QED BY <2>1, <3>1 DEF StartServer, Bind, Goto, Tell, IInv, TypeOK, ServerListens, web
  <2>2. CASE UNCHANGED <<bound, server>> /\ Goto(p, "main", Ready(p)) /\ Tell(p, "started")
    BY <2>2 DEF Goto, Tell, IInv, TypeOK, ServerListens, web
  <2>3. CASE UNCHANGED <<bound, server, told>> /\ Goto(p, "main", "probe")
    BY <2>3 DEF Goto, IInv, TypeOK, ServerListens, web
  <2> QED BY <1>5, <2>1, <2>2, <2>3 DEF CliMain
<1>6. CASE CliProbe(p)
  BY <1>6 DEF CliProbe, Goto, Tell, Verdict, IInv, TypeOK, ServerListens, web
<1>7. CASE OtherMain(p)
  BY <1>7 DEF OtherMain, Goto, IInv, TypeOK, ServerListens, web
<1>11. CASE WebMain(p)
  <2>1. CASE StartServer(p, AskedPort[p]) /\ Goto(p, "main", Ready(p)) /\ Tell(p, "started") /\ server[p] = None
    <3>1. AskedPort[p] \in Ports
      OBVIOUS
    <3> QED BY <2>1, <3>1 DEF StartServer, Bind, Goto, Tell, IInv, TypeOK, ServerListens, web
  <2>2. CASE UNCHANGED <<bound, server>> /\ Goto(p, "main", Ready(p)) /\ Tell(p, "started")
    BY <2>2 DEF Goto, Tell, IInv, TypeOK, ServerListens, web
  <2>3. CASE /\ bound' = Released(p) /\ UNCHANGED <<server, told>>
             /\ Goto(p, "main", "down") /\ server[p] = None
    BY <2>3 DEF Goto, Released, IInv, TypeOK, ServerListens, web
  <2> QED BY <1>11, <2>1, <2>2, <2>3 DEF WebMain
<1>8. CASE ServerStart(p)
  BY <1>8 DEF ServerStart, Commanded, StartServer, Bind, IInv, TypeOK, ServerListens, web
<1>9. CASE ServerStop(p)
  <2>1. /\ server[p] \in Ports /\ bound[server[p]] = p
        /\ bound' = [bound EXCEPT ![server[p]] = None]
        /\ server' = [server EXCEPT ![p] = None] /\ UNCHANGED <<pc, told>>
    BY <1>9 DEF ServerStop, Commanded, Stopped, IInv, TypeOK, ServerListens, web
  <2> QED BY <2>1 DEF IInv, TypeOK, ServerListens, web
<1> QED BY <1>2, <1>3, <1>4, <1>5, <1>6, <1>7, <1>8, <1>9, <1>11 DEF Receiving, Main, Probe

LEMMA WebIInv ==
  ASSUME IInv, NEW p \in Procs, Spawn(p) \/ Occupy(p) \/ FindPort(p) \/ ServeWeb(p)
  PROVE  (TypeOK /\ ServerListens)'
<1> USE Constants
<1>1. CASE Spawn(p)
  BY <1>1 DEF Spawn, Goto, Tell, IInv, TypeOK, ServerListens
<1>5. CASE Occupy(p)
  <2>1. AskedPort[p] \in Ports
    OBVIOUS
  <2> QED BY <1>5, <2>1 DEF Occupy, Bind, Goto, IInv, TypeOK, ServerListens
<1>2. ASSUME NoWeb(p), UNCHANGED told, tried' \in [Procs -> 0..MaxTries], UNCHANGED url
      PROVE  (TypeOK /\ ServerListens)'
  <2>1. CASE Program[p] = "web"
    <3>1. /\ bound' = Released(p) /\ server' = [server EXCEPT ![p] = None]
          /\ pc' = [pc EXCEPT ![p] = "down"]
      BY <1>2, <2>1 DEF NoWeb
    <3> QED BY <1>2, <3>1 DEF Released, IInv, TypeOK, ServerListens
  <2>2. CASE Program[p] # "web"
    BY <1>2, <2>2 DEF NoWeb, IInv, TypeOK, ServerListens
  <2> QED BY <2>1, <2>2
<1>3. CASE FindPort(p)
  <2>1. tried' \in [Procs -> 0..MaxTries]
    BY <1>3 DEF FindPort, IInv, TypeOK, EarlyWeb
  <2>2. CASE NoWeb(p)
    BY <1>2, <1>3, <2>1, <2>2 DEF FindPort
  <2>3. CASE pc' \in {pc, [pc EXCEPT ![p] = "serve"]} /\ pc[p] = "find" /\ UNCHANGED <<bound, server>>
    BY <1>3, <2>1, <2>3 DEF FindPort, IInv, TypeOK, ServerListens
  <2> QED BY <1>3, <2>2, <2>3 DEF FindPort, Goto
<1>4. CASE ServeWeb(p)
  <2> DEFINE x == WebPort + tried[p]
  <2>1. x \in Ports
    BY <1>4 DEF ServeWeb, IInv, TypeOK, EarlyWeb
  <2>3. CASE NoWeb(p) /\ UNCHANGED url
    BY <1>2, <1>4, <2>3 DEF ServeWeb, IInv, TypeOK
  <2>4. CASE Bind(p, x) /\ Goto(p, "serve", "up") /\ url' = [url EXCEPT ![p] = Named(p, x)]
             /\ UNCHANGED server
    <3>1. Named(p, x) \in Ports
      BY <2>1 DEF Named
    <3> HIDE DEF x
    <3> QED BY <1>4, <2>1, <2>4, <3>1 DEF ServeWeb, Bind, Goto, IInv, TypeOK, ServerListens
  <2> QED BY <1>4, <2>3, <2>4 DEF ServeWeb
<1> QED BY <1>1, <1>3, <1>4, <1>5

LEMMA NextEarlyWeb == ASSUME IInv, Next PROVE EarlyWeb'
<1> USE Constants
<1> SUFFICES ASSUME NEW q \in Procs, pc'[q] \notin {"down", "up"}
             PROVE  /\ url'[q] = None /\ tried'[q] < MaxTries
                    /\ pc'[q] \in {"find", "serve"} => q \in Serving
  BY DEF EarlyWeb
<1> PICK p \in Procs : Spawn(p) \/ Occupy(p) \/ Receiving(p) \/ FindPort(p) \/ ServeWeb(p)
  BY DEF Next
<1>1. CASE Spawn(p)
  BY <1>1 DEF Spawn, Goto, IInv, TypeOK, EarlyWeb
<1>2. CASE Receiving(p)
  <2>1. pc[q] \notin {"down", "up"}
    BY <1>2 DEF Receiving, Import, Main, Probe, ReceiverMain, CliMain, WebMain, OtherMain, ReceiverProbe,
       CliProbe, ServerStart, ServerStop, Commanded, Exit, Goto, IInv, TypeOK
  <2>2. pc'[q] \in {"find", "serve"} => q \in Serving
    BY <1>2 DEF Receiving, Import, Main, Probe, ReceiverMain, CliMain, WebMain, OtherMain, ReceiverProbe,
       CliProbe, ServerStart, ServerStop, Commanded, Exit, Goto, Ready, IInv, TypeOK, EarlyWeb
  <2> QED BY <1>2, <2>1, <2>2 DEF Receiving, web, IInv, EarlyWeb
<1>3. CASE FindPort(p)
  BY <1>3 DEF FindPort, Goto, NoWeb, IInv, TypeOK, EarlyWeb
<1>4. CASE ServeWeb(p)
  BY <1>4 DEF ServeWeb, Goto, NoWeb, IInv, TypeOK, EarlyWeb
<1>5. CASE Occupy(p)
  BY <1>5 DEF Occupy, Goto, IInv, TypeOK, EarlyWeb
<1> QED BY <1>1, <1>2, <1>3, <1>4, <1>5

LEMMA NextIInv == ASSUME IInv, [Next]_vars PROVE IInv'
<1>1. CASE Next
  BY <1>1, ReceivingIInv, WebIInv, NextEarlyWeb DEF Next, IInv
<1>2. CASE UNCHANGED vars
  BY <1>2 DEF vars, IInv, TypeOK, ServerListens, EarlyWeb
<1> QED BY <1>1, <1>2

(* What a step of p leaves to any other process.                           *)
LEMMA OthersKeep ==
  ASSUME IInv, NEW p \in Procs, NEW q \in Procs \ {p},
         Spawn(p) \/ Occupy(p) \/ Receiving(p) \/ FindPort(p) \/ ServeWeb(p)
  PROVE  /\ pc'[q] = pc[q] /\ server'[q] = server[q] /\ tried'[q] = tried[q]
         /\ \A x \in Ports : bound'[x] = q => bound[x] = q
<1>1. pc'[q] = pc[q] /\ server'[q] = server[q] /\ tried'[q] = tried[q]
  <2>1. CASE Spawn(p) \/ Occupy(p) \/ FindPort(p) \/ ServeWeb(p)
    BY <2>1 DEF Spawn, Occupy, FindPort, ServeWeb, NoWeb, Goto, IInv, TypeOK
  <2>2. CASE Receiving(p)
    BY <2>2 DEF Receiving, Import, Main, Probe, ReceiverMain, ReceiverProbe, CliMain, WebMain,
       CliProbe, OtherMain, ServerStart, ServerStop, Stopped, Exit, Goto, StartServer, web, IInv, TypeOK
  <2> QED BY <2>1, <2>2
<1>2. ASSUME NEW x \in Ports, bound'[x] = q PROVE bound[x] = q
  <2>1. ASSUME NEW y, Bind(p, y) PROVE bound[x] = q
    BY <1>2, <2>1 DEF Bind, IInv, TypeOK
  <2>2. bound' # Released(p) \/ bound[x] = q
    BY <1>2, Constants DEF Released
  <2>3. CASE ServerStop(p)
    BY <1>2, <2>3, Constants DEF ServerStop, Commanded, IInv, TypeOK
  <2>4. CASE UNCHANGED bound
    BY <1>2, <2>4
  <2> QED BY <2>1, <2>2, <2>3, <2>4
          DEF Spawn, Occupy, FindPort, ServeWeb, NoWeb, Receiving, Import, Main, Probe, ReceiverMain,
              ReceiverProbe, CliMain, WebMain, CliProbe, OtherMain, ServerStart, Exit, StartServer
<1> QED BY <1>1, <1>2

LEMMA NextEarlyHoldings == ASSUME IInv, EarlyHoldings, [Next]_vars PROVE EarlyHoldings'
<1> USE Constants
<1>1. ASSUME NEW p \in Procs,
             Spawn(p) \/ Occupy(p) \/ Receiving(p) \/ FindPort(p) \/ ServeWeb(p), NEW q \in Procs
      PROVE  /\ pc'[q] \in {"import", "main", "probe"} => server'[q] \in {None, DefaultPort}
             /\ Program[q] = "cli" /\ pc'[q] = "probe" => server'[q] = None
  <2>1. CASE p # q
    <3>1. pc'[q] = pc[q] /\ server'[q] = server[q]
      BY <1>1, <2>1, OthersKeep
    <3> QED BY <3>1 DEF EarlyHoldings
  <2>2. CASE p = q /\ (Spawn(p) \/ Occupy(p))
    BY <2>2 DEF Spawn, Occupy, Goto, IInv, TypeOK
  <2>3. CASE p = q /\ Import(p)
    <3>1. pc[p] = "import" /\ pc'[p] = "main"
      BY <2>3 DEF Import, Goto, IInv, TypeOK
    <3>2. CASE StartServer(p, DefaultPort)
      BY <2>3, <3>1, <3>2 DEF StartServer, Bind, EarlyHoldings, IInv, TypeOK
    <3>3. CASE UNCHANGED <<bound, server>>
      BY <2>3, <3>1, <3>3 DEF EarlyHoldings
    <3> QED BY <2>3, <3>2, <3>3 DEF Import
  <2>4. CASE p = q /\ Main(p)
    <3>1. pc[p] = "main" /\ pc'[p] \in {"up", "find", "probe", "down"}
      BY <2>4, ReadyType DEF Main, ReceiverMain, CliMain, WebMain, OtherMain, Goto, IInv, TypeOK
    <3>2. pc'[p] = "probe" => UNCHANGED <<bound, server>> /\ (Program[p] = "cli" => server[p] = None)
      BY <2>4, ReadyType DEF Main, ReceiverMain, CliMain, WebMain, OtherMain, Goto, IInv, TypeOK
    <3> QED BY <2>4, <3>1, <3>2 DEF EarlyHoldings
  <2>5. CASE p = q /\ (Probe(p) \/ ServerStart(p) \/ ServerStop(p) \/ Exit(p))
    BY <2>5, ReadyType DEF Probe, ReceiverProbe, CliProbe, ServerStart, ServerStop, Commanded, Exit,
       Goto, IInv, TypeOK
  <2>6. CASE p = q /\ (FindPort(p) \/ ServeWeb(p))
    BY <2>6 DEF FindPort, ServeWeb, NoWeb, Goto, IInv, TypeOK
  <2> QED BY <1>1, <2>1, <2>2, <2>3, <2>4, <2>5, <2>6 DEF Receiving
<1>2. CASE UNCHANGED vars
  BY <1>2 DEF vars, EarlyHoldings
<1> QED BY <1>1, <1>2 DEF Next, EarlyHoldings

LEMMA NextHoldings ==
  ASSUME IInv, EarlyHoldings, Holdings, [Next]_vars PROVE Holdings'
<1> USE Constants
<1>1. ASSUME NEW p \in Procs,
             Spawn(p) \/ Occupy(p) \/ Receiving(p) \/ FindPort(p) \/ ServeWeb(p),
             NEW q \in Procs, Program[q] \notin Strangers, NEW x \in Ports, bound'[x] = q
      PROVE  Held(q, x)'
  <2>1. CASE p # q
    <3>1. /\ pc'[q] = pc[q] /\ server'[q] = server[q] /\ tried'[q] = tried[q] /\ bound[x] = q
      BY <1>1, <2>1, OthersKeep
    <3> QED BY <1>1, <3>1 DEF Holdings, Held
  <2> SUFFICES ASSUME p = q PROVE server'[p] = x \/ Held(p, x)'
    BY <2>1 DEF Held
  <2>h. ASSUME bound[x] = p PROVE Held(p, x) /\ (pc[p] # "up" => server[p] = x)
    BY <1>1, <2>h DEF Holdings, Held
  <2>2. CASE Spawn(p) \/ Occupy(p)
    BY <1>1, <2>2, <2>h DEF Spawn, Occupy, Goto, IInv, TypeOK
  <2>3. ASSUME NEW y \in Ports, StartServer(p, y), pc[p] # "up", server[p] \in {None, y}
        PROVE  server'[p] = x
    BY <1>1, <2>3, <2>h DEF StartServer, Bind, IInv, TypeOK, ServerListens
  <2>4. CASE Import(p)
    <3>1. pc[p] = "import" /\ server[p] \in {None, DefaultPort}
      BY <2>4 DEF Import, Goto, EarlyHoldings
    <3> QED BY <1>1, <2>4, <2>3, <2>h, <3>1 DEF Import
  <2>5. CASE Main(p)
    <3>1. pc[p] = "main"
      BY <2>5 DEF Main, ReceiverMain, CliMain, WebMain, OtherMain, Goto
    <3>2. CASE StartServer(p, AskedPort[p]) /\ server[p] = None
      BY <2>3, <3>1, <3>2
    <3>3. CASE ReceiverMain(p) /\ Bind(p, AskedPort[p]) /\ Goto(p, "main", "up")
      BY <1>1, <2>h, <3>1, <3>3 DEF ReceiverMain, Bind, Goto, Held, IInv, TypeOK
    <3>4. CASE UNCHANGED <<bound, server>>
      BY <1>1, <2>h, <3>1, <3>4
    <3>5. bound' # Released(p)
      BY <1>1 DEF Released
    <3> QED BY <2>5, <3>2, <3>3, <3>4, <3>5 DEF Main, ReceiverMain, CliMain, WebMain, OtherMain
  <2>6. CASE Probe(p)
    <3>1. pc[p] = "probe" /\ (UNCHANGED <<bound, server>> \/ bound' = Released(p))
      BY <2>6 DEF Probe, ReceiverProbe, CliProbe, Goto
    <3> QED BY <1>1, <2>h, <3>1 DEF Released
  <2>7. CASE ServerStart(p) /\ UNCHANGED web
    BY <1>1, <2>h, <2>7 DEF ServerStart, Commanded, StartServer, Bind, Held, web, IInv, TypeOK
  <2>8. CASE ServerStop(p) /\ UNCHANGED web
    BY <1>1, <2>8, <2>h DEF ServerStop, Commanded, Stopped, Held, web, IInv, TypeOK, ServerListens
  <2>9. CASE Exit(p)
    BY <1>1, <2>9 DEF Exit, Released
  <2>10. CASE FindPort(p)
    <3>1. pc[p] = "find" /\ (UNCHANGED <<bound, server>> \/ bound' = Released(p))
      BY <2>10 DEF FindPort, NoWeb
    <3> QED BY <1>1, <2>h, <3>1 DEF Released
  <2>11. CASE ServeWeb(p)
    <3>1. pc[p] = "serve" /\ p \in Serving /\ tried' = tried
      BY <2>11 DEF ServeWeb, IInv, EarlyWeb
    <3>2. CASE UNCHANGED <<bound, server>> \/ bound' = Released(p)
      BY <1>1, <2>h, <3>1, <3>2 DEF Released
    <3>3. CASE Bind(p, WebPort + tried[p]) /\ Goto(p, "serve", "up") /\ UNCHANGED server
      BY <1>1, <2>h, <3>1, <3>3 DEF Bind, Goto, Held, IInv, TypeOK
    <3> QED BY <2>11, <3>2, <3>3 DEF ServeWeb, NoWeb
  <2> QED BY <1>1, <2>2, <2>4, <2>5, <2>6, <2>7, <2>8, <2>9, <2>10, <2>11 DEF Receiving
<1>2. CASE UNCHANGED vars
  BY <1>2 DEF vars, Holdings, Held
<1> QED BY <1>1, <1>2 DEF Next, Holdings

LEMMA Invariance == Spec => []IInv
<1>1. Init => IInv
  BY InitIInv
<1>2. IInv /\ [Next]_vars => IInv'
  BY NextIInv
<1> QED BY <1>1, <1>2, PTL DEF Spec

LEMMA HoldingsAlways == Spec => [](EarlyHoldings /\ Holdings)
<1>1. Init => EarlyHoldings /\ Holdings
  BY InitIInv
<1>2. IInv /\ EarlyHoldings /\ Holdings /\ [Next]_vars => (EarlyHoldings /\ Holdings)'
  BY NextEarlyHoldings, NextHoldings
<1> QED BY <1>1, <1>2, Invariance, PTL DEF Spec

(* Whatever starts, stops and exits, a process that believes in its own    *)
(* server listens on that server's port.                                   *)
THEOREM ServerListensHolds == Spec => []ServerListens
<1>1. IInv => ServerListens
  BY DEF IInv
<1> QED BY <1>1, Invariance, PTL

(* What is known of a process, from the receiver ports to the page.        *)
THEOREM TypeCorrect == Spec => []TypeOK
<1>1. IInv => TypeOK
  BY DEF IInv
<1> QED BY <1>1, Invariance, PTL

(* The page of p is where p says, and its receiver is elsewhere.           *)
WebInv ==
    /\ \A p \in Procs : Program[p] \in Strangers => url[p] = None
    /\ \A p \in Procs :
        /\ pc[p] = "up" /\ url[p] # None
        /\ Program[p] \in {"cli", "quiet"} => tried[p] = 0
        => bound[url[p]] = p /\ server[p] # url[p]

LEMMA NextWebInv == ASSUME IInv, WebInv, Next PROVE WebInv'
<1> USE Constants
<1> SUFFICES ASSUME NEW q \in Procs, pc'[q] = "up", url'[q] # None,
                    Program[q] \in {"cli", "quiet"} => tried'[q] = 0
             PROVE  bound'[url'[q]] = q /\ server'[q] # url'[q]
  <2>1. ASSUME NEW p \in Procs, Program[p] \in Strangers PROVE url'[p] = None
    <3>1. p \notin Serving /\ url[p] = None
      BY <2>1, ReceiverPortAssumption DEF Strangers, WebInv
    <3> QED BY <3>1 DEF Next, Spawn, Occupy, Receiving, FindPort, ServeWeb, web, IInv, TypeOK, EarlyWeb
  <2> QED BY <2>1 DEF WebInv
<1> PICK p \in Procs : Spawn(p) \/ Occupy(p) \/ Receiving(p) \/ FindPort(p) \/ ServeWeb(p)
  BY DEF Next
<1>1. CASE Spawn(p)
  BY <1>1 DEF Spawn, Goto, IInv, TypeOK, WebInv
<1>5. CASE Occupy(p)
  <2>1. AskedPort[p] \in Ports /\ (q = p => url[q] = None)
    BY <1>5 DEF Occupy, Goto, IInv, TypeOK, WebInv
  <2> QED BY <1>5, <2>1 DEF Occupy, Goto, Bind, IInv, TypeOK, WebInv
<1>2. CASE Receiving(p)
  <2>1. /\ url'[q] = url[q] /\ tried'[q] = tried[q] /\ url[q] \in Ports
    BY <1>2 DEF Receiving, web, IInv, TypeOK
  <2>2. pc[q] = "up"
    BY <1>2, <2>1, ReadyType DEF Receiving, Import, Main, Probe, ReceiverMain, CliMain, WebMain,
       OtherMain, ReceiverProbe, CliProbe, ServerStart, ServerStop, Commanded, Exit, Goto, IInv,
       TypeOK, EarlyWeb
  <2>3. bound[url[q]] = q /\ server[q] # url[q]
    BY <2>1, <2>2 DEF WebInv
  <2>4. CASE p # q
    BY <1>2, <2>1, <2>3, <2>4 DEF Receiving, Import, Main, Probe, ReceiverMain, CliMain, WebMain,
       OtherMain, ReceiverProbe, CliProbe, ServerStart, ServerStop, Stopped, Exit, StartServer,
       Bind, Released, IInv, TypeOK, ServerListens
  <2>5. CASE p = q
    <3>1. ServerStart(p) \/ ServerStop(p)
      BY <1>2, <2>2, <2>5 DEF Receiving, Import, Main, Probe, ReceiverMain, CliMain, WebMain,
         OtherMain, ReceiverProbe, CliProbe, Exit, Goto, IInv, TypeOK
    <3> QED BY <2>1, <2>3, <2>5, <3>1 DEF ServerStart, ServerStop, Stopped, StartServer, Bind,
               IInv, TypeOK, ServerListens
  <2> QED BY <2>4, <2>5
<1>3. CASE FindPort(p)
  <2>1. url[q] # None /\ pc[q] = "up" /\ p # q
    BY <1>3 DEF FindPort, Goto, NoWeb, IInv, TypeOK, EarlyWeb
  <2> QED BY <1>3, <2>1 DEF FindPort, Goto, NoWeb, Released, IInv, TypeOK, WebInv
<1>4. CASE ServeWeb(p)
  <2>1. CASE NoWeb(p) /\ UNCHANGED url
    <3>1. url[q] # None /\ pc[q] = "up" /\ p # q
      BY <1>4, <2>1 DEF ServeWeb, NoWeb, IInv, TypeOK, EarlyWeb
    <3> QED BY <1>4, <2>1, <3>1 DEF ServeWeb, NoWeb, Released, IInv, TypeOK, WebInv
  <2> DEFINE x == WebPort + tried[p]
  <2>2. CASE Bind(p, x) /\ Goto(p, "serve", "up") /\ url' = [url EXCEPT ![p] = Named(p, x)]
             /\ UNCHANGED server
    <3>1. x \in Ports /\ tried'[p] = tried[p]
      BY <1>4 DEF ServeWeb, IInv, TypeOK, EarlyWeb
    <3>2. (Program[p] \in {"cli", "quiet"} => tried[p] = 0) => Named(p, x) = x
      BY ReceiverPortAssumption DEF Named
    <3> HIDE DEF x
    <3>3. CASE p = q
      BY <2>2, <3>1, <3>2, <3>3 DEF Bind, IInv, TypeOK, ServerListens
    <3>4. CASE p # q
      BY <1>4, <2>2, <3>1, <3>4 DEF ServeWeb, Bind, Goto, IInv, TypeOK, WebInv
    <3> QED BY <3>3, <3>4
  <2> QED BY <1>4, <2>1, <2>2 DEF ServeWeb
<1> QED BY <1>1, <1>2, <1>3, <1>4, <1>5

(* A page is where its program says: that of the web server and of the     *)
(* dashboard always, the CLI's if the port it was asked for was free.      *)
THEOREM UrlIsTrueHolds == Spec => []UrlIsTrue
<1>1. Init => WebInv
  BY DEF Init, WebInv
<1>2. IInv /\ WebInv /\ [Next]_vars => WebInv'
  BY NextWebInv DEF vars, WebInv
<1>3. WebInv => UrlIsTrue
  BY DEF WebInv, UrlIsTrue
<1> QED BY <1>1, <1>2, <1>3, Invariance, PTL DEF Spec

(* If no receiver program is asked for the port its plugin takes, "ALREADY *)
(* ACTIVE" is said of a port on which another process listens, and one     *)
(* that is a receiver, a web dashboard, or a stranger whose /health the    *)
(* program must believe.                                                   *)
THEOREM AlreadyIsTrueHolds == ASSUME ReceiversElsewhere PROVE Spec => AlreadyIsTrue
<1>1. ASSUME IInv, EarlyHoldings, Holdings, Holdings', [Next]_vars
      PROVE  [\A p \in Procs : told[p] = "nothing" /\ told'[p] = "already" =>
                 LET x == AskedPort[p] IN
                 /\ bound'[x] \notin {None, p}
                 /\ Receives(x)' \/ Serves(x)' \/ Program[bound'[x]] \in Strangers \cap Credible(p)]_vars
  <2> SUFFICES ASSUME Next, NEW p \in Procs, told[p] = "nothing", told'[p] = "already"
               PROVE  LET x == AskedPort[p] IN
                      /\ bound'[x] \notin {None, p}
                      /\ \/ Receives(x)' \/ Serves(x)'
                         \/ Program[bound'[x]] \in Strangers \cap Credible(p)
    BY <1>1
  <2> DEFINE x == AskedPort[p]
  <2>1. ReceiverProbe(p) \/ CliProbe(p)
    <3>1. PICK q \in Procs : Spawn(q) \/ Occupy(q) \/ Receiving(q) \/ FindPort(q) \/ ServeWeb(q)
      BY DEF Next
    <3>2. ReceiverProbe(q) \/ CliProbe(q)
      BY <1>1, <3>1 DEF Spawn, Occupy, Receiving, FindPort, ServeWeb, Import, Main, Probe, ReceiverMain,
         CliMain, WebMain, OtherMain, ServerStart, ServerStop, Exit, Tell, IInv, TypeOK
    <3>3. q = p
      BY <1>1, <3>2 DEF ReceiverProbe, CliProbe, Tell, IInv, TypeOK
    <3> QED BY <3>2, <3>3
  <2>2. "already" \in Verdict(p, x)
    BY <1>1, <2>1 DEF ReceiverProbe, CliProbe, Tell, IInv, TypeOK
  <2>3. x \in Ports /\ bound[x] # None /\ Program[bound[x]] \in Credible(p)
    BY <2>2, Constants DEF Verdict
  <2>4. bound[x] \in Procs \ {p}
    <3>1. pc[p] = "probe" /\ Program[p] \in {"receiver", "cli"}
      BY <2>1 DEF ReceiverProbe, CliProbe, Goto
    <3>2. ASSUME bound[x] = p PROVE server[p] = x
      BY <1>1, <2>3, <3>1, <3>2 DEF Holdings, Held, Strangers
    <3>3. server[p] # x
      BY <1>1, <2>3, <3>1, Constants DEF EarlyHoldings, ReceiversElsewhere
    <3> QED BY <1>1, <2>3, <3>2, <3>3 DEF IInv, TypeOK
  <2>5. bound'[x] = bound[x]
    BY <2>1, <2>3, <2>4 DEF ReceiverProbe, CliProbe, Released
  <2>6. CASE Program[bound[x]] \in Strangers
    BY <2>3, <2>4, <2>5, <2>6, Constants
  <2>7. CASE Program[bound[x]] \notin Strangers
    <3> DEFINE q == bound[x]
    <3>1. Held(q, x)'
      BY <1>1, <2>3, <2>4, <2>5, <2>7 DEF Holdings
    <3>2. Receives(x)' \/ Serves(x)'
      BY <2>4, <2>5, <3>1 DEF Held, Receives, Serves
    <3> QED BY <2>4, <2>5, <3>2, Constants
  <2> QED BY <2>6, <2>7
<1> QED BY <1>1, Invariance, HoldingsAlways, PTL DEF Spec, AlreadyIsTrue

(* A receiver that is said to be started listens in the program that says  *)
(* so, on the port it names, unless a CLI is asked for another port than   *)
(* its plugin takes.                                                       *)
THEOREM StartedIsTrueHolds == ASSUME ClisOnDefault PROVE Spec => StartedIsTrue
<1>1. ASSUME IInv, EarlyHoldings, [Next]_vars
      PROVE  [\A p \in Procs : told[p] = "nothing" /\ told'[p] = "started" =>
                 bound'[AskedPort[p]] = p]_vars
  <2> SUFFICES ASSUME Next, NEW p \in Procs, told[p] = "nothing", told'[p] = "started"
               PROVE  bound'[AskedPort[p]] = p
    BY <1>1
  <2>1. ReceiverMain(p) \/ CliMain(p) \/ WebMain(p)
    <3>1. PICK q \in Procs : Spawn(q) \/ Occupy(q) \/ Receiving(q) \/ FindPort(q) \/ ServeWeb(q)
      BY DEF Next
    <3>2. ReceiverMain(q) \/ CliMain(q) \/ WebMain(q)
      BY <1>1, <3>1 DEF Spawn, Occupy, Receiving, FindPort, ServeWeb, Import, Main, Probe, ReceiverProbe, CliProbe, Verdict, OtherMain,
                  ServerStart, ServerStop, Exit, Tell, IInv, TypeOK
    <3>3. q = p
      BY <1>1, <3>2 DEF ReceiverMain, CliMain, WebMain, Tell, IInv, TypeOK
    <3> QED BY <3>2, <3>3
  <2>2. AskedPort[p] \in Ports
    BY Constants
  <2>3. CASE Bind(p, AskedPort[p])
    BY <1>1, <2>2, <2>3 DEF Bind, IInv, TypeOK
  <2>4. CASE server[p] # None /\ UNCHANGED bound /\ Program[p] \in {"cli", "web"} /\ pc[p] = "main"
    <3>1. server[p] = DefaultPort /\ AskedPort[p] = DefaultPort
      BY <1>1, <2>4, Constants DEF EarlyHoldings, ClisOnDefault
    <3> QED BY <1>1, <2>4, <3>1 DEF IInv, ServerListens
  <2> QED BY <1>1, <2>1, <2>3, <2>4
          DEF ReceiverMain, CliMain, WebMain, StartServer, Goto, Tell, IInv, TypeOK
<1> QED BY <1>1, Invariance, HoldingsAlways, PTL DEF Spec, StartedIsTrue
=============================================================================
