---------------------------- MODULE PluginProofs ----------------------------
(***************************************************************************)
(* Proofs about the two plugins. For DockerProbe: whatever containers come *)
(* and go and whenever the daemon stops answering, tables are those of one *)
(* moment, failures are those of the daemon or of the command line, and    *)
(* the page tells no more than it may. For Fleet, whose names are apart    *)
(* from those of DockerProbe: for any machines and names, an agent has one *)
(* entry, and commands answer for the node that was asked for.             *)
(***************************************************************************)
EXTENDS DockerProbe, Fleet, SequenceTheorems, FiniteSetTheorems, WellFoundedInduction, TLAPS

States == [Names -> {"absent", "exited", "running"}]

(* The family that a question lists.                                       *)
Scope ==
    /\ call = "page" => family \in Sections
    /\ call = "metric" => family = "ps"
    /\ call \notin {"page", "metric"} => family = call

Typed == TypeOK /\ Scope

(* What the histories say of the present.                                  *)
Witnessed == state \in seen /\ (~up => wasDown)

LEMMA InitTyped == Init => Typed /\ Witnessed
  <1> SUFFICES ASSUME Init PROVE Typed /\ Witnessed
    OBVIOUS
  <1> USE DEF Init
  <1>1. EmptyPage \in Page /\ Says("nothing") \in Answer
    BY DEF EmptyPage, Page, Says, Answer
  <1>2. TypeOK
    <2>1. seen \subseteq [Names -> {"absent", "exited", "running"}] /\ wasDown \in BOOLEAN
      OBVIOUS
    <2>2. call \in Calls /\ family \in Families
      BY DEF Calls, Families
    <2>3. changes \in 0..MaxChanges
      BY DockerProbeAssumption
    <2> QED BY <1>1, <2>1, <2>2, <2>3 DEF TypeOK
  <1>3. Scope /\ Witnessed
    BY DEF Scope, Witnessed
  <1> QED BY <1>2, <1>3 DEF Typed

(* What is listed of a family are containers.                              *)
LEMMA OfferedNames ==
    ASSUME NEW f \in Families, NEW s \in States
    PROVE  Offered(f, s) \in SUBSET Names
  BY DEF Offered, Families, Stock, Running, Existing, States

(* The type of every answer the gatherers give.                            *)
LEMMA RowsTyped == ASSUME NEW S \in SUBSET Names PROVE Rows(S) \in Answer
  BY DEF Rows, Answer

LEMMA SaysTyped ==
    ASSUME NEW s \in {"nothing", "not available", "unreachable", "error",
                      "no such container", "no output", "lines"}
    PROVE  Says(s) \in Answer
  BY DEF Says, Answer

(* A result of the right type is stored as one.                            *)
LEMMA ReturnTyped ==
    ASSUME Typed, NEW a \in Answer, Return(a), UNCHANGED <<call, name, docker>>,
           failed' \subseteq failed \cup {family}
    PROVE  Typed'
  <1> USE DEF docker
  <1>1. Section(a) \in SUBSET Names /\ Metric(a) \in Answer
    BY DEF Section, Metric, Says, Answer
  <1>2. CASE call = "page"
    <2>1. page' = [page EXCEPT !.section[family] = Section(a)] /\ answer' = answer
      BY <1>2 DEF Return
    <2>2. page' \in Page
      BY <1>1, <1>2, <2>1 DEF Typed, Scope, TypeOK, Page
    <2>3. family' \in Sections /\ pc' \in {"idle", "sdk"}
      BY <1>2 DEF Return, NextSection, Typed, Scope, Sections
    <2>4. family' \in Families
      BY <2>3 DEF Sections, Families, Stock
    <2> QED BY <1>2, <2>1, <2>2, <2>3, <2>4 DEF Return, Typed, Scope, TypeOK
  <1>3. CASE call # "page"
    <2>1. answer' \in Answer /\ UNCHANGED <<page, family>> /\ pc' = "idle"
      BY <1>1, <1>3 DEF Return
    <2> QED BY <1>3, <2>1 DEF Return, Typed, Scope, TypeOK
  <1> QED BY <1>2, <1>3

LEMMA WrittenTyped == ASSUME NEW n PROVE Written(n) \in Answer
  BY SaysTyped DEF Written

LEMMA ClassifyTyped ==
    ASSUME NEW x \in Answer, NEW a \in Classify(x) PROVE a \in Answer
  BY SaysTyped DEF Classify

LEMMA CliLogsTyped == ASSUME NEW n, NEW a \in CliLogs(n) PROVE a \in Answer
  <1>1. CASE a = Says("no such container") BY <1>1, SaysTyped
  <1>2. CASE a \in Classify(Written(n)) BY <1>2, WrittenTyped, ClassifyTyped
  <1> QED BY <1>1, <1>2 DEF CliLogs

(* The histories keep up with Docker.                                      *)
LEMMA NextWitnessed ==
    ASSUME Typed, Witnessed, [Next]_vars PROVE Witnessed'
  <1> USE DEF Witnessed, host, docker
  <1>1. CASE Change BY <1>1 DEF Change, Typed, TypeOK
  <1>2. CASE \E c \in Calls, n \in Names : Ask(c, n) BY <1>2 DEF Ask, Typed, TypeOK
  <1>3. CASE Start BY <1>3 DEF Start
  <1>4. CASE Ping BY <1>4 DEF Ping
  <1>5. CASE SdkAsk BY <1>5 DEF SdkAsk
  <1>6. CASE SdkMeasure BY <1>6 DEF SdkMeasure
  <1>7. CASE SdkMeasured BY <1>7 DEF SdkMeasured
  <1>8. CASE SdkFails BY <1>8 DEF SdkFails
  <1>9. CASE CliAsk BY <1>9 DEF CliAsk
  <1>10. CASE UNCHANGED vars BY <1>10 DEF vars
  <1>11. CASE PingFails BY <1>11 DEF PingFails
  <1>12. CASE CliFails BY <1>12 DEF CliFails
  <1> QED BY <1>1, <1>2, <1>3, <1>4, <1>5, <1>6, <1>7, <1>8, <1>9, <1>10, <1>11, <1>12 DEF Next

LEMMA NextTyped == ASSUME Typed, [Next]_vars PROVE Typed'
  <1> USE DEF host, docker
  <1>1. CASE Change
    <2> USE <1>1 DEF Change, Typed, TypeOK
    <2>1. UNCHANGED <<setup, call, name, pc, family, listed, rows, answer, page, failed>>
      OBVIOUS
    <2>2. changes' \in 0..MaxChanges
      BY DockerProbeAssumption
    <2>3. /\ up' \in BOOLEAN /\ wasDown' \in BOOLEAN
          /\ state' \in States /\ seen' \subseteq States
      BY DEF States
    <2> QED BY <2>1, <2>2, <2>3 DEF Scope, States
  <1>2. CASE \E c \in Calls, n \in Names : Ask(c, n)
    <2> PICK c \in Calls, n \in Names : Ask(c, n) BY <1>2
    <2>1. /\ family' \in Families \cup {"logs"} /\ Scope'
      BY DEF Ask, Scope, Calls, Families, Stock, Sections
    <2>2. answer' \in Answer /\ page' \in Page
      BY SaysTyped DEF Ask, EmptyPage, Page
    <2> QED BY <2>1, <2>2, DockerProbeAssumption DEF Ask, Typed, TypeOK
  <1>3. CASE Start
    <2> USE <1>3 DEF Start, Typed, TypeOK
    <2>1. answer' \in Answer
      BY SaysTyped
    <2>2. page' \in Page
      BY DEF Page, Installed, Setup
    <2>3. pc' \in {"idle", "sdk", "ping"}
      OBVIOUS
    <2> QED BY <2>1, <2>2, <2>3 DEF Scope, host
  <1>4. CASE Ping
    BY <1>4 DEF Ping, Typed, TypeOK, Page, Scope, host
  <1>5. CASE SdkAsk
    <2> UNCHANGED <<call, name, host>> BY <1>5 DEF SdkAsk
    <2>1. CASE family = "logs"
      BY <1>5, <2>1, WrittenTyped, ReturnTyped DEF SdkAsk
    <2>2. CASE family = "stats"
      BY <1>5, <2>2 DEF SdkAsk, Typed, TypeOK, Scope, Running, host
    <2>3. CASE family \notin {"logs", "stats"}
      <3>1. Rows(Offered(family, state)) \in Answer
        BY <2>3, OfferedNames, RowsTyped DEF Typed, TypeOK, States
      <3> QED BY <1>5, <2>3, <3>1, ReturnTyped DEF SdkAsk
    <2> QED BY <2>1, <2>2, <2>3
  <1>6. CASE SdkMeasure
    BY <1>6 DEF SdkMeasure, Measure, Typed, TypeOK, Scope, host
  <1>7. CASE SdkMeasured
    BY <1>7, RowsTyped, ReturnTyped DEF SdkMeasured, Typed, TypeOK
  <1>8. CASE SdkFails
    BY <1>8 DEF SdkFails, Typed, TypeOK, Scope, host
  <1>9. CASE CliAsk
    <2> UNCHANGED <<call, name, host>> BY <1>9 DEF CliAsk
    <2>1. CASE family = "logs"
      BY <1>9, <2>1, CliLogsTyped, ReturnTyped DEF CliAsk
    <2>2. CASE family # "logs"
      <3>1. Rows(Offered(family, state)) \in Answer
        BY <2>2, OfferedNames, RowsTyped DEF Typed, TypeOK, States
      <3> QED BY <1>9, <2>2, <3>1, ClassifyTyped, ReturnTyped DEF CliAsk
    <2> QED BY <2>1, <2>2
  <1>10. CASE UNCHANGED vars
    BY <1>10 DEF vars, Typed, TypeOK, Scope
  <1>11. CASE PingFails
    BY <1>11 DEF PingFails, Typed, TypeOK, Scope
  <1>12. CASE CliFails
    BY <1>12, SaysTyped, ReturnTyped DEF CliFails
  <1> QED BY <1>1, <1>2, <1>3, <1>4, <1>5, <1>6, <1>7, <1>8, <1>9, <1>10, <1>11, <1>12 DEF Next

(* Every variable of the module keeps its type.                            *)
THEOREM TypeCorrect == Spec => []TypeOK
  <1>1. Typed /\ [Next]_vars => Typed' BY NextTyped
  <1>2. Typed => TypeOK BY DEF Typed
  <1> QED BY InitTyped, <1>1, <1>2, PTL DEF Spec
-----------------------------------------------------------------------------
(* What answers and pages claim.                                           *)

(* A command is answered when the call is over, a page never this way.     *)
Silent ==
    /\ pc # "idle" \/ call = "page" => answer = Says("nothing")
    /\ pc = "ping" => call = "page"

(* What is measured, or left to measure, is one list of the SDK.           *)
Measuring ==
    pc = "measure" => family = "stats" /\ Snapshot("stats", listed \cup rows)

(* What a result may say.                                                  *)
Justified(a) ==
    /\ a.says = "rows" => Snapshot(family, a.rows)
    /\ a.says \in {"unreachable", "error"} => wasDown \/ family \in failed
    /\ a.says = "not available" => ~setup.cli \/ family \in failed
    /\ a.says \in {"lines", "no output"} => \E s \in seen : s[name] # "absent"
    /\ a.says = "no such container" /\ "misleading" \notin LogKinds =>
          \E s \in seen : s[name] = "absent"

(* Only the logs have an answer other than rows or a failure.              *)
Listing(a) ==
    family # "logs" => a.says \in {"rows", "not available", "unreachable", "error"}

AnswerInv ==
    /\ Silent /\ Measuring /\ Justified(answer)
    /\ pc = "idle" /\ call = "metric" /\ answer.says = "nothing" =>
          wasDown \/ ~setup.cli \/ family \in failed

(* What a step may return, a failure of its own included.                  *)
Returnable(a) ==
    /\ failed \subseteq failed' /\ Listing(a)
    /\ \/ Justified(a)
       \/ a.says \in {"not available", "unreachable", "error"} /\ family \in failed'

LEMMA Fields ==
    /\ \A x : Says(x).says = x
    /\ \A S : Rows(S).says = "rows" /\ Rows(S).rows = S
    /\ \A n : Written(n).says \in {"no output", "lines"}
  BY DEF Says, Rows, Written

(* Every result a gatherer returns is justified.                           *)
LEMMA RowsJustified ==
    ASSUME Witnessed, family # "logs"
    PROVE  /\ Justified(Rows(Offered(family, state)))
           /\ Listing(Rows(Offered(family, state)))
  BY Fields DEF Justified, Listing, Snapshot, Witnessed

LEMMA WrittenJustified ==
    ASSUME Witnessed, family = "logs", state[name] # "absent"
    PROVE  Justified(Written(name)) /\ Listing(Written(name))
  BY Fields DEF Justified, Listing, Witnessed

LEMMA FailureJustified ==
    ASSUME Typed, Witnessed, ~(setup.cli /\ up), NEW x, NEW a \in Classify(x)
    PROVE  Justified(a) /\ Listing(a)
  <1>1. setup.cli \in BOOLEAN /\ up \in BOOLEAN
    BY DEF Typed, TypeOK, Setup
  <1>2. CASE ~setup.cli /\ a = Says("not available")
    BY <1>2, Fields DEF Justified, Listing
  <1>3. CASE ~up /\ a \in {Says("unreachable"), Says("error")}
    <2>1. wasDown
      BY <1>3 DEF Witnessed
    <2>2. a.says \in {"unreachable", "error"}
      BY <1>3, Fields
    <2> QED BY <2>1, <2>2 DEF Justified, Listing
  <1> QED BY <1>1, <1>2, <1>3 DEF Classify

LEMMA CliJustified ==
    ASSUME Typed, Witnessed,
           NEW a \in IF family = "logs" THEN CliLogs(name)
                     ELSE Classify(Rows(Offered(family, state)))
    PROVE  Justified(a) /\ Listing(a)
  <1>1. setup.logs[name] \in LogKinds /\ setup.cli \in BOOLEAN /\ up \in BOOLEAN
    BY DEF Typed, TypeOK, Setup
  <1>2. CASE ~(setup.cli /\ up)
    BY <1>1, <1>2, FailureJustified DEF CliLogs
  <1>3. CASE setup.cli /\ up /\ family # "logs"
    BY <1>3, RowsJustified DEF Classify
  <1>4. CASE family = "logs" /\ a = Says("no such container")
             /\ (state[name] = "absent" \/ setup.logs[name] = "misleading")
    BY <1>1, <1>4, Fields DEF Justified, Listing, Witnessed
  <1>5. CASE family = "logs" /\ state[name] # "absent" /\ a = Written(name)
    BY <1>5, WrittenJustified
  <1> QED BY <1>1, <1>2, <1>3, <1>4, <1>5 DEF CliLogs, Classify

(* Returning a justified result keeps the answer justified.                *)
LEMMA ReturnAnswers ==
    ASSUME Typed, AnswerInv, NEW a, Return(a), UNCHANGED <<call, name, docker>>,
           Returnable(a), pc # "idle"
    PROVE  AnswerInv'
  <1> UNCHANGED <<setup, seen, wasDown>>
    BY DEF docker
  <1> USE DEF Returnable
  <1>1. /\ pc' # "measure" /\ answer.says = "nothing"
        /\ call # "page" => pc' = "idle"
    BY Fields DEF Return, AnswerInv, Silent
  <1>2. CASE call = "page"
    <2>1. answer' = answer
      BY <1>2 DEF Return
    <2> QED BY <1>1, <1>2, <2>1 DEF AnswerInv, Silent, Measuring, Justified
  <1>3. CASE call = "metric"
    <2>1. family = "ps" /\ family' = family /\ answer' = Metric(a)
      BY <1>3 DEF Return, Typed, Scope
    <2>2. CASE a.says = "rows"
      BY <1>1, <1>3, <2>1, <2>2
      DEF Metric, AnswerInv, Silent, Measuring, Justified, Snapshot
    <2>3. CASE a.says # "rows"
      <3>1. wasDown \/ ~setup.cli \/ family \in failed'
        BY <2>1, <2>3 DEF Justified, Listing
      <3>2. answer'.says = "nothing"
        BY <2>1, <2>3, Fields DEF Metric
      <3>3. Justified(answer)'
        BY <3>2 DEF Justified
      <3> QED BY <1>1, <1>3, <2>1, <3>1, <3>3 DEF AnswerInv, Silent, Measuring
    <2> QED BY <2>2, <2>3
  <1>4. CASE call \notin {"page", "metric"}
    <2>1. family' = family /\ answer' = a
      BY <1>4 DEF Return
    <2>2. Justified(a)'
      <3>1. CASE Justified(a)
        BY <2>1, <3>1 DEF Justified, Snapshot
      <3>2. CASE a.says \in {"not available", "unreachable", "error"} /\ family \in failed'
        BY <2>1, <3>2 DEF Justified
      <3> QED BY <3>1, <3>2
    <2>3. Justified(answer)'
      BY <2>1, <2>2 DEF Justified, Snapshot
    <2> QED BY <1>1, <1>4, <2>3 DEF AnswerInv, Silent, Measuring
  <1> QED BY <1>2, <1>3, <1>4

LEMMA CliFailsReturnable ==
    ASSUME CliFails, NEW s \in {"not available", "unreachable", "error"}
    PROVE  Returnable(Says(s))
  BY Fields DEF CliFails, Returnable, Listing

(* A step that answers nothing, and forgets nothing, preserves answers.    *)
LEMMA OtherAnswers ==
    ASSUME AnswerInv, UNCHANGED <<setup, call, name, family, answer>>,
           seen \subseteq seen', wasDown => wasDown', failed \subseteq failed',
           pc # "idle", pc' # "idle" \/ call = "page", pc' = "ping" => call = "page",
           pc' = "measure" => family = "stats" /\ Snapshot("stats", (listed \cup rows)')
    PROVE  AnswerInv'
  BY Fields DEF AnswerInv, Silent, Measuring, Justified, Snapshot

LEMMA NextAnswers ==
    ASSUME Typed, Witnessed, AnswerInv, [Next]_vars PROVE AnswerInv'
  <1>1. CASE Change
    <2>1. /\ seen \subseteq seen'
          /\ wasDown => wasDown'
          /\ UNCHANGED <<setup, call, name, pc, family, listed, rows, answer, failed>>
          /\ pc # "idle"
      BY <1>1 DEF Change, Typed, TypeOK
    <2>2. pc' = "measure" => family = "stats" /\ Snapshot("stats", (listed \cup rows)')
      BY <2>1 DEF AnswerInv, Measuring, Snapshot
    <2> QED BY <2>1, <2>2, OtherAnswers DEF AnswerInv, Silent
  <1> USE DEF host, docker
  <1>2. CASE \E c \in Calls, n \in Names : Ask(c, n)
    <2>1. answer' = Says("nothing") /\ pc' = "ask"
      BY <1>2 DEF Ask
    <2>2. answer'.says = "nothing"
      BY <2>1, Fields
    <2>3. Justified(answer)'
      BY <2>2 DEF Justified
    <2> QED BY <2>1, <2>3 DEF AnswerInv, Silent, Measuring
  <1>3. CASE Start
    <2> UNCHANGED <<setup, call, name, family, seen, wasDown, failed>> /\ pc = "ask" /\ pc' # "measure"
      BY <1>3 DEF Start
    <2>1. CASE pc' # "idle" \/ call = "page"
      <3>1. answer' = answer /\ (pc' = "ping" => call = "page")
        BY <1>3, <2>1 DEF Start
      <3> QED BY <2>1, <3>1, OtherAnswers
    <2>2. CASE pc' = "idle" /\ call # "page"
      <3>1. answer' = Says("not available") /\ ~Installed /\ call # "metric"
        BY <1>3, <2>2 DEF Start
      <3>2. ~setup.cli
        BY <3>1 DEF Installed
      <3> QED BY <2>2, <3>1, <3>2, Fields DEF AnswerInv, Silent, Measuring, Justified
    <2> QED BY <2>1, <2>2
  <1>4. CASE Ping
    <2>1. /\ UNCHANGED <<setup, call, name, family, answer, seen, wasDown, failed>>
          /\ pc = "ping" /\ pc' \in {"sdk", "idle"}
      BY <1>4 DEF Ping
    <2>2. call = "page" \/ pc' # "idle"
      BY <1>4 DEF Ping, AnswerInv, Silent
    <2> QED BY <2>1, <2>2, OtherAnswers
  <1>5. CASE SdkAsk
    <2> UNCHANGED <<call, name, host>> /\ pc = "sdk" /\ SdkAnswers
      BY <1>5 DEF SdkAsk
    <2>1. CASE family = "logs"
      BY <1>5, <2>1, WrittenJustified, ReturnAnswers DEF SdkAsk, Returnable
    <2>2. CASE family = "stats"
      <3>1. listed' \cup rows' = Running(state)
        BY <1>5, <2>2 DEF SdkAsk, AnswerInv
      <3>2. Offered("stats", state) = Running(state)
        BY DEF Offered, Stock
      <3>3. Snapshot("stats", (listed \cup rows)')
        BY <3>1, <3>2 DEF Snapshot, Witnessed
      <3> QED BY <1>5, <2>2, <3>3, OtherAnswers DEF SdkAsk
    <2>3. CASE family \notin {"logs", "stats"}
      BY <1>5, <2>3, RowsJustified, ReturnAnswers DEF SdkAsk, Returnable
    <2> QED BY <2>1, <2>2, <2>3
  <1>6. CASE SdkMeasure
    <2>1. listed' \cup rows' = listed \cup rows
      BY <1>6 DEF SdkMeasure, Measure
    <2>2. UNCHANGED <<setup, call, name, pc, family, answer, seen, wasDown, failed>> /\ pc = "measure"
      BY <1>6 DEF SdkMeasure
    <2>3. family = "stats" /\ Snapshot("stats", (listed \cup rows)')
      BY <2>1, <2>2 DEF AnswerInv, Measuring, Snapshot
    <2> QED BY <2>2, <2>3, OtherAnswers
  <1>7. CASE SdkMeasured
    <2> UNCHANGED <<call, name, host>> /\ pc = "measure" /\ Return(Rows(rows)) /\ listed = {}
      BY <1>7 DEF SdkMeasured
    <2>1. family = "stats" /\ Snapshot("stats", rows)
      BY DEF AnswerInv, Measuring
    <2>2. Justified(Rows(rows)) /\ Listing(Rows(rows))
      BY <2>1, Fields DEF Justified, Listing
    <2> QED BY <2>2, ReturnAnswers DEF Returnable
  <1>8. CASE SdkFails
    BY <1>8, OtherAnswers DEF SdkFails
  <1>9. CASE CliAsk
    BY <1>9, CliJustified, ReturnAnswers DEF CliAsk, Returnable
  <1>10. CASE UNCHANGED vars
    BY <1>10 DEF vars, AnswerInv, Silent, Measuring, Justified, Snapshot
  <1>11. CASE PingFails
    <2>1. /\ UNCHANGED <<setup, call, name, family, answer, seen, wasDown>>
          /\ pc = "ping" /\ pc' = "idle" /\ failed \subseteq failed'
      BY <1>11 DEF PingFails
    <2>2. call = "page"
      BY <2>1 DEF AnswerInv, Silent
    <2> QED BY <2>1, <2>2, OtherAnswers
  <1>12. CASE CliFails
    BY <1>12, CliFailsReturnable, ReturnAnswers DEF CliFails
  <1> QED BY <1>1, <1>2, <1>3, <1>4, <1>5, <1>6, <1>7, <1>8, <1>9, <1>10, <1>11, <1>12 DEF Next

LEMMA AnswersJustified == Spec => [](Typed /\ Witnessed /\ AnswerInv)
  <1>1. ASSUME Init PROVE AnswerInv
    <2>1. answer.says = "nothing"
      BY <1>1, Fields DEF Init
    <2>2. Justified(answer)
      BY <2>1 DEF Justified
    <2> QED BY <1>1, <2>2 DEF Init, AnswerInv, Silent, Measuring
  <1>2. Typed /\ Witnessed /\ AnswerInv /\ [Next]_vars => (Typed /\ Witnessed /\ AnswerInv)'
    BY NextTyped, NextWitnessed, NextAnswers
  <1> QED BY InitTyped, <1>1, <1>2, PTL DEF Spec

(* A table is one moment's, whatever goes meanwhile.                       *)
THEOREM RowsAreSnapshotHolds == Spec => []RowsAreSnapshot
  <1>1. AnswerInv => RowsAreSnapshot
    BY DEF AnswerInv, Justified, RowsAreSnapshot
  <1> QED BY AnswersJustified, <1>1, PTL

(* Whatever the SDK and the containers do, a failure that is told is the   *)
(* daemon's, or the command line's that is missing or has failed itself.   *)
THEOREM FailureIsTrueHolds == Spec => []FailureIsTrue
  <1>1. AnswerInv => FailureIsTrue
    BY DEF AnswerInv, Justified, FailureIsTrue
  <1> QED BY AnswersJustified, <1>1, PTL

(* Logs are of containers that have been there, and missing containers     *)
(* have been missing, unless a container writes what the daemon would say. *)
THEOREM LogsAreTrueHolds ==
    ASSUME "misleading" \notin LogKinds PROVE Spec => []LogsAreTrue
  <1>1. AnswerInv => LogsAreTrue
    BY DEF AnswerInv, Justified, LogsAreTrue
  <1> QED BY AnswersJustified, <1>1, PTL
-----------------------------------------------------------------------------
(* The page.                                                               *)

(* What may be shown in a section.                                         *)
SectionOk(f) ==
    \/ Snapshot(f, page.section[f])
    \/ page.section[f] = {} /\ (wasDown \/ ~setup.cli \/ f \in failed)

(* The sections that are still to come when f is being listed.             *)
Ahead(f) == {f} \cup (IF f = "containers" THEN {"stats", "images", "info"}
                      ELSE IF f = "stats" THEN {"images", "info"}
                      ELSE IF f = "images" THEN {"info"} ELSE {})

UnreachableOk ==
    wasDown \/ "ping" \in failed \/ setup.sdk = "elsewhere" \/ (~setup.cli /\ setup.sdk # "usable")

PageInv ==
    call = "page" =>
        /\ pc \in {"ask", "ping"} => ~page.reachable /\ family = "containers"
        /\ pc \in {"sdk", "measure", "cli"} =>
              page.reachable /\ \A f \in Sections \ Ahead(family) : SectionOk(f)
        /\ pc = "idle" /\ page.reachable => \A f \in Sections : SectionOk(f)
        /\ pc = "idle" /\ page.installed /\ ~page.reachable => UnreachableOk

(* Sections stay acceptable as long as nothing is forgotten.               *)
LEMMA OtherPages ==
    ASSUME PageInv, UNCHANGED <<setup, call, family, page>>,
           seen \subseteq seen', wasDown => wasDown', failed \subseteq failed',
           pc' = pc \/ {pc, pc'} \subseteq {"sdk", "measure", "cli"}
    PROVE  PageInv'
  <1>1. \A f : SectionOk(f) => SectionOk(f)'
    BY DEF SectionOk, Snapshot
  <1>2. UnreachableOk => UnreachableOk'
    BY DEF UnreachableOk
  <1> QED BY <1>1, <1>2 DEF PageInv

LEMMA ReturnPage ==
    ASSUME Typed, PageInv, NEW a, Return(a), UNCHANGED <<call, name, docker>>,
           Returnable(a), pc \in {"sdk", "measure", "cli"}
    PROVE  PageInv'
  <1> SUFFICES ASSUME call = "page" PROVE PageInv'
    BY DEF PageInv
  <1>1. /\ family \in Sections /\ page \in Page
        /\ page' = [page EXCEPT !.section[family] = Section(a)]
    BY DEF Typed, Scope, TypeOK, Return
  <1>2. /\ page'.reachable = page.reachable /\ page'.installed = page.installed
        /\ page'.section[family] = Section(a)
        /\ \A f \in Sections \ {family} : page'.section[f] = page.section[f]
    BY <1>1 DEF Page
  <1> USE DEF Returnable
  <1>3. UNCHANGED <<setup, seen, wasDown>>
    BY DEF docker
  <1>4. ASSUME NEW f \in Sections, SectionOk(f) \/ f = family PROVE SectionOk(f)'
    <2>1. CASE f # family
      BY <1>2, <1>3, <1>4, <2>1 DEF SectionOk, Snapshot
    <2>2. CASE f = family /\ a.says = "rows"
      BY <1>2, <1>3, <2>2 DEF SectionOk, Snapshot, Section, Justified
    <2>3. CASE f = family /\ a.says # "rows"
      <3>1. wasDown \/ ~setup.cli \/ family \in failed'
        BY <1>1, <2>3 DEF Justified, Listing, Sections
      <3>2. page'.section[f] = {}
        BY <1>2, <2>3 DEF Section
      <3> QED BY <1>3, <2>3, <3>1, <3>2 DEF SectionOk
    <2> QED BY <2>1, <2>2, <2>3
  <1>5. page.reachable /\ \A f \in Sections \ Ahead(family) : SectionOk(f)
    BY DEF PageInv
  <1>6. CASE family = "info"
    <2>1. pc' = "idle"
      BY <1>6 DEF Return
    <2>2. Sections \subseteq (Sections \ Ahead(family)) \cup {family}
      BY <1>6 DEF Ahead, Sections
    <2>3. \A f \in Sections : SectionOk(f)'
      BY <1>4, <1>5, <2>2
    <2> QED BY <1>2, <1>5, <2>1, <2>3 DEF PageInv
  <1>7. CASE family # "info"
    <2>1. pc' = "sdk" /\ family' = NextSection(family)
      BY <1>7 DEF Return
    <2>2. Sections \ Ahead(family') \subseteq (Sections \ Ahead(family)) \cup {family}
      BY <1>1, <1>7, <2>1 DEF Ahead, Sections, NextSection
    <2>3. \A f \in Sections \ Ahead(family') : SectionOk(f)'
      BY <1>4, <1>5, <2>2
    <2> QED BY <1>2, <1>5, <2>1, <2>3 DEF PageInv
  <1> QED BY <1>6, <1>7

LEMMA NextPage ==
    ASSUME Typed, Witnessed, AnswerInv, PageInv, [Next]_vars PROVE PageInv'
  <1> USE DEF host, docker
  <1>1. CASE Change
    <2>1. /\ seen \subseteq seen'
          /\ wasDown => wasDown'
      BY <1>1 DEF Change, Typed, TypeOK
    <2> QED BY <1>1, <2>1, OtherPages DEF Change
  <1>2. CASE \E c \in Calls, n \in Names : Ask(c, n)
    BY <1>2 DEF Ask, PageInv, EmptyPage
  <1>3. CASE Start
    <2>1. CASE call # "page"
      BY <1>3, <2>1 DEF Start, PageInv
    <2>2. CASE call = "page"
      <3>1. /\ page' = [page EXCEPT !.installed = Installed]
            /\ pc' = IF Installed THEN "ping" ELSE "idle"
            /\ ~page.reachable /\ page \in Page
        BY <1>3, <2>2 DEF Start, PageInv, Typed, TypeOK
      <3>2. page'.installed = Installed /\ page'.reachable = page.reachable
        BY <3>1 DEF Page
      <3>3. pc' = "ping" \/ (pc' = "idle" /\ page'.installed = FALSE)
        BY <3>1, <3>2 DEF Installed
      <3>4. ~page'.reachable /\ family' = family
        BY <1>3, <3>1, <3>2 DEF Start
      <3> QED BY <1>3, <2>2, <3>3, <3>4 DEF Start, PageInv
    <2> QED BY <2>1, <2>2
  <1>4. CASE Ping
    <2> PICK r \in BOOLEAN : /\ Reached(r) /\ page' = [page EXCEPT !.reachable = r]
                             /\ pc' = IF r THEN "sdk" ELSE "idle"
      BY <1>4 DEF Ping
    <2>1. page'.reachable = r
      BY DEF Typed, TypeOK, Page
    <2>2. call' = call /\ UNCHANGED <<family, setup, wasDown, failed>>
      BY <1>4 DEF Ping
    <2>3. CASE r
      <3>1. call = "page" /\ family = "containers" /\ pc' = "sdk"
        BY <1>4, <2>3 DEF Ping, AnswerInv, Silent, PageInv
      <3>2. Sections \ Ahead(family') = {}
        BY <2>2, <3>1 DEF Sections, Ahead
      <3> QED BY <2>1, <2>3, <3>1, <3>2 DEF PageInv
    <2>4. CASE ~r
      <3>1. UnreachableOk
        <4>1. up \in BOOLEAN /\ setup.cli \in BOOLEAN
          BY DEF Typed, TypeOK, Setup
        <4> QED BY <2>4, <4>1 DEF Reached, Client, NoClient, SdkAnswers, UnreachableOk,
                                  Witnessed
      <3>2. pc' = "idle" /\ ~page'.reachable
        BY <2>1, <2>4
      <3>3. UnreachableOk'
        BY <2>2, <3>1 DEF UnreachableOk
      <3> QED BY <3>2, <3>3 DEF PageInv
    <2> QED BY <2>3, <2>4
  <1>5. CASE SdkAsk
    <2> UNCHANGED <<call, name, host>> /\ pc = "sdk" /\ SdkAnswers
      BY <1>5 DEF SdkAsk
    <2>1. CASE family = "logs"
      BY <1>5, <2>1, WrittenJustified, ReturnPage DEF SdkAsk, Returnable
    <2>2. CASE family = "stats"
      BY <1>5, <2>2, OtherPages DEF SdkAsk
    <2>3. CASE family \notin {"logs", "stats"}
      BY <1>5, <2>3, RowsJustified, ReturnPage DEF SdkAsk, Returnable
    <2> QED BY <2>1, <2>2, <2>3
  <1>6. CASE SdkMeasure
    BY <1>6, OtherPages DEF SdkMeasure
  <1>7. CASE SdkMeasured
    <2> UNCHANGED <<call, name, host>> /\ pc = "measure" /\ Return(Rows(rows)) /\ listed = {}
      BY <1>7 DEF SdkMeasured
    <2>1. family = "stats" /\ Snapshot("stats", rows)
      BY DEF AnswerInv, Measuring
    <2>2. Justified(Rows(rows)) /\ Listing(Rows(rows))
      BY <2>1, Fields DEF Justified, Listing
    <2> QED BY <2>2, ReturnPage DEF Returnable
  <1>8. CASE SdkFails
    BY <1>8, OtherPages DEF SdkFails
  <1>9. CASE CliAsk
    BY <1>9, CliJustified, ReturnPage DEF CliAsk, Returnable
  <1>10. CASE UNCHANGED vars
    BY <1>10, OtherPages DEF vars
  <1>11. CASE PingFails
    <2>1. call' = call /\ page' = page /\ pc = "ping" /\ pc' = "idle" /\ "ping" \in failed'
      BY <1>11 DEF PingFails
    <2> QED BY <2>1 DEF PageInv, UnreachableOk
  <1>12. CASE CliFails
    BY <1>12, CliFailsReturnable, ReturnPage DEF CliFails
  <1> QED BY <1>1, <1>2, <1>3, <1>4, <1>5, <1>6, <1>7, <1>8, <1>9, <1>10, <1>11, <1>12 DEF Next

(* The page tells no more than it may: its sections are those of one       *)
(* moment or empty for a reason, and an unreachable daemon has one too.    *)
THEOREM PageIsTrueHolds == Spec => []PageIsTrue
  <1>1. Init => PageInv
    BY DEF Init, PageInv
  <1>2. Typed /\ Witnessed /\ AnswerInv /\ PageInv /\ [Next]_vars => PageInv'
    BY NextPage
  <1>3. PageInv => PageIsTrue
    BY DEF PageInv, PageIsTrue, SectionOk, UnreachableOk
  <1> QED BY AnswersJustified, <1>1, <1>2, <1>3, PTL DEF Spec

-----------------------------------------------------------------------------
(* The machines of the EC2 plugin.                                         *)
LEMMA FleetConstants ==
  /\ None \notin Ids /\ OnlineThreshold \in Nat \ {0} /\ PartOf \in [Ids -> SUBSET Ids]
  /\ NodeId \in [Machines -> Ids \cup {None}] /\ Instance \in [Machines -> Ids \cup {None}]
  /\ Host \in [Machines -> Ids] /\ Old \in Nat /\ Ages \subseteq Nat /\ 0 \in Ages
  BY FleetAssumption DEF Old, Ages

(* What is found first is found.                                           *)
LEMMA Least ==
  ASSUME NEW S, S \subseteq Nat, S # {}
  PROVE  Min(S) \in S /\ \A y \in S : Min(S) <= y
<1>1. PICK x \in S : \A y \in S : ~(<<y, x>> \in OpToRel(<, Nat))
  BY WFMin, NatLessThanWellFounded
<1>2. \A y \in S : x <= y
  <2> SUFFICES ASSUME NEW y \in S PROVE x <= y
    OBVIOUS
  <2>1. ~(y < x)
    BY <1>1 DEF OpToRel
  <2> QED BY <2>1
<1>3. \E z \in S : \A y \in S : z <= y
  BY <1>2
<1> QED BY <1>3, Zenon DEF Min

(* An entry that is taken out leaves the others in their order.            *)
LEMMA RemoveAtKeeps ==
  ASSUME NEW S, NEW l \in Seq(S), NEW i \in 1..Len(l)
  PROVE  /\ RemoveAt(l, i) \in Seq(S) /\ Len(RemoveAt(l, i)) = Len(l) - 1
         /\ \A j \in 1..(Len(l) - 1) : RemoveAt(l, i)[j] = l[IF j < i THEN j ELSE j + 1]
<1> DEFINE s == SubSeq(l, 1, i - 1)
           t == SubSeq(l, i + 1, Len(l))
<1>1. /\ s \in Seq(S) /\ Len(s) = i - 1 /\ \A j \in 1..(i - 1) : s[j] = l[j]
      /\ t \in Seq(S) /\ Len(t) = Len(l) - i /\ \A j \in 1..(Len(l) - i) : t[j] = l[i + j]
  <2>1. \A j \in 1..(i - 1) : l[j] \in S
    OBVIOUS
  <2>2. \A j \in (i + 1)..Len(l) : l[j] \in S
    OBVIOUS
  <2>3. s \in Seq(S) /\ Len(s) = i - 1 /\ \A j \in 1..(i - 1) : s[j] = l[j]
    BY <2>1, SubSeqProperties
  <2>4. t \in Seq(S) /\ Len(t) = Len(l) - i /\ \A j \in 1..(Len(l) - i) : t[j] = l[i + j]
    BY <2>2, SubSeqProperties
  <2> QED BY <2>3, <2>4
<1> HIDE DEF s, t
<1>2. /\ s \o t \in Seq(S) /\ Len(s \o t) = Len(l) - 1
      /\ \A j \in 1..(Len(l) - 1) : (s \o t)[j] = IF j <= i - 1 THEN s[j] ELSE t[j - (i - 1)]
  <2>1. /\ s \o t \in Seq(S) /\ Len(s \o t) = Len(s) + Len(t)
        /\ \A j \in 1..(Len(s) + Len(t)) :
              (s \o t)[j] = IF j <= Len(s) THEN s[j] ELSE t[j - Len(s)]
    BY <1>1, ConcatProperties
  <2>2. Len(s) + Len(t) = Len(l) - 1
    BY <1>1
  <2> QED BY <1>1, <2>1, <2>2
<1>3. ASSUME NEW j \in 1..(Len(l) - 1) PROVE (s \o t)[j] = l[IF j < i THEN j ELSE j + 1]
  <2>1. CASE j < i
    BY <1>1, <1>2, <2>1
  <2>2. CASE ~(j < i)
    <3>1. j - (i - 1) \in 1..(Len(l) - i) /\ i + (j - (i - 1)) = j + 1 /\ ~(j <= i - 1)
      BY <2>2
    <3> QED BY <1>1, <1>2, <2>2, <3>1
  <2> QED BY <2>1, <2>2
<1>4. RemoveAt(l, i) = s \o t
  BY DEF RemoveAt, s, t
<1> QED BY <1>2, <1>3, <1>4

(* The entry at p, if there is one, has the name of e, and makes place for *)
(* e at the front.                                                         *)
MovesUp(u, e, p) ==
    /\ \A k \in 1..Len(nodes) : nodes[k].id = e.id <=> k = p
    /\ Len(u) = IF p <= Len(nodes) THEN Len(nodes) ELSE Len(nodes) + 1
    /\ \A k \in 2..Len(u) : u[k] = nodes[IF k <= p THEN k - 1 ELSE k]

LEMMA UpdatedMovesUp ==
  ASSUME FleetTypeOK, NEW e \in Entry
  PROVE  /\ Updated(e) \in Seq(Entry) /\ Updated(e)[1] = e
         /\ \E p \in 1..(Len(nodes) + 1) : MovesUp(Updated(e), e, p)
<1>1. nodes \in Seq(Entry) /\ Len(nodes) \in Nat /\ DOMAIN nodes = 1..Len(nodes)
  BY DEF FleetTypeOK
<1>2. <<e>> \in Seq(Entry) /\ Len(<<e>>) = 1 /\ <<e>>[1] = e
  OBVIOUS
<1>3. ASSUME NEW s \in Seq(Entry)
      PROVE  /\ <<e>> \o s \in Seq(Entry) /\ Len(<<e>> \o s) = Len(s) + 1 /\ (<<e>> \o s)[1] = e
             /\ \A k \in 2..(Len(s) + 1) : (<<e>> \o s)[k] = s[k - 1]
  <2>1. /\ <<e>> \o s \in Seq(Entry) /\ Len(<<e>> \o s) = 1 + Len(s)
        /\ \A k \in 1..(1 + Len(s)) : (<<e>> \o s)[k] = IF k <= 1 THEN <<e>>[k] ELSE s[k - 1]
    BY <1>2, ConcatProperties
  <2> QED BY <1>2, <2>1
<1>4. CASE e.id \notin IdsOf(nodes)
  <2>1. \A k \in 1..Len(nodes) : nodes[k].id # e.id
    BY <1>1, <1>4 DEF IdsOf
  <2>2. Updated(e) = <<e>> \o nodes
    BY <1>4 DEF Updated
  <2>3. \A k \in 2..(Len(nodes) + 1) : (<<e>> \o nodes)[k] = nodes[k - 1]
    BY <1>1, <1>3
  <2> DEFINE p == Len(nodes) + 1
  <2>4. p \in 1..(Len(nodes) + 1) /\ ~(p <= Len(nodes)) /\ \A k \in 2..p : k <= p
    BY <1>1
  <2>5. \A k \in 1..Len(nodes) : nodes[k].id = e.id <=> k = p
    BY <1>1, <2>1
  <2>6. Len(Updated(e)) = p /\ Updated(e) \in Seq(Entry) /\ Updated(e)[1] = e
    BY <1>1, <1>3, <2>2
  <2>7. \A k \in 2..Len(Updated(e)) : Updated(e)[k] = nodes[IF k <= p THEN k - 1 ELSE k]
    BY <2>2, <2>3, <2>4, <2>6
  <2> HIDE DEF p
  <2>8. Len(Updated(e)) = IF p <= Len(nodes) THEN Len(nodes) ELSE Len(nodes) + 1
    BY <2>4, <2>6 DEF p
  <2> QED BY <2>4, <2>5, <2>6, <2>7, <2>8 DEF MovesUp
<1>5. CASE e.id \in IdsOf(nodes)
  <2> DEFINE p == CHOOSE k \in DOMAIN nodes : nodes[k].id = e.id
             s == RemoveAt(nodes, p)
  <2>1. p \in 1..Len(nodes) /\ nodes[p].id = e.id
    BY <1>1, <1>5 DEF IdsOf
  <2>2. Updated(e) = <<e>> \o s
    BY <1>5 DEF Updated
  <2> HIDE DEF p
  <2>3. /\ s \in Seq(Entry) /\ Len(s) = Len(nodes) - 1
        /\ \A j \in 1..(Len(nodes) - 1) : s[j] = nodes[IF j < p THEN j ELSE j + 1]
    BY <1>1, <2>1, RemoveAtKeeps
  <2> HIDE DEF s
  <2>4. \A k \in 1..Len(nodes) : nodes[k].id = e.id <=> k = p
    BY <1>1, <2>1 DEF FleetTypeOK
  <2>5. /\ <<e>> \o s \in Seq(Entry) /\ Len(<<e>> \o s) = Len(s) + 1 /\ (<<e>> \o s)[1] = e
        /\ \A k \in 2..(Len(s) + 1) : (<<e>> \o s)[k] = s[k - 1]
    BY <1>3, <2>3
  <2>6. Len(s) + 1 = Len(nodes) /\ p \in Nat
    BY <1>1, <2>1, <2>3
  <2>7. ASSUME NEW k \in 2..Len(nodes) PROVE s[k - 1] = nodes[IF k <= p THEN k - 1 ELSE k]
    <3>1. k - 1 \in 1..(Len(nodes) - 1) /\ (k - 1 < p <=> k <= p) /\ (k - 1) + 1 = k
      BY <2>6
    <3> QED BY <2>3, <3>1
  <2>8. \A k \in 2..Len(nodes) : (<<e>> \o s)[k] = nodes[IF k <= p THEN k - 1 ELSE k]
    BY <2>5, <2>6, <2>7
  <2>9. p \in 1..(Len(nodes) + 1) /\ p <= Len(nodes)
    BY <1>1, <2>1
  <2> QED BY <2>2, <2>4, <2>5, <2>6, <2>8, <2>9 DEF MovesUp
<1> QED BY <1>4, <1>5

-----------------------------------------------------------------------------
(* What is current was pushed under the name its agent has.                *)
Current == \A k \in DOMAIN nodes : nodes[k].current => nodes[k].id = agent[nodes[k].of]

(* What a command has read is still there, though maybe heard anew.        *)
Known ==
    query # None =>
        /\ \A k \in DOMAIN query.seen : query.seen[k] \in IdsOf(nodes)
        /\ query.kind = "server" => query.count <= Len(nodes)

FleetInv == FleetTypeOK /\ Current /\ Known

LEMMA InitFleetInv == FleetInit => FleetInv
<1> SUFFICES ASSUME FleetInit PROVE FleetInv
  OBVIOUS
<1>1. nodes \in Seq(Entry) /\ DOMAIN nodes = {}
  BY DEF FleetInit
<1> QED BY <1>1 DEF FleetInit, FleetInv, FleetTypeOK, Current, Known

(* Nodes are never dropped from the store.                                 *)
LEMMA KnownStays ==
  ASSUME FleetTypeOK, Known, UNCHANGED query, Len(nodes') \in Nat, Len(nodes) <= Len(nodes'),
         \A j \in DOMAIN nodes : \E k \in DOMAIN nodes' : nodes'[k].id = nodes[j].id
  PROVE  Known'
<1>1. \A i \in IdsOf(nodes) : i \in IdsOf(nodes')
  BY DEF IdsOf
<1>2. query # None => query.count \in Nat
  BY DEF FleetTypeOK, Query
<1>3. Len(nodes) \in Nat
  BY DEF FleetTypeOK
<1> QED BY <1>1, <1>2, <1>3 DEF Known

(* Entries keep their names, their places and their order.                 *)
LEMMA Aged ==
  ASSUME FleetInv, Tick PROVE FleetInv'
<1> USE FleetConstants
<1>1. nodes \in Seq(Entry) /\ DOMAIN nodes = 1..Len(nodes) /\ Len(nodes) \in Nat
  BY DEF FleetInv, FleetTypeOK
<1>2. nodes' = [k \in 1..Len(nodes) |-> [nodes[k] EXCEPT !.age = IF @ = Old THEN Old ELSE @ + 1]]
  BY <1>1 DEF Tick
<1>3. ASSUME NEW k \in 1..Len(nodes)
      PROVE  /\ nodes[k] \in Entry /\ nodes'[k] \in Entry
             /\ nodes'[k].id = nodes[k].id /\ nodes'[k].of = nodes[k].of /\ nodes'[k].current = nodes[k].current
             /\ nodes'[k].age = IF nodes[k].age = Old THEN Old ELSE nodes[k].age + 1
  <2>1. nodes[k] \in Entry
    BY <1>1
  <2>2. nodes'[k] = [nodes[k] EXCEPT !.age = IF nodes[k].age = Old THEN Old ELSE nodes[k].age + 1]
    BY <1>2
  <2>3. (IF nodes[k].age = Old THEN Old ELSE nodes[k].age + 1) \in Ages
    BY <2>1 DEF Entry, Ages
  <2> QED BY <2>1, <2>2, <2>3 DEF Entry
<1>4. nodes' \in Seq(Entry) /\ Len(nodes') = Len(nodes) /\ DOMAIN nodes' = 1..Len(nodes)
  <2>1. nodes' \in [1..Len(nodes) -> Entry]
    BY <1>2, <1>3
  <2> QED BY <1>1, <2>1
<1>5. \A j, k \in 1..Len(nodes) : j < k => nodes'[j].id # nodes'[k].id /\ nodes'[j].age <= nodes'[k].age
  <2> SUFFICES ASSUME NEW j \in 1..Len(nodes), NEW k \in 1..Len(nodes), j < k
               PROVE  nodes'[j].id # nodes'[k].id /\ nodes'[j].age <= nodes'[k].age
    OBVIOUS
  <2>1. nodes[j].id # nodes[k].id /\ nodes[j].age <= nodes[k].age
    BY <1>1 DEF FleetInv, FleetTypeOK
  <2>2. nodes[j].age \in Nat /\ nodes[k].age \in Nat /\ nodes[k].age <= Old
    BY <1>3 DEF Entry, Ages
  <2> QED BY <1>3, <2>1, <2>2
<1>6. UNCHANGED <<agent, query>>
  BY DEF Tick
<1>7. FleetTypeOK'
  BY <1>4, <1>5 DEF Tick, FleetInv, FleetTypeOK
<1>8. Current'
  BY <1>1, <1>3, <1>4, <1>6 DEF FleetInv, Current
<1>9. Known'
  BY <1>1, <1>3, <1>4, <1>6, KnownStays DEF FleetInv
<1> QED BY <1>7, <1>8, <1>9 DEF FleetInv

(* A push puts an entry at the front, and takes at most one out, that has  *)
(* its name.                                                               *)
LEMMA PushMoves ==
  ASSUME FleetInv, NEW m \in Machines, Push(m)
  PROVE  \E e \in Entry :
           /\ e.id = agent[m] /\ e.age = 0 /\ e.of = m
           /\ \E p \in 1..(Len(nodes) + 1) : MovesUp(nodes', e, p)
           /\ nodes' \in Seq(Entry) /\ nodes'[1] = e /\ 1 \in DOMAIN nodes'
           /\ \A k \in DOMAIN nodes' : nodes'[k] = e \/ \E j \in DOMAIN nodes : nodes'[k] = nodes[j]
           /\ \A j \in DOMAIN nodes : nodes[j].id = e.id \/ \E k \in DOMAIN nodes' : nodes'[k] = nodes[j]
<1> USE FleetConstants
<1>1. nodes \in Seq(Entry) /\ DOMAIN nodes = 1..Len(nodes) /\ Len(nodes) \in Nat /\ FleetTypeOK
  BY DEF FleetInv, FleetTypeOK
<1>2. PICK r \in Readings :
         nodes' = Updated([id |-> agent[m], age |-> 0, disk |-> r, of |-> m, current |-> TRUE])
  BY DEF Push, Named
<1> DEFINE e == [id |-> agent[m], age |-> 0, disk |-> r, of |-> m, current |-> TRUE]
<1>3. e \in Entry /\ e.id = agent[m] /\ e.age = 0 /\ e.of = m
  BY <1>1 DEF Push, FleetTypeOK, Entry
<1>4. nodes' = Updated(e)
  BY <1>2
<1> HIDE DEF e
<1>5. PICK p \in 1..(Len(nodes) + 1) : MovesUp(nodes', e, p)
  BY <1>1, <1>3, <1>4, UpdatedMovesUp
<1>6. /\ nodes' \in Seq(Entry) /\ nodes'[1] = e
      /\ \A k \in 1..Len(nodes) : nodes[k].id = e.id <=> k = p
      /\ Len(nodes') = IF p <= Len(nodes) THEN Len(nodes) ELSE Len(nodes) + 1
      /\ \A k \in 2..Len(nodes') : nodes'[k] = nodes[IF k <= p THEN k - 1 ELSE k]
  <2>1. nodes' \in Seq(Entry) /\ nodes'[1] = e
    BY <1>1, <1>3, <1>4, UpdatedMovesUp
  <2> QED BY <1>5, <2>1 DEF MovesUp
<1>7. DOMAIN nodes' = 1..Len(nodes') /\ Len(nodes') \in Nat /\ 1 \in DOMAIN nodes'
  BY <1>1, <1>6
<1>8. ASSUME NEW k \in DOMAIN nodes' PROVE nodes'[k] = e \/ \E j \in DOMAIN nodes : nodes'[k] = nodes[j]
  <2>1. CASE k = 1
    BY <1>6, <2>1
  <2>2. CASE k # 1
    <3>1. k \in 2..Len(nodes')
      BY <1>7, <2>2
    <3>2. (IF k <= p THEN k - 1 ELSE k) \in DOMAIN nodes
      BY <1>1, <1>6, <3>1
    <3> QED BY <1>6, <3>1, <3>2
  <2> QED BY <2>1, <2>2
<1>9. ASSUME NEW j \in DOMAIN nodes, nodes[j].id # e.id PROVE \E k \in DOMAIN nodes' : nodes'[k] = nodes[j]
  <2>1. j \in 1..Len(nodes) /\ j # p
    BY <1>1, <1>6, <1>9
  <2>2. CASE j < p
    <3>1. j + 1 \in 2..Len(nodes') /\ j + 1 <= p /\ (j + 1) - 1 = j
      BY <1>1, <1>6, <2>1, <2>2
    <3>2. nodes'[j + 1] = nodes[j]
      BY <1>6, <3>1
    <3> QED BY <1>7, <3>1, <3>2
  <2>3. CASE j > p
    <3>1. j \in 2..Len(nodes') /\ ~(j <= p)
      BY <1>1, <1>6, <2>1, <2>3
    <3>2. nodes'[j] = nodes[j]
      BY <1>6, <3>1
    <3>3. j \in DOMAIN nodes'
      BY <1>7, <3>1
    <3> QED BY <3>2, <3>3
  <2> QED BY <1>1, <2>1, <2>2, <2>3
<1> QED BY <1>3, <1>5, <1>6, <1>7, <1>8, <1>9

(* A push comes to the front, and no other entry has its name.             *)
LEMMA Pushed ==
  ASSUME FleetInv, NEW m \in Machines, Push(m) PROVE FleetInv'
<1> USE FleetConstants
<1>1. nodes \in Seq(Entry) /\ DOMAIN nodes = 1..Len(nodes) /\ Len(nodes) \in Nat /\ FleetTypeOK
  BY DEF FleetInv, FleetTypeOK
<1>2. PICK e \in Entry :
        /\ e.id = agent[m] /\ e.age = 0 /\ e.of = m
        /\ \E p \in 1..(Len(nodes) + 1) : MovesUp(nodes', e, p)
        /\ nodes' \in Seq(Entry) /\ nodes'[1] = e /\ 1 \in DOMAIN nodes'
        /\ \A k \in DOMAIN nodes' : nodes'[k] = e \/ \E j \in DOMAIN nodes : nodes'[k] = nodes[j]
        /\ \A j \in DOMAIN nodes : nodes[j].id = e.id \/ \E k \in DOMAIN nodes' : nodes'[k] = nodes[j]
  BY PushMoves
<1>3. e \in Entry /\ e.id = agent[m] /\ e.age = 0 /\ e.of = m
  BY <1>2
<1>5. PICK p \in 1..(Len(nodes) + 1) : MovesUp(nodes', e, p)
  BY <1>2
<1>6. /\ nodes' \in Seq(Entry) /\ nodes'[1] = e
      /\ \A k \in 1..Len(nodes) : nodes[k].id = e.id <=> k = p
      /\ Len(nodes') = IF p <= Len(nodes) THEN Len(nodes) ELSE Len(nodes) + 1
      /\ \A k \in 2..Len(nodes') : nodes'[k] = nodes[IF k <= p THEN k - 1 ELSE k]
  BY <1>2, <1>5 DEF MovesUp
<1> DEFINE was(k) == IF k <= p THEN k - 1 ELSE k
<1>7. ASSUME NEW k \in 2..Len(nodes')
      PROVE  was(k) \in 1..Len(nodes) /\ was(k) # p /\ nodes'[k] = nodes[was(k)]
  <2>1. was(k) \in 1..Len(nodes) /\ was(k) # p
    BY <1>1, <1>6
  <2> QED BY <1>6, <2>1
<1>8. \A j, k \in 2..Len(nodes') : j < k => was(j) < was(k)
  BY <1>1, <1>6
<1> HIDE DEF was
<1>9. DOMAIN nodes' = 1..Len(nodes') /\ Len(nodes') \in Nat /\ 1 \in DOMAIN nodes' /\ Len(nodes) <= Len(nodes')
  BY <1>1, <1>6
<1>10. ASSUME NEW j \in 1..Len(nodes'), NEW k \in 1..Len(nodes'), j < k
       PROVE  nodes'[j].id # nodes'[k].id /\ nodes'[j].age <= nodes'[k].age
  <2>1. k \in 2..Len(nodes')
    BY <1>10
  <2>2. nodes'[k] = nodes[was(k)] /\ was(k) \in 1..Len(nodes) /\ nodes[was(k)].id # e.id
    BY <1>6, <1>7, <2>1
  <2>3. CASE j = 1
    <3>1. nodes[was(k)] \in Entry
      BY <1>1, <2>2
    <3>2. nodes[was(k)].age \in Nat
      BY <3>1 DEF Entry
    <3> QED BY <1>3, <1>6, <2>2, <2>3, <3>2
  <2>4. CASE j # 1
    <3>1. j \in 2..Len(nodes')
      BY <2>4
    <3>2. nodes'[j] = nodes[was(j)] /\ was(j) \in 1..Len(nodes) /\ was(j) < was(k)
      BY <1>7, <1>8, <1>10, <2>1, <3>1
    <3> QED BY <1>1, <2>2, <3>2 DEF FleetTypeOK
  <2> QED BY <2>3, <2>4
<1>11. FleetTypeOK'
  BY <1>1, <1>6, <1>9, <1>10 DEF Push, FleetTypeOK
<1>12. Current'
  <2>2. UNCHANGED agent
    BY DEF Push
  <2>3. \A j \in DOMAIN nodes : nodes[j].current => nodes[j].id = agent[nodes[j].of]
    BY DEF FleetInv, Current
  <2> QED BY <1>2, <2>2, <2>3 DEF Current
<1>13. \A j \in DOMAIN nodes : \E k \in DOMAIN nodes' : nodes'[k].id = nodes[j].id
  BY <1>2
<1>14. Known'
  BY <1>9, <1>13, KnownStays DEF Push, FleetInv
<1> QED BY <1>11, <1>12, <1>14 DEF FleetInv

(* Who is online are at most all.                                          *)
LEMMA OnlineCounted ==
  ASSUME FleetTypeOK PROVE CountOnline \in Nat /\ CountOnline <= Len(nodes)
<1> DEFINE S == {k \in DOMAIN nodes : IsOnline(nodes[k])}
<1>1. Len(nodes) \in Nat /\ DOMAIN nodes = 1..Len(nodes)
  BY DEF FleetTypeOK
<1>2. IsFiniteSet(1..Len(nodes)) /\ Cardinality(1..Len(nodes)) = Len(nodes)
  <2>1. 1 \in Int /\ Len(nodes) \in Int
    BY <1>1
  <2>2. /\ IsFiniteSet(1..Len(nodes))
        /\ Cardinality(1..Len(nodes)) = IF 1 > Len(nodes) THEN 0 ELSE Len(nodes) - 1 + 1
    BY <2>1, FS_Interval, Zenon
  <2> QED BY <1>1, <2>2
<1>3. S \in SUBSET (1..Len(nodes))
  BY <1>1
<1> HIDE DEF S
<1>4. IsFiniteSet(S) /\ Cardinality(S) <= Len(nodes)
  BY <1>2, <1>3, FS_Subset
<1>5. Cardinality(S) \in Nat
  BY <1>4, FS_CardinalityType
<1> QED BY <1>4, <1>5 DEF CountOnline, S

LEMMA NextFleetInv == FleetInv /\ [FleetNext]_fleetVars => FleetInv'
<1> SUFFICES ASSUME FleetInv, [FleetNext]_fleetVars PROVE FleetInv'
  OBVIOUS
<1> USE FleetConstants
<1>1. /\ FleetTypeOK /\ nodes \in Seq(Entry) /\ DOMAIN nodes = 1..Len(nodes) /\ Len(nodes) \in Nat
      /\ \A k \in DOMAIN nodes : nodes[k] \in Entry /\ nodes[k].id \in Ids
  <2>1. FleetTypeOK /\ nodes \in Seq(Entry)
    BY DEF FleetInv, FleetTypeOK
  <2>2. DOMAIN nodes = 1..Len(nodes) /\ Len(nodes) \in Nat /\ \A k \in DOMAIN nodes : nodes[k] \in Entry
    BY <2>1
  <2> QED BY <2>1, <2>2 DEF Entry
<1>2. ASSUME NEW m \in Machines, StartAgent(m) PROVE FleetInv'
  <2>1. PICK i \in InstanceFound(m) : agent' = [agent EXCEPT ![m] = Resolved(m, i)]
    BY <1>2 DEF StartAgent
  <2>2. Resolved(m, i) \in Ids
    BY DEF InstanceFound, Resolved
  <2>3. FleetTypeOK'
    BY <1>1, <1>2, <2>1, <2>2 DEF StartAgent, FleetTypeOK
  <2>4. \A k \in DOMAIN nodes : nodes[k].current => nodes[k].of # m
    BY <1>1, <1>2 DEF StartAgent, FleetInv, Current
  <2>5. Current'
    BY <1>1, <1>2, <2>1, <2>4 DEF StartAgent, FleetTypeOK, FleetInv, Current
  <2> QED BY <1>2, <2>3, <2>5 DEF StartAgent, FleetInv, Known
<1>3. ASSUME NEW m \in Machines, EndAgent(m) PROVE FleetInv'
  <2>1. nodes' = [k \in 1..Len(nodes) |-> [nodes[k] EXCEPT !.current = nodes[k].current /\ nodes[k].of # m]]
    BY <1>1, <1>3 DEF EndAgent, Outdated
  <2>2. ASSUME NEW k \in 1..Len(nodes)
        PROVE  /\ nodes'[k] \in Entry /\ nodes'[k].id = nodes[k].id /\ nodes'[k].of = nodes[k].of
               /\ nodes'[k].age = nodes[k].age
               /\ nodes'[k].current = (nodes[k].current /\ nodes[k].of # m)
    BY <1>1, <2>1 DEF Entry
  <2>3. nodes' \in Seq(Entry) /\ Len(nodes') = Len(nodes) /\ DOMAIN nodes' = 1..Len(nodes)
    <3>1. nodes' \in [1..Len(nodes) -> Entry]
      BY <2>1, <2>2
    <3>2. Len(nodes) \in Nat
      BY <1>1
    <3> QED BY <3>1, <3>2
  <2>4. FleetTypeOK'
    BY <1>1, <1>3, <2>2, <2>3 DEF EndAgent, FleetTypeOK
  <2>5. Current'
    BY <1>1, <1>3, <2>2, <2>3 DEF EndAgent, FleetTypeOK, FleetInv, Current, Entry
  <2>6. Known'
    BY <1>1, <1>3, <2>2, <2>3, KnownStays DEF EndAgent, FleetInv
  <2> QED BY <2>4, <2>5, <2>6 DEF FleetInv
<1>4. ASSUME NEW m \in Machines, PushFails(m) PROVE FleetInv'
  BY <1>4 DEF PushFails, FleetInv, FleetTypeOK, Current, Known
<1>5. CASE Judge
  BY <1>5 DEF Judge, FleetInv, FleetTypeOK, Current, Known
<1>6. ASSUME NEW kind \in {"list", "node", "server"}, NEW asked \in Ids \cup {None}, Command(kind, asked)
      PROVE  FleetInv'
  <2> DEFINE names == [k \in DOMAIN nodes |-> nodes[k].id]
             count == IF kind = "server" THEN CountOnline ELSE 0
  <2>1. query' = [kind |-> kind, asked |-> asked, seen |-> names, count |-> count]
    BY <1>6 DEF Command
  <2>2. names \in Seq(Ids) /\ DOMAIN names = DOMAIN nodes /\ \A k \in DOMAIN nodes : names[k] \in IdsOf(nodes)
    <3>1. names \in [1..Len(nodes) -> Ids]
      BY <1>1
    <3> QED BY <1>1, <3>1 DEF IdsOf
  <2>3. count \in Nat /\ (kind = "server" => count <= Len(nodes))
    BY <1>1, OnlineCounted
  <2> HIDE DEF names, count
  <2>4. query' \in Query
    BY <2>1, <2>2, <2>3 DEF Query
  <2>5. Known'
    BY <1>6, <2>1, <2>2, <2>3 DEF Command, Known
  <2> QED BY <1>6, <2>4, <2>5 DEF Command, FleetInv, FleetTypeOK, Current
<1>7. CASE Reply
  BY <1>7 DEF Reply, FleetInv, FleetTypeOK, Current, Known
<1>8. CASE UNCHANGED fleetVars
  BY <1>8 DEF fleetVars, FleetInv, FleetTypeOK, Current, Known
<1> QED BY <1>2, <1>3, <1>4, <1>5, <1>6, <1>7, <1>8, Pushed, Aged DEF FleetNext

LEMMA FleetInvariance == FleetSpec => []FleetInv
  BY InitFleetInv, NextFleetInv, PTL DEF FleetSpec

(* The store is sorted by the time of the last push and has a name once,   *)
(* and what commands have read of it has its type.                         *)
THEOREM FleetTypeCorrect == FleetSpec => []FleetTypeOK
<1>1. FleetInv => FleetTypeOK
  BY DEF FleetInv
<1> QED BY <1>1, FleetInvariance, PTL

(* For any machines and names, and whatever the metadata service answers:  *)
(* an agent has one entry from its start to its end.                       *)
THEOREM OneEntryPerRunHolds == FleetSpec => []OneEntryPerRun
<1>1. FleetInv => OneEntryPerRun
  <2> SUFFICES ASSUME FleetInv, NEW j \in DOMAIN nodes, NEW k \in DOMAIN nodes,
                      nodes[j].current, nodes[k].current, nodes[j].of = nodes[k].of
               PROVE  j = k
    BY DEF OneEntryPerRun
  <2>1. nodes[j].id = nodes[k].id
    BY DEF FleetInv, Current
  <2>2. DOMAIN nodes = 1..Len(nodes) /\ Len(nodes) \in Nat
    BY DEF FleetInv, FleetTypeOK
  <2> QED BY <2>1, <2>2 DEF FleetInv, FleetTypeOK
<1> QED BY <1>1, FleetInvariance, PTL

(* However pushes come in between the two reads of a command, it answers   *)
(* for the node that was asked for if the first read has it.               *)
THEOREM AnswerIsAskedHolds == FleetSpec => []AnswerIsAsked
<1>1. FleetInv => AnswerIsAsked
  <2> SUFFICES ASSUME FleetInv, query # None, query.kind = "node"
               PROVE  /\ query.asked \in Range(query.seen) => Target(query) = query.asked
                      /\ Target(query) = None => query.asked \notin Range(query.seen)
                      /\ Target(query) \in IdsOf(nodes) \cup {None}
    BY DEF AnswerIsAsked
  <2> DEFINE hits == {k \in DOMAIN query.seen : query.asked = None \/ query.seen[k] \in PartOf[query.asked]}
  <2>1. query.seen \in Seq(Ids) /\ DOMAIN query.seen = 1..Len(query.seen) /\ Len(query.seen) \in Nat
    BY DEF FleetInv, FleetTypeOK, Query
  <2>2. \A k \in DOMAIN query.seen : query.seen[k] \in Ids /\ query.seen[k] \in IdsOf(nodes)
    BY <2>1 DEF FleetInv, Known
  <2>3. query.asked \in Range(query.seen) => Target(query) = query.asked /\ query.asked \in Ids
    <3> SUFFICES ASSUME NEW k \in DOMAIN query.seen, query.asked = query.seen[k]
                 PROVE  Target(query) = query.asked /\ query.asked \in Ids
      BY DEF Range
    <3>1. query.asked # None /\ query.asked \in IdsOf(nodes)
      BY <2>2, FleetConstants
    <3>2. query.seen # <<>>
      BY <2>1
    <3> QED BY <2>2, <3>1, <3>2 DEF Target
  <2>4. hits # {} => query.seen[Min(hits)] \in IdsOf(nodes)
    <3>1. hits \subseteq Nat /\ hits \subseteq DOMAIN query.seen
      BY <2>1
    <3> HIDE DEF hits
    <3> QED BY <2>2, <3>1, Least
  <2>5. Target(query) \in IdsOf(nodes) \cup {None}
    BY <2>4 DEF Target
  <2> QED BY <2>3, <2>5, FleetConstants
<1> QED BY <1>1, FleetInvariance, PTL

(* The status of the server never has more nodes online than there are,    *)
(* for any number of them.                                                 *)
THEOREM StatusFitsHolds == FleetSpec => []StatusFits
<1>1. FleetInv => StatusFits
  BY DEF FleetInv, Known, StatusFits, Counts
<1> QED BY <1>1, FleetInvariance, PTL
-----------------------------------------------------------------------------
(***************************************************************************)
(* The sorted list as one report of each name.                             *)
(***************************************************************************)
Brief(n) == [age |-> n.age, disk |-> n.disk, of |-> n.of]

LEMMA BriefTold == ASSUME NEW n \in Entry PROVE Brief(n) \in Told /\ Brief(n) # None
  BY ToldAssumption DEF Brief, Told, Entry

(* What is found under the name of an entry is that entry.                 *)
Faithful ==
    /\ \A k \in DOMAIN nodes : ReportOf(nodes[k].id) = Brief(nodes[k])
    /\ \A i \in Ids : i \notin IdsOf(nodes) => ReportOf(i) = None

LEMMA FleetFaithful == FleetInv => Faithful
<1> SUFFICES ASSUME FleetInv PROVE Faithful
  OBVIOUS
<1>1. ASSUME NEW k \in DOMAIN nodes PROVE ReportOf(nodes[k].id) = Brief(nodes[k])
  <2>1. \A j \in DOMAIN nodes : nodes[j].id = nodes[k].id => j = k
    <3>1. DOMAIN nodes = 1..Len(nodes) /\ Len(nodes) \in Nat
      BY DEF FleetInv, FleetTypeOK
    <3> QED BY <3>1 DEF FleetInv, FleetTypeOK
  <2>2. (CHOOSE j \in DOMAIN nodes : nodes[j].id = nodes[k].id) = k
    BY <2>1
  <2>3. nodes[k].id \in IdsOf(nodes)
    BY DEF IdsOf
  <2> QED BY <2>2, <2>3 DEF ReportOf, Brief
<1>2. ASSUME NEW i \in Ids, i \notin IdsOf(nodes) PROVE ReportOf(i) = None
  BY <1>2 DEF ReportOf
<1> QED BY <1>1, <1>2 DEF Faithful

(* Entries that stay what they are stay under their names.                 *)
LEMMA ReportKept ==
  ASSUME Faithful, Faithful', NEW i \in Ids,
         \A j \in DOMAIN nodes : nodes[j].id = i =>
            \E k \in DOMAIN nodes' : nodes'[k].id = i /\ Brief(nodes'[k]) = Brief(nodes[j]),
         \A k \in DOMAIN nodes' : nodes'[k].id = i => \E j \in DOMAIN nodes : nodes[j].id = i
  PROVE  ReportOf(i)' = ReportOf(i)
<1>1. CASE i \in IdsOf(nodes)
  <2>1. PICK j \in DOMAIN nodes : nodes[j].id = i
    BY <1>1 DEF IdsOf
  <2>2. PICK k \in DOMAIN nodes' : nodes'[k].id = i /\ Brief(nodes'[k]) = Brief(nodes[j])
    BY <2>1
  <2> QED BY <2>1, <2>2 DEF Faithful
<1>2. CASE i \notin IdsOf(nodes)
  <2>1. i \notin IdsOf(nodes')
    BY <1>2 DEF IdsOf
  <2> QED BY <1>2, <2>1 DEF Faithful
<1> QED BY <1>1, <1>2

(* A push replaces the report of its name, and no other.                   *)
LEMMA PushRefines ==
  ASSUME FleetInv, Faithful, Faithful', NEW m \in Machines, Push(m)
  PROVE  Kept!Report(m)
<1> USE FleetConstants
<1>1. PICK e \in Entry :
        /\ e.id = agent[m] /\ e.age = 0 /\ e.of = m
        /\ nodes'[1] = e /\ 1 \in DOMAIN nodes'
        /\ \A k \in DOMAIN nodes' : nodes'[k] = e \/ \E j \in DOMAIN nodes : nodes'[k] = nodes[j]
        /\ \A j \in DOMAIN nodes : nodes[j].id = e.id \/ \E k \in DOMAIN nodes' : nodes'[k] = nodes[j]
  BY PushMoves
<1>2. agent[m] # None /\ agent[m] \in Ids /\ UNCHANGED <<agent, armed>>
  BY DEF Push, FleetInv, FleetTypeOK
<1>3. ReportOf(agent[m])' = [age |-> 0, disk |-> e.disk, of |-> m]
  BY <1>1, <1>2 DEF Faithful, Brief
<1>4. e.disk \in Readings
  BY DEF Entry
<1>5. ASSUME NEW i \in Ids, i # agent[m] PROVE ReportOf(i)' = ReportOf(i)
  BY <1>1, <1>5, ReportKept
<1> QED BY <1>2, <1>3, <1>4, <1>5 DEF Kept!Report

(* An interval makes all reports older.                                    *)
LEMMA TickRefines ==
  ASSUME FleetInv, Faithful, Faithful', Tick
  PROVE  Kept!Pass
<1> USE FleetConstants
<1>1. DOMAIN nodes' = DOMAIN nodes /\ UNCHANGED <<agent, armed>>
  BY DEF Tick
<1>2. ASSUME NEW k \in DOMAIN nodes
      PROVE  nodes'[k].id = nodes[k].id /\ Brief(nodes'[k]) = Kept!Older(Brief(nodes[k]))
  <2>1. nodes[k] \in Entry
    BY DEF FleetInv, FleetTypeOK
  <2>2. nodes'[k] = [nodes[k] EXCEPT !.age = IF nodes[k].age = Old THEN Old ELSE nodes[k].age + 1]
    BY DEF Tick
  <2>3. Brief(nodes[k]) # None
    BY <2>1, BriefTold
  <2> QED BY <2>1, <2>2, <2>3 DEF Brief, Kept!Older, Entry
<1>3. ASSUME NEW i \in Ids PROVE ReportOf(i)' = Kept!Older(ReportOf(i))
  <2>1. CASE i \in IdsOf(nodes)
    <3>1. PICK k \in DOMAIN nodes : nodes[k].id = i
      BY <2>1 DEF IdsOf
    <3> QED BY <1>1, <1>2, <3>1 DEF Faithful
  <2>2. CASE i \notin IdsOf(nodes)
    <3>1. i \notin IdsOf(nodes')
      BY <1>1, <1>2, <2>2 DEF IdsOf
    <3> QED BY <2>2, <3>1 DEF Faithful, Kept!Older
  <2> QED BY <2>1, <2>2
<1> QED BY <1>1, <1>3 DEF Kept!Pass

(* get_metric takes a latest of the reports that are recent and have it.   *)
LEMMA JudgeRefines ==
  ASSUME FleetInv, Faithful, Judge
  PROVE  Kept!Judge \/ UNCHANGED Kept!reportsVars
<1> USE FleetConstants
<1> DEFINE with == {k \in DOMAIN nodes : IsOnline(nodes[k]) /\ nodes[k].disk # "none"}
<1>1. UNCHANGED <<agent, nodes>>
  BY DEF Judge
<1>2. \A i : UNCHANGED ReportOf(i)
  BY <1>1 DEF ReportOf, IdsOf
<1>3. CASE with = {}
  <2>1. GetMetric = "none"
    BY <1>3 DEF GetMetric
  <2>2. UNCHANGED armed
    BY <2>1 DEF Judge
  <2> QED BY <1>1, <1>2, <2>2 DEF Kept!reportsVars
<1>4. CASE with # {}
  <2> DEFINE k == Min(with)
  <2>1. DOMAIN nodes = 1..Len(nodes) /\ Len(nodes) \in Nat /\ \A l \in DOMAIN nodes : nodes[l] \in Entry
    BY DEF FleetInv, FleetTypeOK
  <2>2. with \subseteq Nat
    BY <2>1
  <2>3. k \in with /\ \A l \in with : k <= l
    BY <1>4, <2>2, Least
  <2>4. GetMetric = nodes[k].disk
    BY <1>4 DEF GetMetric
  <2> HIDE DEF k
  <2>5. nodes[k].disk \in {"high", "low"} /\ nodes[k].id \in Ids
    BY <2>1, <2>3 DEF Entry, Readings
  <2>6. armed' = (nodes[k].disk = "low")
    BY <2>4, <2>5 DEF Judge
  <2> DEFINE last == [i \in Ids |-> ReportOf(i)]
  <2>7. ASSUME NEW i \in Ids, last[i] # None
        PROVE  \E l \in DOMAIN nodes : nodes[l].id = i /\ last[i] = Brief(nodes[l])
    BY <2>7 DEF Faithful, IdsOf
  <2>8. ASSUME NEW l \in DOMAIN nodes
        PROVE  /\ nodes[l].id \in Ids /\ last[nodes[l].id] = Brief(nodes[l]) /\ Brief(nodes[l]) # None
               /\ Brief(nodes[l]).age = nodes[l].age /\ Brief(nodes[l]).disk = nodes[l].disk
    <3>1. nodes[l] \in Entry /\ nodes[l].id \in Ids
      BY <2>1 DEF Entry
    <3>2. Brief(nodes[l]) # None
      BY <3>1, BriefTold
    <3>3. Brief(nodes[l]).age = nodes[l].age /\ Brief(nodes[l]).disk = nodes[l].disk
      BY DEF Brief
    <3> QED BY <3>1, <3>2, <3>3 DEF Faithful
  <2> HIDE DEF last
  <2>9. Kept!Telling = {i \in Ids : last[i] # None /\ last[i].age <= OnlineThreshold /\ last[i].disk # "none"}
    BY DEF Kept!Telling, last
  <2>10. nodes[k].id \in Kept!Telling
    BY <2>3, <2>8, <2>9 DEF IsOnline
  <2>11. ASSUME NEW i \in Kept!Telling PROVE last[nodes[k].id].age <= last[i].age
    <3>1. PICK l \in DOMAIN nodes : nodes[l].id = i /\ last[i] = Brief(nodes[l])
      BY <2>7, <2>9
    <3>2. l \in with
      BY <2>8, <2>9, <3>1 DEF IsOnline
    <3>3. k <= l /\ k \in 1..Len(nodes) /\ l \in 1..Len(nodes)
      BY <2>1, <2>3, <3>2
    <3>4. nodes[k].age \in Nat /\ nodes[l].age \in Nat
      BY <2>1, <3>3 DEF Entry
    <3>5. nodes[k].age <= nodes[l].age
      <4>1. CASE k = l
        BY <3>4, <4>1
      <4>2. CASE k < l
        BY <2>1, <3>3, <4>2 DEF FleetInv, FleetTypeOK
      <4> QED BY <2>1, <3>3, <4>1, <4>2
    <3> QED BY <2>3, <2>8, <3>1, <3>5
  <2>12. armed' = (last[nodes[k].id].disk = "low")
    BY <2>3, <2>6, <2>8
  <2> QED
    BY <1>1, <1>2, <2>10, <2>11, <2>12 DEF Kept!Judge, last
<1> QED BY <1>3, <1>4

(* However machines share names and agents restart, the sorted list of the *)
(* store is the last report of each name to those who read it.             *)
THEOREM RefinesReportsHolds == FleetSpec => RefinesReports
<1>1. FleetInit => Kept!Init
  <2>1. ASSUME FleetInit PROVE \A i : ReportOf(i) = None
    <3>1. IdsOf(nodes) = {}
      BY <2>1 DEF FleetInit, IdsOf
    <3> QED BY <3>1 DEF ReportOf
  <2> QED BY <2>1 DEF FleetInit, Kept!Init
<1>2. FleetInv /\ Faithful /\ Faithful' /\ [FleetNext]_fleetVars => [Kept!Next]_(Kept!reportsVars)
  <2> SUFFICES ASSUME FleetInv, Faithful, Faithful', [FleetNext]_fleetVars
               PROVE  [Kept!Next]_(Kept!reportsVars)
    OBVIOUS
  <2> USE FleetConstants
  <2>1. ASSUME UNCHANGED <<agent, nodes, armed>> PROVE UNCHANGED Kept!reportsVars
    <3>1. \A i : UNCHANGED ReportOf(i)
      BY <2>1 DEF ReportOf, IdsOf
    <3> QED BY <2>1, <3>1 DEF Kept!reportsVars
  <2>2. ASSUME NEW m \in Machines, StartAgent(m) PROVE Kept!Take(m)
    <3>1. PICK i \in InstanceFound(m) : agent' = [agent EXCEPT ![m] = Resolved(m, i)]
      BY <2>2 DEF StartAgent
    <3>2. Resolved(m, i) \in Ids
      BY DEF InstanceFound, Resolved
    <3>3. \A j : UNCHANGED ReportOf(j)
      BY <2>2 DEF StartAgent, ReportOf, IdsOf
    <3> QED BY <2>2, <3>1, <3>2, <3>3 DEF StartAgent, Kept!Take
  <2>3. ASSUME NEW m \in Machines, EndAgent(m) PROVE Kept!Drop(m)
    <3>1. DOMAIN nodes' = DOMAIN nodes
      BY <2>3 DEF EndAgent, Outdated
    <3>2. ASSUME NEW k \in DOMAIN nodes
          PROVE  nodes'[k].id = nodes[k].id /\ Brief(nodes'[k]) = Brief(nodes[k])
      <4>1. nodes[k] \in Entry
        BY DEF FleetInv, FleetTypeOK
      <4>2. nodes'[k] = [nodes[k] EXCEPT !.current = nodes[k].current /\ nodes[k].of # m]
        BY <2>3 DEF EndAgent, Outdated
      <4> QED BY <4>1, <4>2 DEF Brief, Entry
    <3>3. \A i \in Ids : UNCHANGED ReportOf(i)
      BY <3>1, <3>2, ReportKept
    <3> QED BY <2>3, <3>3 DEF EndAgent, Kept!Drop
  <2>4. ASSUME \/ \E m \in Machines : PushFails(m)
               \/ \E kind \in {"list", "node", "server"}, asked \in Ids \cup {None} : Command(kind, asked)
               \/ Reply \/ UNCHANGED fleetVars
        PROVE  UNCHANGED <<agent, nodes, armed>>
    BY <2>4 DEF PushFails, Command, Reply, fleetVars
  <2> QED
    BY <2>1, <2>2, <2>3, <2>4, PushRefines, TickRefines, JudgeRefines DEF FleetNext, Kept!Next
<1> QED
  BY <1>1, <1>2, FleetInvariance, FleetFaithful, PTL DEF FleetSpec, RefinesReports, Kept!Spec


-----------------------------------------------------------------------------
(***************************************************************************)
(* What splits a machine in two is a name that depends on what the         *)
(* metadata service answers, and nothing else.                             *)
(***************************************************************************)
OneName == \A m \in Machines : \A i \in InstanceFound(m) : Resolved(m, i) = Resolved(m, None)

OfItsName ==
    /\ \A m \in Machines : agent[m] \in {None, Resolved(m, None)}
    /\ \A k \in DOMAIN nodes : nodes[k].id = Resolved(nodes[k].of, None)

(* If all machines have one name at all starts, each is online once.       *)
THEOREM OneEntryPerMachineHolds ==
    ASSUME OneName
    PROVE  FleetSpec => []OneEntryPerMachine
<1>1. FleetInit => OfItsName
  BY DEF FleetInit, OfItsName
<1>2. FleetInv /\ OfItsName /\ [FleetNext]_fleetVars => OfItsName'
  <2> SUFFICES ASSUME FleetInv, OfItsName, [FleetNext]_fleetVars PROVE OfItsName'
    OBVIOUS
  <2> USE FleetConstants
  <2>1. ASSUME NEW m \in Machines, StartAgent(m) PROVE OfItsName'
    <3>1. PICK i \in InstanceFound(m) : agent' = [agent EXCEPT ![m] = Resolved(m, i)]
      BY <2>1 DEF StartAgent
    <3>2. agent' = [agent EXCEPT ![m] = Resolved(m, None)]
      BY <3>1 DEF OneName
    <3> QED BY <2>1, <3>2 DEF StartAgent, OfItsName, FleetInv, FleetTypeOK
  <2>2. ASSUME NEW m \in Machines, EndAgent(m) PROVE OfItsName'
    <3>1. \A k \in DOMAIN nodes : nodes[k] \in Entry
      BY DEF FleetInv, FleetTypeOK
    <3>2. /\ DOMAIN nodes' = DOMAIN nodes
          /\ \A k \in DOMAIN nodes : nodes'[k].id = nodes[k].id /\ nodes'[k].of = nodes[k].of
      BY <2>2, <3>1 DEF EndAgent, Outdated, Entry
    <3>3. agent' = [agent EXCEPT ![m] = None]
      BY <2>2 DEF EndAgent
    <3> QED BY <3>2, <3>3 DEF OfItsName, FleetInv, FleetTypeOK
  <2>3. ASSUME NEW m \in Machines, Push(m) PROVE OfItsName'
    <3>1. PICK e \in Entry :
            /\ e.id = agent[m] /\ e.of = m
            /\ \A k \in DOMAIN nodes' : nodes'[k] = e \/ \E j \in DOMAIN nodes : nodes'[k] = nodes[j]
      BY <2>3, PushMoves
    <3>2. e.id = Resolved(e.of, None) /\ UNCHANGED agent
      BY <2>3, <3>1 DEF Push, OfItsName
    <3> QED BY <3>1, <3>2 DEF OfItsName
  <2>4. CASE Tick
    <3>1. \A k \in DOMAIN nodes : nodes[k] \in Entry
      BY DEF FleetInv, FleetTypeOK
    <3>2. /\ DOMAIN nodes' = DOMAIN nodes
          /\ \A k \in DOMAIN nodes : nodes'[k].id = nodes[k].id /\ nodes'[k].of = nodes[k].of
      BY <2>4, <3>1 DEF Tick, Entry
    <3> QED BY <2>4, <3>2 DEF Tick, OfItsName
  <2>5. ASSUME UNCHANGED <<agent, nodes>> PROVE OfItsName'
    BY <2>5 DEF OfItsName
  <2> QED
    BY <2>1, <2>2, <2>3, <2>4, <2>5 DEF FleetNext, PushFails, Judge, Command, Reply, fleetVars
<1>3. FleetInv /\ OfItsName => OneEntryPerMachine
  <2> SUFFICES ASSUME FleetInv, OfItsName, NEW j \in DOMAIN nodes, NEW k \in DOMAIN nodes,
                      nodes[j].of = nodes[k].of
               PROVE  j = k
    BY DEF OneEntryPerMachine
  <2>1. nodes[j].id = nodes[k].id
    BY DEF OfItsName
  <2>2. DOMAIN nodes = 1..Len(nodes) /\ Len(nodes) \in Nat
    BY DEF FleetInv, FleetTypeOK
  <2> QED BY <2>1, <2>2 DEF FleetInv, FleetTypeOK
<1> QED
  BY <1>1, <1>2, <1>3, FleetInvariance, PTL DEF FleetSpec
=============================================================================
