---------------------------- MODULE ServerProofs -----------------------------
(***************************************************************************)
(* Ready, SandboxAlone and WholeOrNothing hold for any number of workers,  *)
(* submissions, starts and deaths of the process.                          *)
(***************************************************************************)
EXTENDS Server, FiniteSetTheorems, TLAPS

Labels == {"idle", "lock", "init", "perform", "return"}

CallTypes ==
  /\ cur \in [Threads -> Requests \cup {NoRequest}]
  /\ pc \in [Threads -> Labels]
  /\ reply \in [Threads -> Nat]
  /\ readBuffer \in [Threads -> Nat]
  /\ todo \subseteq Requests

\* What main has made when it comes to a step.
MadeBefore ==
  /\ main \in {"ip", "settings", "cors", "routes", "api"} => made = {}
  /\ main = "modify_api" => made = {"api"}
  /\ main = "submission_api" => made = {"api", "modify_api"}
  /\ main = "sandbox_api" => made = Connections
  /\ main \in {"languages", "run", "serving"} => made = Connections \cup {"sandbox_api"}

\* Nobody is served before the end of the start.
ServedLate == main # "serving" => pc = Nowhere

\* The worker that is inside POST holds its mutex.
HolderInside ==
  \A t \in Threads : pc[t] \notin {"idle", "lock"} => mtx = t

\* The buffer is empty before the call and settled after it.
Settled ==
  \A t \in Threads :
    /\ pc[t] \in {"idle", "lock", "init"} => readBuffer[t] = 0
    /\ pc[t] = "return" => readBuffer[t] \in {0, reply[t]}

Down == main = "down" => made = {}

ServerInv ==
  CallTypes /\ MadeBefore /\ Down /\ ServedLate /\ HolderInside /\ Settled /\ WholeOrNothing

-----------------------------------------------------------------------------
LEMMA InitInv == Init => ServerInv
BY DEF Init, ServerInv, CallTypes, Labels, MadeBefore, Down, ServedLate,
  HolderInside, Settled, WholeOrNothing, NoAnswer, Nowhere, Nobody, Nothing

\* The start and the end of the process.
LEMMA ProcessStep ==
  ASSUME ServerInv, Start \/ Die
  PROVE  ServerInv'
<1>1. CASE Start
  BY <1>1 DEF Start, Silent, ServerInv, CallTypes, MadeBefore, Down,
    ServedLate, HolderInside, Settled, WholeOrNothing, NoAnswer, callVars
<1>2. CASE Die
  BY <1>2 DEF Die, Silent, ServerInv, CallTypes, Labels, MadeBefore, Down,
    ServedLate, HolderInside, Settled, WholeOrNothing, NoAnswer, Nowhere,
    Nobody, Nothing
<1> QED BY <1>1, <1>2

\* A step of main adds what the next one finds made.
LEMMA MainStep ==
  ASSUME ServerInv, Main
  PROVE  ServerInv'
<1>1. main # "serving" /\ Silent /\ UNCHANGED <<callVars, todo>> /\ main' = Following[main]
  BY DEF Main, GetPublicIP, LoadSettings, SetupCORS, SetupRoutes, SetupSqlAPI,
    SetupSandboxAPI, SetupAcceptedLanguages, Run, Continue, Connections
<1>2. MadeBefore' /\ Down'
  <2>1. CASE GetPublicIP
    BY <2>1 DEF GetPublicIP, Continue, Following, ServerInv, MadeBefore, Down
  <2>2. CASE LoadSettings
    BY <2>2 DEF LoadSettings, Continue, Following, ServerInv, MadeBefore, Down
  <2>3. CASE SetupCORS
    BY <2>3 DEF SetupCORS, Continue, Following, ServerInv, MadeBefore, Down
  <2>4. CASE SetupRoutes
    BY <2>4 DEF SetupRoutes, Continue, Following, ServerInv, MadeBefore, Down
  <2>5. CASE SetupSqlAPI
    BY <2>5 DEF SetupSqlAPI, Continue, Following, ServerInv, MadeBefore, Down, Connections
  <2>6. CASE SetupSandboxAPI
    BY <2>6 DEF SetupSandboxAPI, Continue, Following, ServerInv, MadeBefore, Down, Connections
  <2>7. CASE SetupAcceptedLanguages
    BY <2>7 DEF SetupAcceptedLanguages, Continue, Following, ServerInv, MadeBefore, Down
  <2>8. CASE Run
    BY <2>8 DEF Run, Continue, Following, ServerInv, MadeBefore, Down
  <2> QED BY <2>1, <2>2, <2>3, <2>4, <2>5, <2>6, <2>7, <2>8 DEF Main
<1>3. ServedLate'
  BY <1>1 DEF ServerInv, ServedLate, callVars
<1> QED
  BY <1>1, <1>2, <1>3 DEF ServerInv, CallTypes, HolderInside, Settled,
    WholeOrNothing, callVars, Silent, NoAnswer

\* A step of a worker.
LEMMA WorkerStep ==
  ASSUME ServerInv, NEW t \in Threads, Step(t)
  PROVE  ServerInv'
<1> USE DEF ServerInv, CallTypes, Labels, HolderInside, Settled
<1>1. UNCHANGED startVars
  BY DEF Step, SubmitUnparsable, Submit, Lock, InitLibrary, Perform, NoHandle,
    WriteCallback, Performed, PerformFails, Return
<1>2. main = "serving"
  <2>1. pc[t] # "idle" \/ main = "serving"
    BY DEF Step, SubmitUnparsable, Submit, Lock, InitLibrary, Perform, NoHandle,
      WriteCallback, Performed, PerformFails, Return
  <2> QED BY <2>1 DEF ServedLate, Nowhere
<1>3. MadeBefore' /\ Down' /\ ServedLate'
  BY <1>1, <1>2 DEF MadeBefore, Down, ServedLate, startVars
<1>4. CASE SubmitUnparsable(t)
  <2>1. UNCHANGED callVars /\ sent'.status = 500 /\ todo' \subseteq todo
    BY <1>4 DEF SubmitUnparsable
  <2> QED BY <2>1, <1>3 DEF callVars, WholeOrNothing
<1>5. CASE Submit(t)
  BY <1>5, <1>3 DEF Submit, Goto, Silent, NoAnswer, WholeOrNothing
<1>6. CASE Lock(t)
  <2>1. \A u \in Threads : pc[u] \in {"idle", "lock"}
    BY <1>6, ServerAssumption DEF Lock
  <2> QED BY <1>6, <1>3, <2>1 DEF Lock, Goto, Silent, NoAnswer, WholeOrNothing
<1>7. CASE InitLibrary(t)
  BY <1>7, <1>3 DEF InitLibrary, Silent, NoAnswer, WholeOrNothing
<1>8. CASE NoHandle(t)
  BY <1>8, <1>3 DEF NoHandle, Goto, Silent, NoAnswer, WholeOrNothing
<1>9. CASE Perform(t)
  BY <1>9, <1>3, ServerAssumption DEF Perform, Goto, Silent, NoAnswer, WholeOrNothing
<1>10. CASE WriteCallback(t)
  BY <1>10, <1>3 DEF WriteCallback, Silent, NoAnswer, WholeOrNothing
<1>11. CASE Performed(t)
  BY <1>11, <1>3 DEF Performed, Goto, Silent, NoAnswer, WholeOrNothing
<1>12. CASE PerformFails(t)
  BY <1>12, <1>3 DEF PerformFails, Goto, Silent, NoAnswer, WholeOrNothing
<1>13. CASE Return(t)
  <2>1. readBuffer[t] \in {0, reply[t]} /\ mtx = t
    BY <1>13 DEF Return
  <2>2. \A u \in Threads \ {t} : pc[u] \in {"idle", "lock"}
    BY <2>1
  <2>3. WholeOrNothing'
    BY <1>13, <2>1 DEF Return, Answer, WholeOrNothing
  <2> QED BY <1>13, <1>3, <2>2, <2>3 DEF Return, Answer, Goto
<1> HIDE DEF ServerInv
<1> QED
  BY <1>4, <1>5, <1>6, <1>7, <1>8, <1>9, <1>10, <1>11, <1>12, <1>13 DEF Step

LEMMA ServerInvariance == Spec => []ServerInv
<1>1. ServerInv /\ [Next]_vars => ServerInv'
  <2> SUFFICES ASSUME ServerInv, [Next]_vars PROVE ServerInv' OBVIOUS
  <2>1. CASE UNCHANGED vars
    BY <2>1 DEF vars, startVars, callVars, ServerInv, CallTypes, MadeBefore,
      Down, ServedLate, HolderInside, Settled, WholeOrNothing
  <2> QED BY <2>1, ProcessStep, MainStep, WorkerStep DEF Next
<1> QED BY <1>1, InitInv, PTL DEF Spec

\* Requests are handled only when everything their handlers refer to is there,
\* however often the process is started again.
THEOREM AlwaysReady == Spec => []Ready
<1>1. ServerInv => Ready
  <2> SUFFICES ASSUME ServerInv, NEW t \in Threads, pc[t] # "idle"
               PROVE  made = Connections \cup {"sandbox_api"}
    BY DEF Ready
  <2>1. main = "serving"
    BY DEF ServerInv, ServedLate, Nowhere
  <2> QED BY <2>1 DEF ServerInv, MadeBefore
<1> QED BY <1>1, ServerInvariance, PTL

\* Never do two workers call the sandbox at once.
THEOREM OneInSandbox == Spec => []SandboxAlone
<1>1. ServerInv => SandboxAlone
  <2> SUFFICES ASSUME ServerInv PROVE SandboxAlone OBVIOUS
  <2> DEFINE Inside == {t \in Threads : pc[t] \notin {"idle", "lock"}}
  <2>1. Inside \subseteq {mtx}
    BY DEF ServerInv, HolderInside
  <2>2. IsFiniteSet({mtx}) /\ Cardinality({mtx}) = 1
    BY FS_Singleton
  <2>3. IsFiniteSet(Inside) /\ Cardinality(Inside) <= Cardinality({mtx})
    <3> HIDE DEF Inside
    <3> QED BY <2>1, <2>2, FS_Subset
  <2> QED BY <2>2, <2>3 DEF SandboxAlone
<1> QED BY <1>1, ServerInvariance, PTL

\* No submission is answered with part of a reply.
THEOREM WholeReplies == Spec => []WholeOrNothing
BY ServerInvariance, PTL DEF ServerInv
=============================================================================
