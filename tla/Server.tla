------------------------------- MODULE Server --------------------------------
(***************************************************************************)
(* The life of the server process: main (main.cpp), step by step, and      *)
(* POST /submit (src/CROW_ROUTEs/submit.cpp), whose handler calls the      *)
(* sandbox through libcurl (src/API/sand_box_api.hpp).  Any step of main   *)
(* may throw, which ends the process; the process may be killed, and the   *)
(* operator starts it again, with another settings.local perhaps.          *)
(***************************************************************************)
EXTENDS Integers, FiniteSets, Sequences, TLC

CONSTANTS
  Threads, NoThread,
  Requests, NoRequest,  \* the submissions that arrive, each at most once
  Unparsable,     \* those whose body is no json
  Chunks,         \* the numbers of pieces a reply of the sandbox comes in
  Default,        \* the file settings: its top-level keys, with their fields
  Locals,         \* what settings.local may hold; no keys if there is no file
  Malformed,      \* a settings.local that does not parse
  ColumnTypes,    \* the names in the type of problem_submissions.language
  Address,        \* the public address of the host
  MaxStarts       \* bound: how often the process is started

ASSUME ServerAssumption ==
  /\ NoThread \notin Threads /\ NoRequest \notin Requests
  /\ Unparsable \subseteq Requests
  /\ Chunks \subseteq Nat /\ MaxStarts \in Nat
  /\ Address \in Seq(STRING)

VARIABLES
  main,           \* the step main is at; "down" when there is no process
  starts,         \* how often the process was started
  IP, settings,   \* globals of main.cpp
  accepted_languages,
  made,           \* the globals of main.cpp that point to an object
  curlReady,      \* whether libcurl is initialised
  todo,           \* the submissions that have not arrived yet
  cur, pc,        \* cur[t]: the submission worker t serves; where it is
  mtx,            \* the worker that holds the mutex of sandbox_api
  reply,          \* reply[t]: the pieces the sandbox sends to t's call
  readBuffer,     \* readBuffer[t]: the pieces received
  sent            \* what the last step answered

startVars == <<main, starts, IP, settings, accepted_languages, made>>
callVars == <<cur, pc, mtx, reply, readBuffer, curlReady>>
vars == <<startVars, callVars, todo, sent>>

\* A mistake: running the application once its routes are there.
FollowingRunFirst ==
  [ip |-> "settings", settings |-> "cors", cors |-> "routes", routes |-> "serving"]

\* The order of main.
Following ==
  [ip |-> "settings", settings |-> "cors", cors |-> "routes", routes |-> "api",
   api |-> "modify_api", modify_api |-> "submission_api",
   submission_api |-> "sandbox_api", sandbox_api |-> "languages",
   languages |-> "run", run |-> "serving"]

Connections == {"api", "modify_api", "submission_api"}

NoAnswer == [to |-> NoRequest, status |-> 0, body |-> 0, whole |-> 0]

Nowhere == [t \in Threads |-> "idle"]
Nobody == [t \in Threads |-> NoRequest]
Nothing == [t \in Threads |-> 0]

Init ==
  /\ main = "down" /\ starts = 0
  /\ IP = <<>> /\ settings = <<>> /\ accepted_languages = <<>> /\ made = {}
  /\ cur = Nobody /\ pc = Nowhere /\ mtx = NoThread
  /\ reply = Nothing /\ readBuffer = Nothing /\ curlReady = FALSE
  /\ todo = Requests /\ sent = NoAnswer

-----------------------------------------------------------------------------
(* Start-up.                                                               *)

Silent == sent' = NoAnswer

\* main ends its step and goes on with the next one.
Continue ==
  /\ main' = Following[main]
  /\ Silent
  /\ UNCHANGED <<starts, todo, callVars>>

\* The operator starts the process.
Start ==
  /\ main = "down" /\ starts < MaxStarts
  /\ main' = "ip"
  /\ starts' = starts + 1
  /\ Silent
  /\ UNCHANGED <<IP, settings, accepted_languages, made, callVars, todo>>

\* An exception leaves main, or the process is killed: what it held is gone,
\* and so are the requests it had taken.
Die ==
  /\ main # "down"
  /\ main' = "down"
  /\ IP' = <<>> /\ settings' = <<>> /\ accepted_languages' = <<>> /\ made' = {}
  /\ cur' = Nobody /\ pc' = Nowhere /\ mtx' = NoThread
  /\ reply' = Nothing /\ readBuffer' = Nothing /\ curlReady' = FALSE
  /\ Silent
  /\ UNCHANGED <<starts, todo>>

\* The result of curl_easy_perform is not looked at: whatever was received is
\* the address.  libcurl is cleaned up again.
GetPublicIP ==
  /\ main = "ip"
  /\ \E n \in 0 .. Len(Address) : IP' = SubSeq(Address, 1, n)
  /\ Continue
  /\ UNCHANGED <<settings, accepted_languages, made>>

\* A key of the local file takes the place of the key of the default file,
\* with all the fields it has.
Merged(localSettings) == localSettings @@ Default

LoadSettings ==
  /\ main = "settings"
  /\ \E localSettings \in Locals :
       /\ localSettings # Malformed
       /\ settings' = Merged(localSettings)
  /\ Continue
  /\ UNCHANGED <<IP, accepted_languages, made>>

Has(key, fields) == key \in DOMAIN settings /\ fields \subseteq settings[key]

SetupCORS ==
  /\ main = "cors"
  /\ Has("CGFE_origin", {})
  /\ Continue
  /\ UNCHANGED <<IP, settings, accepted_languages, made>>

\* The handlers get references to pointers that are null still.
SetupRoutes ==
  /\ main = "routes"
  /\ Continue
  /\ UNCHANGED <<IP, settings, accepted_languages, made>>

\* A field that is missing ends the process: there is no value to convert.
SetupSqlAPI ==
  /\ main \in Connections
  /\ Has("MySQL", {"host", "user", "password", "database", "port"})
  /\ made' = made \cup {main}
  /\ Continue
  /\ UNCHANGED <<IP, settings, accepted_languages>>

SetupSandboxAPI ==
  /\ main = "sandbox_api"
  /\ Has("SandBox", {"host", "port", "token"})
  /\ made' = made \cup {main}
  /\ Continue
  /\ UNCHANGED <<IP, settings, accepted_languages>>

\* The type enum('a','b') is cut at each ',' after its frame is taken off; the
\* first name keeps its opening quote, the last its closing one.
Languages(names) ==
  [i \in DOMAIN names |->
     [name |-> names[i], opens |-> i = 1, closes |-> i = Len(names)]]

SetupAcceptedLanguages ==
  /\ main = "languages"
  /\ \/ \E names \in ColumnTypes : accepted_languages' = Languages(names)
     \/ UNCHANGED accepted_languages  \* no such column
  /\ Continue
  /\ UNCHANGED <<IP, settings, made>>

Run ==
  /\ main = "run"
  /\ Has("port", {})
  /\ Continue
  /\ UNCHANGED <<IP, settings, accepted_languages, made>>

Main ==
  \/ GetPublicIP \/ LoadSettings \/ SetupCORS \/ SetupRoutes \/ SetupSqlAPI
  \/ SetupSandboxAPI \/ SetupAcceptedLanguages \/ Run

-----------------------------------------------------------------------------
(* POST /submit.                                                           *)

Goto(t, label) == pc' = [pc EXCEPT ![t] = label]

\* Crow answers 500 to the exception of a body that does not parse.
SubmitUnparsable(t) ==
  /\ main = "serving" /\ pc[t] = "idle"
  /\ \E r \in todo \cap Unparsable :
       /\ todo' = todo \ {r}
       /\ sent' = [to |-> r, status |-> 500, body |-> 0, whole |-> 0]
  /\ UNCHANGED <<startVars, callVars>>

Submit(t) ==
  /\ main = "serving" /\ pc[t] = "idle"
  /\ \E r \in todo \ Unparsable :
       /\ todo' = todo \ {r}
       /\ cur' = [cur EXCEPT ![t] = r]
  /\ Goto(t, "lock")
  /\ Silent
  /\ UNCHANGED <<startVars, mtx, reply, readBuffer, curlReady>>

\* A mistake: calling the sandbox without its mutex.
LockNothing(t) ==
  /\ pc[t] = "lock"
  /\ Goto(t, "init")
  /\ Silent
  /\ UNCHANGED <<startVars, todo, cur, mtx, reply, readBuffer, curlReady>>

Lock(t) ==
  /\ pc[t] = "lock"
  /\ mtx = NoThread
  /\ mtx' = t
  /\ Goto(t, "init")
  /\ Silent
  /\ UNCHANGED <<startVars, todo, cur, reply, readBuffer, curlReady>>

\* The first curl_easy_init initialises libcurl, which getPublicIP has left
\* cleaned up.
InitLibrary(t) ==
  /\ pc[t] = "init" /\ ~ curlReady
  /\ curlReady' = TRUE
  /\ Silent
  /\ UNCHANGED <<startVars, todo, cur, pc, mtx, reply, readBuffer>>

\* curl_easy_init returns no handle, whether it had to initialise or not.
NoHandle(t) ==
  /\ pc[t] = "init"
  /\ Goto(t, "return")
  /\ Silent
  /\ UNCHANGED <<startVars, todo, cur, mtx, reply, readBuffer, curlReady>>

\* The request goes out.  CURLOPT_POSTFIELDS keeps the address of a temporary,
\* so what the sandbox gets is anything, and so is what it replies.
Perform(t) ==
  /\ pc[t] = "init" /\ curlReady
  /\ \E n \in Chunks : reply' = [reply EXCEPT ![t] = n]
  /\ Goto(t, "perform")
  /\ Silent
  /\ UNCHANGED <<startVars, todo, cur, mtx, readBuffer, curlReady>>

WriteCallback(t) ==
  /\ pc[t] = "perform"
  /\ readBuffer[t] < reply[t]
  /\ readBuffer' = [readBuffer EXCEPT ![t] = @ + 1]
  /\ Silent
  /\ UNCHANGED <<startVars, todo, cur, pc, mtx, reply, curlReady>>

Performed(t) ==
  /\ pc[t] = "perform"
  /\ readBuffer[t] = reply[t]
  /\ Goto(t, "return")
  /\ Silent
  /\ UNCHANGED <<startVars, todo, cur, mtx, reply, readBuffer, curlReady>>

\* A mistake: returning what was received of a reply that broke off.
KeepReceived(t) ==
  /\ pc[t] = "perform"
  /\ Goto(t, "return")
  /\ Silent
  /\ UNCHANGED <<startVars, todo, cur, mtx, reply, readBuffer, curlReady>>

\* No connection, one that breaks, or no memory for what arrives.
PerformFails(t) ==
  /\ pc[t] = "perform"
  /\ readBuffer' = [readBuffer EXCEPT ![t] = 0]
  /\ Goto(t, "return")
  /\ Silent
  /\ UNCHANGED <<startVars, todo, cur, mtx, reply, curlReady>>

Answer(t) ==
  /\ sent' = [to |-> cur[t], status |-> 200, body |-> readBuffer[t], whole |-> reply[t]]
  /\ cur' = [cur EXCEPT ![t] = NoRequest]
  /\ reply' = [reply EXCEPT ![t] = 0]
  /\ readBuffer' = [readBuffer EXCEPT ![t] = 0]
  /\ Goto(t, "idle")

\* A mistake: leaving the mutex locked.
ReturnLocked(t) ==
  /\ pc[t] = "return"
  /\ Answer(t)
  /\ UNCHANGED <<startVars, todo, mtx, curlReady>>

\* The end of POST, and the answer: 200 whatever became of the call.
Return(t) ==
  /\ pc[t] = "return"
  /\ mtx' = NoThread
  /\ Answer(t)
  /\ UNCHANGED <<startVars, todo, curlReady>>

Step(t) ==
  \/ SubmitUnparsable(t) \/ Submit(t) \/ Lock(t) \/ InitLibrary(t)
  \/ Perform(t) \/ NoHandle(t)
  \/ WriteCallback(t) \/ Performed(t) \/ PerformFails(t) \/ Return(t)

Next == Start \/ Die \/ Main \/ \E t \in Threads : Step(t)

Spec == Init /\ [][Next]_vars

\* A call of the sandbox ends: it has no timeout, but the sandbox replies or
\* the connection breaks.  main is not fair: what it waits for may hang.
FairSpec == Spec /\ \A t \in Threads : WF_vars(Step(t))

-----------------------------------------------------------------------------
\* A handler is at work only when everything it was given a reference to is
\* there, although the routes are registered while the pointers are null; and
\* this is so in every life of the process.
Ready ==
  \A t \in Threads :
    pc[t] # "idle" => made = Connections \cup {"sandbox_api"}

\* At most one worker is inside POST.  The sandbox gets one submission at a
\* time, and no two workers initialise libcurl at once, which only some
\* versions of it allow: nobody calls curl_global_init after getPublicIP has
\* undone its own.
SandboxAlone ==
  Cardinality({t \in Threads : pc[t] \notin {"idle", "lock"}}) <= 1

\* A submission is answered with the whole reply of the sandbox to its call
\* or with nothing, never with the part that came before an error.
WholeOrNothing == sent.status = 200 => sent.body \in {0, sent.whole}

\* Each submission is answered, or the process dies, if the sandbox ends each
\* call: the others wait for the mutex meanwhile.
AllAnswered == \A t \in Threads : pc[t] # "idle" ~> pc[t] = "idle"
=============================================================================
