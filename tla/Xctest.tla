------------------------------- MODULE Xctest -------------------------------
(***************************************************************************)
(* The runner of src/lib/xctest.js: start() opens three sessions with the  *)
(* device one after the other, stop() closes those it finds in the fields  *)
(* of the runner, and both may be called at any time: stop() by its user,  *)
(* by the 'close' event of a session, and by a start() that failed.        *)
(*                                                                         *)
(* On the way it uses an installation proxy and house arrest, whose        *)
(* sockets it closes in any case.                                          *)
(*                                                                         *)
(* A step is what runs between two awaits.  A session stands for an        *)
(* InstrumentService (module Instrument) and its socket, or for the        *)
(* temporary socket of another service; the requests made on the           *)
(* container that house arrest vends count as one.  The device is          *)
(* external: it may refuse a session or a call, close a session, and say   *)
(* that its test runner is ready.                                          *)
(***************************************************************************)
EXTENDS Naturals, Sequences, FiniteSets

CONSTANT MaxStarts    \* bound: calls of start()

ASSUME XctestAssumption == MaxStarts \in Nat

Starts == 1 .. MaxStarts
Fields == {"_initialControlSession", "_execTestPlanSession", "_instrumentService"}
None == [start |-> 0, field |-> "none"]
Temporary == {"installation", "houseArrest"}
Session == [start : Starts, field : Fields \cup Temporary]

VARIABLES
  running,      \* running
  executing,    \* _executing
  fields,       \* the three session fields: a session or None
  pc,           \* pc[r]: what the r-th start() awaits
  awaited,      \* awaited[r]: the session whose reply it awaits, if it is a reply
  timers,       \* starts with a timer of showLogMessage pending
  open,         \* sessions whose socket is open
  disposed,     \* sessions that were disposed of
  executed,     \* history: the sessions the test plan was started on, in order
  crashed,      \* startExecuting has thrown, in a timer or an event handler
  interrupted   \* history: the runner was stopped while a start() was under way

vars == <<running, executing, fields, pc, awaited, timers, open, disposed, executed, crashed, interrupted>>

Awaits == {"osVersion", "openInitial", "initiateControl", "openExec", "initiateSession",
           "openInstallation", "lookup", "openHouseArrest", "vend", "configure",
           "openInstrument", "processIdentifier", "launch", "startObserving", "authorize"}
UnderWay(r) == pc[r] \in Awaits

Init ==
  /\ running = FALSE /\ executing = FALSE
  /\ fields = [f \in Fields |-> None]
  /\ pc = [r \in Starts |-> "uncalled"]
  /\ awaited = [r \in Starts |-> None]
  /\ timers = {} /\ open = {} /\ disposed = {}
  /\ executed = <<>> /\ crashed = FALSE /\ interrupted = FALSE

---------------------------------------------------------------------------
\* start(), up to its first await.
Start(r) ==
  /\ pc[r] = "uncalled" /\ \A q \in 1 .. r - 1 : pc[q] # "uncalled"
  /\ pc' = [pc EXCEPT ![r] = IF running THEN "ignored" ELSE "osVersion"]
  /\ running' = TRUE
  /\ UNCHANGED <<executing, fields, awaited, timers, open, disposed, executed, crashed, interrupted>>

\* A start() goes on from one await to the next, for the reply of a session or None.
Advance(r, from, to, session) ==
  /\ pc[r] = from
  /\ pc' = [pc EXCEPT ![r] = to]
  /\ awaited' = [awaited EXCEPT ![r] = session]

GotVersion(r) ==
  /\ Advance(r, "osVersion", "openInitial", None)
  /\ UNCHANGED <<running, executing, fields, timers, open, disposed, executed, crashed, interrupted>>

\* A service was started: it is put in its field, whatever is there and whether or
\* not the runner still runs, and stop is made its 'close' listener.  A call is made
\* on it, but before iOS 11 none on the initial session.
Opened(r, field, from, to) ==
  LET session == [start |-> r, field |-> field]
  IN  /\ \/ Advance(r, from, to, session)
         \/ field = "_initialControlSession" /\ Advance(r, from, "openExec", None)
      /\ open' = open \cup {session}
      /\ fields' = [fields EXCEPT ![field] = session]
      /\ UNCHANGED <<running, executing, timers, disposed, executed, crashed, interrupted>>

OpenedInitial(r) == Opened(r, "_initialControlSession", "openInitial", "initiateControl")
OpenedExec(r) == Opened(r, "_execTestPlanSession", "openExec", "initiateSession")
OpenedInstrument(r) == Opened(r, "_instrumentService", "openInstrument", "processIdentifier")

\* A service for a while: it is kept in a local variable.
OpenedTemporary(r, field, from, to) ==
  LET session == [start |-> r, field |-> field]
  IN  /\ Advance(r, from, to, session)
      /\ open' = open \cup {session}
      /\ UNCHANGED <<running, executing, fields, timers, disposed, executed, crashed, interrupted>>

OpenedInstallation(r) == OpenedTemporary(r, "installation", "openInstallation", "lookup")
OpenedHouseArrest(r) == OpenedTemporary(r, "houseArrest", "openHouseArrest", "vend")

\* Mutant: what is for a while is closed when all went well.
AfterFailureOpen(r) == open

\* What finally leaves open of the temporary services of a start().
AfterFailure(r) == {session \in open : session.start # r \/ session.field \notin Temporary}

\* The application was found, or the configuration file was written.
Closes(r, from, to) ==
  /\ Advance(r, from, to, None)
  /\ open' = open \ {awaited[r]}
  /\ UNCHANGED <<running, executing, fields, timers, disposed, executed, crashed, interrupted>>

\* The container was vended: old configuration files are removed and the new one is
\* written (module Afc).
Vended(r) ==
  /\ Advance(r, "vend", "configure", awaited[r])
  /\ UNCHANGED <<running, executing, fields, timers, open, disposed, executed, crashed, interrupted>>

\* The reply that is awaited has come, and nothing more is asked of a session.
Returns(r, from, to) ==
  /\ awaited[r] \notin disposed
  /\ Advance(r, from, to, None)
  /\ UNCHANGED <<running, executing, fields, timers, open, disposed, executed, crashed, interrupted>>

\* The reply has come, and the next call is made on what a field holds by now.
Calls(r, from, to, field) ==
  /\ awaited[r] \notin disposed /\ fields[field] # None
  /\ Advance(r, from, to, fields[field])
  /\ UNCHANGED <<running, executing, fields, timers, open, disposed, executed, crashed, interrupted>>

Proceeds(r) ==
  \/ Returns(r, "initiateControl", "openExec")
  \/ Returns(r, "initiateSession", "openInstallation")
  \/ Closes(r, "lookup", "openHouseArrest")
  \/ Vended(r)
  \/ Closes(r, "configure", "openInstrument")
  \/ Calls(r, "processIdentifier", "launch", "_instrumentService")
  \/ Calls(r, "launch", "startObserving", "_instrumentService")
  \/ Calls(r, "startObserving", "authorize", "_initialControlSession")
  \/ Returns(r, "authorize", "started")

---------------------------------------------------------------------------
\* Mutant: the instrument service is forgotten.
StopForgets(stays) ==
  LET held == {fields[f] : f \in Fields \ {"_instrumentService"}} \ {None}
  IN  /\ open' = IF running THEN (open \cap stays) \ held ELSE open \cap stays
      /\ disposed' = IF running THEN disposed \cup held ELSE disposed
      /\ fields' = IF running THEN [f \in Fields |-> None] ELSE fields
      /\ executing' = IF running THEN FALSE ELSE executing
      /\ running' = FALSE

\* Mutant: the sessions are closed and kept.
StopKeepsFields(stays) ==
  LET held == {fields[f] : f \in Fields} \ {None}
  IN  /\ open' = IF running THEN (open \cap stays) \ held ELSE open \cap stays
      /\ disposed' = IF running THEN disposed \cup held ELSE disposed
      /\ executing' = IF running THEN FALSE ELSE executing
      /\ running' = FALSE
      /\ UNCHANGED fields

\* stop(): unless the runner is stopped already, the sessions in the fields are
\* closed and disposed of, and the fields emptied.  Other sessions stay.
Stop(stays) ==
  LET held == {fields[f] : f \in Fields} \ {None}
  IN  /\ open' = IF running THEN (open \cap stays) \ held ELSE open \cap stays
      /\ disposed' = IF running THEN disposed \cup held ELSE disposed
      /\ fields' = IF running THEN [f \in Fields |-> None] ELSE fields
      /\ executing' = IF running THEN FALSE ELSE executing
      /\ running' = FALSE

UserStops ==
  /\ running
  /\ Stop(open)
  /\ interrupted' = (interrupted \/ \E r \in Starts : UnderWay(r))
  /\ UNCHANGED <<pc, awaited, timers, executed, crashed>>

\* The socket of a session closes.  A session that was disposed of has no listener.
SessionCloses(session) ==
  /\ session \in open /\ session.field \in Fields
  /\ Stop(open \ {session})
  /\ interrupted' = (interrupted \/ \E r \in Starts : UnderWay(r))
  /\ UNCHANGED <<pc, awaited, timers, executed, crashed>>

\* What a start() awaits was refused, timed out, or needs a field that is empty:
\* it stops the runner, which by now may be running for another start().
Fails(r) ==
  /\ UnderWay(r)
  /\ pc' = [pc EXCEPT ![r] = "failed"]
  /\ Stop(AfterFailure(r))
  /\ interrupted' = (interrupted \/ \E q \in Starts \ {r} : UnderWay(q))
  /\ UNCHANGED <<awaited, timers, executed, crashed>>

---------------------------------------------------------------------------
\* Mutant: the flag is not looked at.
StartExecutingAgain ==
  /\ executing' = TRUE
  /\ crashed' = (crashed \/ fields["_execTestPlanSession"] = None)
  /\ executed' = IF fields["_execTestPlanSession"] # None
                 THEN Append(executed, fields["_execTestPlanSession"]) ELSE executed

\* startExecuting(): once, on the session the field holds now.
StartExecuting ==
  LET session == fields["_execTestPlanSession"]
  IN  /\ executing' = TRUE
      /\ crashed' = (crashed \/ (~executing /\ session = None))
      /\ executed' = IF ~executing /\ session # None THEN Append(executed, session) ELSE executed

Hears(r) == [start |-> r, field |-> "_execTestPlanSession"] \in open \ disposed

\* '_XCT_testBundleReadyWithProtocolVersion:minimumVersion:'
BundleReady(r) ==
  /\ Hears(r)
  /\ StartExecuting
  /\ UNCHANGED <<running, fields, pc, awaited, timers, open, disposed, interrupted>>

\* '_XCT_logDebugMessage:' with the runner's ready reply sets a timer of a second,
\* which nothing clears.
RunnerReady(r) ==
  /\ Hears(r) /\ r \notin timers
  /\ timers' = timers \cup {r}
  /\ UNCHANGED <<running, executing, fields, pc, awaited, open, disposed, executed, crashed, interrupted>>

TimerFires(r) ==
  /\ r \in timers
  /\ timers' = timers \ {r}
  /\ StartExecuting
  /\ UNCHANGED <<running, fields, pc, awaited, open, disposed, interrupted>>

---------------------------------------------------------------------------
\* What a timer or an event handler throws ends the program.
Next ==
  /\ ~crashed
  /\ \/ \E r \in Starts : \/ Start(r) \/ GotVersion(r) \/ Proceeds(r) \/ Fails(r)
                          \/ OpenedInitial(r) \/ OpenedExec(r) \/ OpenedInstrument(r)
                          \/ OpenedInstallation(r) \/ OpenedHouseArrest(r)
                          \/ BundleReady(r) \/ RunnerReady(r) \/ TimerFires(r)
     \/ UserStops
     \/ \E session \in open : SessionCloses(session)

Spec == Init /\ [][Next]_vars

---------------------------------------------------------------------------
(* Properties.                                                             *)

Quiescent == ~running /\ \A r \in Starts : ~UnderWay(r)

\* As long as the runner is stopped only when no start() is under way, or by the
\* start() that failed, nothing is left open when it has stopped.  And however it was
\* interrupted, a start() that is over has closed what it used for a while.
StopClosesAll ==
  /\ ~interrupted /\ Quiescent => open = {}
  /\ \A session \in open : session.field \in Temporary => UnderWay(session.start)

\* The test plan is started at most once on a session, whoever says how often
\* that it is ready, and however often the runner is stopped and started.
ExecutedOnce == \A i, j \in DOMAIN executed : i # j => executed[i] # executed[j]

\* A field never holds a session that stop() has disposed of, so that no call can
\* begin on a service whose reply queues are revoked.
FieldsAreLive == \A f \in Fields : fields[f] \notin disposed

\* "Stop xctest process": once the runner is stopped and no start() is under way,
\* no session of it is open.
StoppedMeansClosed == Quiescent => open = {}
==========================================================================
