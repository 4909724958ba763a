---------------------------- MODULE XctestProofs ----------------------------
(***************************************************************************)
(* Theorems about module Xctest, for any number of starts.                 *)
(***************************************************************************)
EXTENDS Xctest, SequenceTheorems, TLAPS

---------------------------------------------------------------------------
(* The inductive invariant.                                                *)

Phases == Awaits \cup {"uncalled", "ignored", "started", "failed"}

\* A field holds a session that was opened for it.
TypeOK ==
  /\ running \in BOOLEAN /\ executing \in BOOLEAN
  /\ fields \in [Fields -> Session \cup {None}]
  /\ \A f \in Fields : fields[f] = None \/ fields[f].field = f
  /\ pc \in [Starts -> Phases]
  /\ awaited \in [Starts -> Session \cup {None}]
  /\ timers \subseteq Starts
  /\ open \subseteq Session /\ disposed \subseteq Session
  /\ executed \in Seq(Session)
  /\ crashed \in BOOLEAN /\ interrupted \in BOOLEAN

\* Where a start() may be before it opens its session for a field.
BeforeInitial == {"uncalled", "osVersion", "openInitial"}
BeforeExec == BeforeInitial \cup {"initiateControl", "openExec"}
BeforeInstallation == BeforeExec \cup {"initiateSession", "openInstallation"}
BeforeHouseArrest == BeforeInstallation \cup {"lookup", "openHouseArrest"}
BeforeInstrument == BeforeHouseArrest \cup {"vend", "configure", "openInstrument"}

Before(field) ==
  IF field = "_initialControlSession" THEN BeforeInitial
  ELSE IF field = "_execTestPlanSession" THEN BeforeExec
  ELSE IF field = "installation" THEN BeforeInstallation
  ELSE IF field = "houseArrest" THEN BeforeHouseArrest ELSE BeforeInstrument

\* A session is opened once: whatever was done with one, its start() is past the
\* step that opens it.
Opens(session) == pc[session.start] \in Before(session.field)

OpenedOnce ==
  /\ \A session \in open \cup disposed : ~Opens(session)
  /\ \A f \in Fields : fields[f] # None => ~Opens(fields[f])
  /\ \A i \in DOMAIN executed : executed[i] \in Session /\ ~Opens(executed[i])

\* What is open for a while is what its start() awaits a reply of.
TemporaryAwaited ==
  \A session \in open :
    LET r == session.start
    IN  /\ session.field = "installation" => pc[r] = "lookup" /\ awaited[r] = session
        /\ session.field = "houseArrest" => pc[r] \in {"vend", "configure"} /\ awaited[r] = session

\* A session that is in its field and has been told to run its plan is known to be.
ExecutingKnown ==
  \A i \in DOMAIN executed : executed[i] = fields["_execTestPlanSession"] => executing

\* As long as no start() was interrupted, there is at most one, the runner runs for
\* it, and all sessions that are open are its own and in their fields.
Orderly ==
  ~interrupted =>
    /\ \A r \in Starts : UnderWay(r) => running
    /\ \A r, q \in Starts : UnderWay(r) /\ UnderWay(q) => r = q
    /\ open # {} => running
    /\ \A session \in open : \A r \in Starts : UnderWay(r) => session.start = r
    /\ \A session \in open : session.field \in Fields => fields[session.field] = session

IInv ==
  /\ TypeOK /\ OpenedOnce /\ TemporaryAwaited
  /\ FieldsAreLive /\ ExecutedOnce /\ ExecutingKnown /\ Orderly

---------------------------------------------------------------------------
(* Type correctness.                                                       *)

\* None is no session: calls of start() are counted from one.
LEMMA NoneIsNoSession == None \notin Session
  BY XctestAssumption DEF None, Session, Starts

\* stop() keeps the types.
LEMMA StopType ==
  ASSUME TypeOK, NEW stays, Stop(stays)
  PROVE  /\ running' \in BOOLEAN /\ executing' \in BOOLEAN
         /\ fields' \in [Fields -> Session \cup {None}]
         /\ \A f \in Fields : fields'[f] = None \/ fields'[f].field = f
         /\ open' \subseteq Session /\ disposed' \subseteq Session
<1> DEFINE held == {fields[f] : f \in Fields} \ {None}
<1>1. held \subseteq Session
  BY DEF TypeOK
<1>2. QED
  BY <1>1 DEF TypeOK, Stop

\* An await is followed by another one.
LEMMA AdvanceType ==
  ASSUME TypeOK, NEW r \in Starts, NEW from, NEW to \in Phases,
         NEW session \in Session \cup {None}, Advance(r, from, to, session)
  PROVE  pc' \in [Starts -> Phases] /\ awaited' \in [Starts -> Session \cup {None}]
  BY DEF TypeOK, Advance

\* Each step of the sessions preserves the types.
LEMMA TypeStep == TypeOK /\ [Next]_vars => TypeOK'
<1> SUFFICES ASSUME TypeOK, [Next]_vars
             PROVE  TypeOK'
  OBVIOUS
<1> USE DEF Phases, Awaits
<1>1. ASSUME NEW r \in Starts, Start(r) PROVE TypeOK'
  BY <1>1 DEF TypeOK, Start
<1>2. ASSUME NEW r \in Starts, GotVersion(r) PROVE TypeOK'
  BY <1>2, AdvanceType DEF TypeOK, GotVersion
<1>3. ASSUME NEW r \in Starts, Proceeds(r) PROVE TypeOK'
  <2>1. ASSUME NEW from, NEW to \in Phases, Returns(r, from, to) PROVE TypeOK'
    BY <2>1, AdvanceType DEF TypeOK, Returns
  <2>2. ASSUME NEW from, NEW to \in Phases, Closes(r, from, to) PROVE TypeOK'
    BY <2>2, AdvanceType DEF TypeOK, Closes
  <2>3. ASSUME NEW from, NEW to \in Phases, NEW f \in Fields, Calls(r, from, to, f) PROVE TypeOK'
    BY <2>3, AdvanceType DEF TypeOK, Calls
  <2>4. ASSUME Vended(r) PROVE TypeOK'
    BY <2>4, AdvanceType DEF TypeOK, Vended
  <2>5. QED
    BY <1>3, <2>1, <2>2, <2>3, <2>4 DEF Proceeds, Fields
<1>4. ASSUME NEW r \in Starts, Fails(r) PROVE TypeOK'
  <2>1. pc' \in [Starts -> Phases]
    BY <1>4 DEF TypeOK, Fails
  <2>2. QED
    BY <1>4, <2>1, StopType DEF TypeOK, Fails
<1>5. ASSUME NEW r \in Starts, OpenedInitial(r) \/ OpenedExec(r) \/ OpenedInstrument(r) PROVE TypeOK'
  <2>1. ASSUME NEW f \in Fields, NEW from, NEW to \in Phases, Opened(r, f, from, to) PROVE TypeOK'
    <3> DEFINE session == [start |-> r, field |-> f]
    <3>1. session \in Session
      BY DEF Session
    <3>2. pc' \in [Starts -> Phases] /\ awaited' \in [Starts -> Session \cup {None}]
      BY <2>1, <3>1, AdvanceType DEF Opened
    <3>3. QED
      BY <2>1, <3>1, <3>2 DEF TypeOK, Opened
  <2>2. QED
    BY <1>5, <2>1 DEF OpenedInitial, OpenedExec, OpenedInstrument, Fields
<1>6. ASSUME NEW r \in Starts, OpenedInstallation(r) \/ OpenedHouseArrest(r) PROVE TypeOK'
  <2>1. ASSUME NEW f \in Temporary, NEW from, NEW to \in Phases, OpenedTemporary(r, f, from, to)
        PROVE  TypeOK'
    <3> DEFINE session == [start |-> r, field |-> f]
    <3>1. session \in Session
      BY DEF Session
    <3>2. QED
      BY <2>1, <3>1, AdvanceType DEF TypeOK, OpenedTemporary
  <2>2. QED
    BY <1>6, <2>1 DEF OpenedInstallation, OpenedHouseArrest, Temporary
<1>7. ASSUME NEW r \in Starts, StartExecuting, UNCHANGED <<running, fields, pc, awaited, open, disposed, interrupted>>,
             timers' \subseteq Starts
      PROVE  TypeOK'
  <2>1. executed' \in Seq(Session)
    BY <1>7 DEF TypeOK, StartExecuting, Fields
  <2>2. QED
    BY <1>7, <2>1 DEF TypeOK, StartExecuting
<1>8. ASSUME NEW r \in Starts, BundleReady(r) \/ TimerFires(r) PROVE TypeOK'
  BY <1>7, <1>8 DEF TypeOK, BundleReady, TimerFires
<1>9. ASSUME NEW r \in Starts, RunnerReady(r) PROVE TypeOK'
  BY <1>9 DEF TypeOK, RunnerReady
<1>10. CASE UserStops
  BY <1>10, StopType DEF TypeOK, UserStops
<1>11. ASSUME NEW session \in open, SessionCloses(session) PROVE TypeOK'
  BY <1>11, StopType DEF TypeOK, SessionCloses
<1>12. CASE UNCHANGED vars
  BY <1>12 DEF TypeOK, vars
<1>13. QED
  BY <1>1, <1>2, <1>3, <1>4, <1>5, <1>6, <1>8, <1>9, <1>10, <1>11, <1>12 DEF Next

---------------------------------------------------------------------------
(* What a step does to the sessions: it opens one that was never opened,   *)
(* stops the runner, starts the test plan, or at most closes some.         *)

\* A start() does not go back to where it opens a session.
LEMMA ForwardStep ==
  ASSUME TypeOK, [Next]_vars, NEW q \in Starts, NEW f \in Fields \cup Temporary,
         pc[q] \notin Before(f)
  PROVE  pc'[q] \notin Before(f)
<1> USE DEF Fields, Temporary, Before, BeforeInitial, BeforeExec, BeforeInstallation,
            BeforeHouseArrest, BeforeInstrument
<1>1. ASSUME NEW r \in Starts, NEW to \in {"started", "failed", "ignored"},
             pc' = [pc EXCEPT ![r] = to]
      PROVE  pc'[q] \notin Before(f)
  BY <1>1 DEF TypeOK
<1>2. ASSUME NEW r \in Starts, NEW from, NEW to, NEW session, Advance(r, from, to, session),
             from \in Before(f) \/ to \notin Before(f)
      PROVE  pc'[q] \notin Before(f)
  BY <1>2 DEF TypeOK, Advance
<1>3. ASSUME NEW r \in Starts, Start(r) PROVE pc'[q] \notin Before(f)
  BY <1>3 DEF TypeOK, Start
<1>4. ASSUME NEW r \in Starts, GotVersion(r) PROVE pc'[q] \notin Before(f)
  BY <1>4, <1>2 DEF GotVersion
<1>5. ASSUME NEW r \in Starts, Proceeds(r) PROVE pc'[q] \notin Before(f)
  <2> DEFINE Ahead(from, to) == \E session : Advance(r, from, to, session)
  <2>1. \/ Ahead("initiateControl", "openExec") \/ Ahead("initiateSession", "openInstallation")
        \/ Ahead("lookup", "openHouseArrest") \/ Ahead("vend", "configure")
        \/ Ahead("configure", "openInstrument") \/ Ahead("processIdentifier", "launch")
        \/ Ahead("launch", "startObserving") \/ Ahead("startObserving", "authorize")
        \/ Ahead("authorize", "started")
    BY <1>5 DEF Proceeds, Returns, Closes, Calls, Vended
  <2>2. QED
    BY <2>1, <1>2
<1>6. ASSUME NEW r \in Starts, Fails(r) PROVE pc'[q] \notin Before(f)
  BY <1>6, <1>1 DEF Fails
<1>7. ASSUME NEW r \in Starts, OpenedInitial(r) PROVE pc'[q] \notin Before(f)
  BY <1>7, <1>2 DEF OpenedInitial, Opened
<1>8. ASSUME NEW r \in Starts, OpenedExec(r) PROVE pc'[q] \notin Before(f)
  BY <1>8, <1>2 DEF OpenedExec, Opened
<1>9. ASSUME NEW r \in Starts, OpenedInstrument(r) PROVE pc'[q] \notin Before(f)
  BY <1>9, <1>2 DEF OpenedInstrument, Opened
<1>10. ASSUME NEW r \in Starts, OpenedInstallation(r) PROVE pc'[q] \notin Before(f)
  BY <1>10, <1>2 DEF OpenedInstallation, OpenedTemporary
<1>11. ASSUME NEW r \in Starts, OpenedHouseArrest(r) PROVE pc'[q] \notin Before(f)
  BY <1>11, <1>2 DEF OpenedHouseArrest, OpenedTemporary
<1>12. ASSUME pc' = pc PROVE pc'[q] \notin Before(f)
  BY <1>12
<1>13. QED
  BY <1>3, <1>4, <1>5, <1>6, <1>7, <1>8, <1>9, <1>10, <1>11, <1>12
     DEF Next, vars, BundleReady, RunnerReady, TimerFires, UserStops, SessionCloses

\* A session is opened by a start() that passes the step that opens it.
Opening(r, field) ==
  /\ pc[r] \in Before(field) /\ pc'[r] \notin Before(field)
  /\ open' = open \cup {[start |-> r, field |-> field]}
  /\ fields' = IF field \in Fields
               THEN [fields EXCEPT ![field] = [start |-> r, field |-> field]] ELSE fields
  /\ UNCHANGED <<executing, disposed, executed>>

Stopping == UNCHANGED executed /\ \E stays \in SUBSET open : Stop(stays)
Executing == StartExecuting /\ UNCHANGED <<fields, open, disposed>>
Closing == open' \subseteq open /\ UNCHANGED <<executing, fields, disposed, executed>>

\* A step opens a session, stops, starts the plan, or at most closes what is open.
LEMMA Effects ==
  ASSUME TypeOK, [Next]_vars
  PROVE  \/ \E r \in Starts, field \in Fields \cup Temporary : Opening(r, field)
         \/ Stopping \/ Executing \/ Closing
<1>1. ASSUME NEW r \in Starts,
             \/ Start(r) \/ GotVersion(r) \/ Proceeds(r) \/ RunnerReady(r)
      PROVE  Closing
  BY <1>1 DEF Start, GotVersion, Proceeds, RunnerReady, Returns, Closes, Calls, Vended, Closing
<1>2. ASSUME NEW r \in Starts, BundleReady(r) \/ TimerFires(r) PROVE Executing
  BY <1>2 DEF BundleReady, TimerFires, Executing
<1>3. ASSUME NEW r \in Starts, Fails(r) PROVE Stopping
  BY <1>3 DEF Fails, Stopping, AfterFailure
<1>4. ASSUME UserStops PROVE Stopping
  BY <1>4 DEF UserStops, Stopping
<1>5. ASSUME NEW session \in open, SessionCloses(session) PROVE Stopping
  BY <1>5 DEF SessionCloses, Stopping
<1>6. ASSUME NEW r \in Starts, NEW field \in Fields, NEW from, NEW to, Opened(r, field, from, to),
             from \in Before(field), to \notin Before(field),
             field = "_initialControlSession" => "openExec" \notin Before(field)
      PROVE  Opening(r, field)
  BY <1>6 DEF Opened, Advance, Opening, TypeOK
<1>7. ASSUME NEW r \in Starts, NEW field \in Temporary, NEW from, NEW to,
             OpenedTemporary(r, field, from, to), from \in Before(field), to \notin Before(field)
      PROVE  Opening(r, field)
  BY <1>7 DEF OpenedTemporary, Advance, Opening, TypeOK, Fields, Temporary
<1>8. ASSUME NEW r \in Starts,
             \/ OpenedInitial(r) \/ OpenedExec(r) \/ OpenedInstrument(r)
             \/ OpenedInstallation(r) \/ OpenedHouseArrest(r)
      PROVE  \E field \in Fields \cup Temporary : Opening(r, field)
  <2> USE DEF Fields, Temporary, Before, BeforeInitial, BeforeExec, BeforeInstallation,
              BeforeHouseArrest, BeforeInstrument
  <2>1. CASE OpenedInitial(r)
    BY <2>1, <1>6 DEF OpenedInitial
  <2>2. CASE OpenedExec(r)
    BY <2>2, <1>6 DEF OpenedExec
  <2>3. CASE OpenedInstrument(r)
    BY <2>3, <1>6 DEF OpenedInstrument
  <2>4. CASE OpenedInstallation(r)
    BY <2>4, <1>7 DEF OpenedInstallation
  <2>5. CASE OpenedHouseArrest(r)
    BY <2>5, <1>7 DEF OpenedHouseArrest
  <2>6. QED
    BY <1>8, <2>1, <2>2, <2>3, <2>4, <2>5
<1>9. ASSUME UNCHANGED vars PROVE Closing
  BY <1>9 DEF vars, Closing
<1>10. QED
  BY <1>1, <1>2, <1>3, <1>4, <1>5, <1>8, <1>9 DEF Next

---------------------------------------------------------------------------
(* Sessions and their fields.                                              *)

\* Whatever was opened once is not opened again.
LEMMA OpenedStep == TypeOK /\ OpenedOnce /\ [Next]_vars => OpenedOnce'
<1> SUFFICES ASSUME TypeOK, OpenedOnce, [Next]_vars
             PROVE  OpenedOnce'
  OBVIOUS
<1> DEFINE Passed(session) == pc'[session.start] \notin Before(session.field)
<1>1. \A session \in Session : ~Opens(session) => Passed(session)
  BY ForwardStep DEF Opens, Session
<1>2. /\ \A session \in open \cup disposed : Passed(session)
      /\ \A f \in Fields : fields[f] # None => fields[f] \in Session /\ Passed(fields[f])
      /\ \A i \in DOMAIN executed : executed[i] \in Session /\ Passed(executed[i])
  BY <1>1 DEF OpenedOnce, TypeOK
<1>3. SUFFICES /\ \A session \in open' \cup disposed' : Passed(session)
               /\ \A f \in Fields : fields'[f] # None => Passed(fields'[f])
               /\ \A i \in DOMAIN executed' : executed'[i] \in Session /\ Passed(executed'[i])
  BY DEF OpenedOnce, Opens
<1>4. ASSUME NEW r \in Starts, NEW field \in Fields \cup Temporary, Opening(r, field)
      PROVE  /\ \A session \in open' \cup disposed' : Passed(session)
             /\ \A f \in Fields : fields'[f] # None => Passed(fields'[f])
             /\ \A i \in DOMAIN executed' : executed'[i] \in Session /\ Passed(executed'[i])
  <2> DEFINE session == [start |-> r, field |-> field]
  <2>1. Passed(session)
    BY <1>4 DEF Opening
  <2>2. \A f \in Fields : fields'[f] = fields[f] \/ fields'[f] = session
    BY <1>4 DEF Opening, TypeOK
  <2>3. open' = open \cup {session} /\ disposed' = disposed /\ executed' = executed
    BY <1>4 DEF Opening
  <2> HIDE DEF Passed, session
  <2>4. QED
    BY <1>2, <2>1, <2>2, <2>3
<1>5. ASSUME open' \subseteq open, disposed' \subseteq disposed \cup ({fields[f] : f \in Fields} \ {None}),
             \A f \in Fields : fields'[f] \in {fields[f], None},
             \A i \in DOMAIN executed' :
               \/ i \in DOMAIN executed /\ executed'[i] = executed[i]
               \/ \E f \in Fields : executed'[i] = fields[f] /\ fields[f] # None
      PROVE  /\ \A session \in open' \cup disposed' : Passed(session)
             /\ \A f \in Fields : fields'[f] # None => Passed(fields'[f])
             /\ \A i \in DOMAIN executed' : executed'[i] \in Session /\ Passed(executed'[i])
  <2> HIDE DEF Passed
  <2>1. QED
    BY <1>2, <1>5
<1>6. CASE Stopping
  BY <1>6, <1>5 DEF Stopping, Stop, TypeOK
<1>7. CASE Executing
  BY <1>7, <1>5 DEF Executing, StartExecuting, TypeOK, Fields
<1>8. CASE Closing
  BY <1>8, <1>5 DEF Closing, TypeOK
<1>9. QED
  BY <1>4, <1>6, <1>7, <1>8, Effects

\* A field is given a session that was never disposed of, and emptied when its session is.
LEMMA LiveStep == TypeOK /\ OpenedOnce /\ FieldsAreLive /\ [Next]_vars => FieldsAreLive'
<1> SUFFICES ASSUME TypeOK, OpenedOnce, FieldsAreLive, [Next]_vars
             PROVE  FieldsAreLive'
  OBVIOUS
<1>1. ASSUME NEW r \in Starts, NEW field \in Fields \cup Temporary, Opening(r, field)
      PROVE  FieldsAreLive'
  <2>1. [start |-> r, field |-> field] \notin disposed
    BY <1>1 DEF Opening, OpenedOnce, Opens
  <2>2. QED
    BY <1>1, <2>1 DEF Opening, FieldsAreLive, TypeOK
<1>2. CASE Stopping
  BY <1>2, NoneIsNoSession DEF Stopping, Stop, FieldsAreLive, TypeOK
<1>3. CASE Executing \/ Closing
  BY <1>3 DEF Executing, Closing, FieldsAreLive
<1>4. QED
  BY <1>1, <1>2, <1>3, Effects

---------------------------------------------------------------------------
(* The test plan.                                                          *)

\* A plan is started on what the field holds unless one is, and a session that is
\* put in the field was not there before.
LEMMA ExecutedStep ==
  ASSUME TypeOK, OpenedOnce, ExecutedOnce, ExecutingKnown, [Next]_vars
  PROVE  ExecutedOnce' /\ ExecutingKnown'
<1> DEFINE session == fields["_execTestPlanSession"]
<1>1. ASSUME NEW r \in Starts, NEW field \in Fields \cup Temporary, Opening(r, field)
      PROVE  ExecutedOnce' /\ ExecutingKnown'
  <2> DEFINE new == [start |-> r, field |-> field]
  <2>1. \A i \in DOMAIN executed : executed[i] # new
    BY <1>1 DEF Opening, OpenedOnce, Opens
  <2>2. fields'["_execTestPlanSession"] \in {session, new}
    BY <1>1 DEF Opening, TypeOK, Fields
  <2>3. executed' = executed /\ executing' = executing
    BY <1>1 DEF Opening
  <2> HIDE DEF new
  <2>4. QED
    BY <2>1, <2>2, <2>3 DEF ExecutedOnce, ExecutingKnown
<1>2. CASE Stopping
  <2>1. executed' = executed /\ \A i \in DOMAIN executed : executed[i] # None
    BY <1>2, NoneIsNoSession DEF Stopping, OpenedOnce
  <2>2. \/ fields'["_execTestPlanSession"] = None
        \/ fields' = fields /\ executing' = executing
    BY <1>2 DEF Stopping, Stop, Fields
  <2> HIDE DEF None
  <2>3. QED
    BY <2>1, <2>2 DEF ExecutedOnce, ExecutingKnown
<1>3. CASE Executing
  <2>1. executing' /\ fields' = fields
    BY <1>3 DEF Executing, StartExecuting
  <2>2. CASE ~executing /\ session # None
    <3>1. executed' = Append(executed, session) /\ session \in Session /\ executed \in Seq(Session)
      BY <1>3, <2>2 DEF Executing, StartExecuting, TypeOK, Fields
    <3>2. \A i \in DOMAIN executed : executed[i] # session
      BY <2>2 DEF ExecutingKnown
    <3> HIDE DEF session
    <3>3. ExecutedOnce'
      BY <3>1, <3>2 DEF ExecutedOnce
    <3>4. QED
      BY <2>1, <3>3 DEF ExecutingKnown
  <2>3. CASE ~(~executing /\ session # None)
    BY <1>3, <2>1, <2>3 DEF Executing, StartExecuting, ExecutedOnce, ExecutingKnown
  <2>4. QED
    BY <2>2, <2>3
<1>4. CASE Closing
  BY <1>4 DEF Closing, ExecutedOnce, ExecutingKnown
<1>5. QED
  BY <1>1, <1>2, <1>3, <1>4, Effects

---------------------------------------------------------------------------
(* What is open.                                                           *)

\* Whatever ends the wait for a temporary service closes it.
LEMMA TemporaryStep == TypeOK /\ TemporaryAwaited /\ [Next]_vars => TemporaryAwaited'
<1> SUFFICES ASSUME TypeOK, TemporaryAwaited, [Next]_vars
             PROVE  TemporaryAwaited'
  OBVIOUS
<1> USE DEF Fields, Temporary
<1>1. ASSUME NEW r \in Starts, pc[r] \notin {"lookup", "vend", "configure"}
      PROVE  \A old \in open : ~(old.start = r /\ old.field \in Temporary)
  BY <1>1 DEF TypeOK, TemporaryAwaited
<1>2. ASSUME NEW r \in Starts, Start(r) PROVE TemporaryAwaited'
  BY <1>2 DEF Start, TypeOK, TemporaryAwaited, Session
<1>3. ASSUME NEW r \in Starts, GotVersion(r) PROVE TemporaryAwaited'
  BY <1>3, <1>1 DEF GotVersion, Advance, TypeOK, TemporaryAwaited, Session
<1>4. ASSUME NEW r \in Starts, NEW from \in Awaits \ {"lookup", "vend", "configure"}, NEW to, NEW session,
             Advance(r, from, to, session), UNCHANGED open
      PROVE  TemporaryAwaited'
  BY <1>4, <1>1 DEF Advance, TypeOK, TemporaryAwaited, Session
<1>5. ASSUME NEW r \in Starts, Closes(r, "lookup", "openHouseArrest") \/ Closes(r, "configure", "openInstrument")
      PROVE  TemporaryAwaited'
  BY <1>5 DEF Closes, Advance, TypeOK, TemporaryAwaited, Session
<1>6. ASSUME NEW r \in Starts, Vended(r) PROVE TemporaryAwaited'
  BY <1>6 DEF Vended, Advance, TypeOK, TemporaryAwaited, Session
<1>7. ASSUME NEW r \in Starts, Proceeds(r) PROVE TemporaryAwaited'
  BY <1>7, <1>4, <1>5, <1>6 DEF Proceeds, Returns, Calls, Awaits
<1>8. ASSUME NEW r \in Starts, Fails(r) PROVE TemporaryAwaited'
  <2>1. \A old \in open' : old \in open /\ ~(old.start = r /\ old.field \in Temporary)
    BY <1>8 DEF Fails, Stop, AfterFailure
  <2>2. QED
    BY <1>8, <2>1 DEF Fails, TypeOK, TemporaryAwaited, Session
<1>9. ASSUME NEW r \in Starts, NEW field \in Fields, NEW from \in Awaits \ {"lookup", "vend", "configure"},
              NEW to, Opened(r, field, from, to)
       PROVE  TemporaryAwaited'
  <2>1. pc[r] = from /\ \A q \in Starts \ {r} : pc'[q] = pc[q] /\ awaited'[q] = awaited[q]
    BY <1>9 DEF Opened, Advance, TypeOK
  <2>2. \A session \in open' : session.field \in Temporary => session \in open /\ session.start # r
    BY <1>9, <1>1, <2>1 DEF Opened
  <2>3. QED
    BY <2>1, <2>2 DEF TypeOK, TemporaryAwaited, Session
<1>10. ASSUME NEW r \in Starts, NEW field \in Temporary, NEW from \in Awaits \ {"lookup", "vend", "configure"},
              NEW to, OpenedTemporary(r, field, from, to),
              field = "installation" => to = "lookup", field = "houseArrest" => to = "vend"
       PROVE  TemporaryAwaited'
  <2> DEFINE new == [start |-> r, field |-> field]
  <2>1. pc[r] = from /\ \A q \in Starts \ {r} : pc'[q] = pc[q] /\ awaited'[q] = awaited[q]
    BY <1>10 DEF OpenedTemporary, Advance, TypeOK
  <2>2. pc'[r] = to /\ awaited'[r] = new /\ open' = open \cup {new}
    BY <1>10 DEF OpenedTemporary, Advance, TypeOK
  <2>3. \A session \in open : session.field \in Temporary => session.start # r
    BY <1>10, <1>1, <2>1
  <2>4. QED
    BY <1>10, <2>1, <2>2, <2>3 DEF TypeOK, TemporaryAwaited, Session
<1>11. ASSUME UNCHANGED <<pc, awaited>>, open' \subseteq open PROVE TemporaryAwaited'
  BY <1>11 DEF TemporaryAwaited
<1>12. ASSUME NEW r \in Starts, OpenedInitial(r) \/ OpenedExec(r) \/ OpenedInstrument(r) PROVE TemporaryAwaited'
  BY <1>12, <1>9 DEF OpenedInitial, OpenedExec, OpenedInstrument, Awaits
<1>13. ASSUME NEW r \in Starts, OpenedInstallation(r) \/ OpenedHouseArrest(r) PROVE TemporaryAwaited'
  BY <1>13, <1>10 DEF OpenedInstallation, OpenedHouseArrest, Awaits
<1>14. QED
  BY <1>2, <1>3, <1>7, <1>8, <1>11, <1>12, <1>13
     DEF Next, vars, BundleReady, RunnerReady, TimerFires, UserStops, SessionCloses, Stop

\* Without an interruption the runner runs for one start(), whose sessions are those
\* that are open; what stops it closes those in the fields, and those that start() has
\* for a while are closed when its wait for them ends.
LEMMA OrderlyStep == TypeOK /\ TemporaryAwaited /\ Orderly /\ [Next]_vars => Orderly'
<1> SUFFICES ASSUME TypeOK, TemporaryAwaited, Orderly, [Next]_vars, ~interrupted'
             PROVE  Orderly'
  BY DEF Orderly
<1> USE DEF Fields, Temporary
<1>1. ~interrupted
  BY DEF TypeOK, Next, vars, Start, GotVersion, Proceeds, Returns, Calls, Closes, Vended, Fails, Opened,
         OpenedInitial, OpenedExec, OpenedInstrument, OpenedTemporary, OpenedInstallation,
         OpenedHouseArrest, BundleReady, RunnerReady, TimerFires, UserStops, SessionCloses
<1>2. /\ \A r \in Starts : UnderWay(r) => running
      /\ \A r, q \in Starts : UnderWay(r) /\ UnderWay(q) => r = q
      /\ open # {} => running
      /\ \A session \in open : \A r \in Starts : UnderWay(r) => session.start = r
      /\ \A session \in open : session.field \in Fields => fields[session.field] = session
  BY <1>1 DEF Orderly
<1>3. ASSUME \A r \in Starts : UnderWay(r)' => UnderWay(r), running' = running,
             open' \subseteq open, fields' = fields
      PROVE  Orderly'
  BY <1>2, <1>3 DEF Orderly
<1>4. ASSUME NEW r \in Starts, NEW from \in Awaits, NEW to, NEW session, Advance(r, from, to, session)
      PROVE  UnderWay(r) /\ \A q \in Starts : UnderWay(q)' => UnderWay(q)
  BY <1>4 DEF Advance, UnderWay, TypeOK
<1>5. ASSUME NEW r \in Starts, Start(r) PROVE Orderly'
  <2>1. CASE running
    BY <1>3, <1>5, <2>1 DEF Start, UnderWay, TypeOK, Awaits
  <2>2. CASE ~running
    <3>1. open = {} /\ \A q \in Starts : ~UnderWay(q)
      BY <1>2, <2>2
    <3>2. running' /\ open' = {} /\ \A q \in Starts : UnderWay(q)' => q = r
      BY <1>5, <3>1 DEF Start, UnderWay, TypeOK
    <3>3. QED
      BY <3>2 DEF Orderly
  <2>3. QED
    BY <2>1, <2>2
<1>6. ASSUME NEW r \in Starts, GotVersion(r) \/ Proceeds(r) PROVE Orderly'
  BY <1>6, <1>3, <1>4 DEF GotVersion, Proceeds, Returns, Calls, Closes, Vended, Awaits
<1>7. ASSUME NEW r \in Starts, NEW field \in Fields \cup Temporary, UnderWay(r),
             \A q \in Starts : UnderWay(q)' => UnderWay(q), running' = running,
             open' = open \cup {[start |-> r, field |-> field]},
             fields' = IF field \in Fields
                       THEN [fields EXCEPT ![field] = [start |-> r, field |-> field]] ELSE fields
      PROVE  Orderly'
  <2> DEFINE new == [start |-> r, field |-> field]
  <2>1. \A q \in Starts : UnderWay(q)' => q = r
    BY <1>2, <1>7
  <2>2. \A session \in open : session.start = r
    BY <1>2, <1>7
  <2>3. \A session \in open : session.field = field => session = new
    BY <2>2 DEF TypeOK, Session
  <2>4. \A session \in open' : session.field \in Fields => fields'[session.field] = session
    BY <1>2, <1>7, <2>3 DEF TypeOK
  <2>5. running'
    BY <1>2, <1>7
  <2>6. \A session \in open' : session.start = r
    BY <1>7, <2>2
  <2>7. QED
    BY <2>1, <2>4, <2>5, <2>6 DEF Orderly
<1>8. ASSUME NEW r \in Starts,
             \/ OpenedInitial(r) \/ OpenedExec(r) \/ OpenedInstrument(r)
             \/ OpenedInstallation(r) \/ OpenedHouseArrest(r)
      PROVE  Orderly'
  BY <1>8, <1>4, <1>7 DEF OpenedInitial, OpenedExec, OpenedInstrument, Opened,
     OpenedInstallation, OpenedHouseArrest, OpenedTemporary, Awaits
<1>9. ASSUME NEW stays \in SUBSET open, Stop(stays), running, \A r \in Starts : ~UnderWay(r)',
             \A session \in stays : session.field \in Fields
      PROVE  Orderly'
  <2>1. \A session \in stays : session \in {fields[f] : f \in Fields} \ {None}
    BY <1>2, <1>9, NoneIsNoSession DEF TypeOK
  <2>2. open' = {}
    BY <1>9, <2>1 DEF Stop
  <2>3. QED
    BY <1>9, <2>2 DEF Orderly
<1>10. ASSUME \A r \in Starts : ~UnderWay(r)
       PROVE  \A session \in open : session.field \in Fields
  BY <1>10 DEF TypeOK, TemporaryAwaited, Session, UnderWay, Awaits
<1>11. ASSUME NEW r \in Starts, Fails(r) PROVE Orderly'
  <2>1. running /\ \A q \in Starts : ~UnderWay(q)'
    BY <1>1, <1>2, <1>11 DEF Fails, UnderWay, TypeOK, Awaits
  <2>2. AfterFailure(r) \subseteq open /\ \A session \in AfterFailure(r) : session.field \in Fields
    BY <1>2, <1>11 DEF Fails, AfterFailure, TypeOK, Session
  <2>3. QED
    BY <1>9, <1>11, <2>1, <2>2 DEF Fails
<1>12. CASE UserStops
  <2>1. \A r \in Starts : ~UnderWay(r)
    BY <1>12 DEF UserStops
  <2>2. \A r \in Starts : ~UnderWay(r)'
    BY <1>12, <2>1 DEF UserStops, UnderWay
  <2>3. QED
    BY <1>9, <1>10, <1>12, <2>1, <2>2 DEF UserStops
<1>13. ASSUME NEW session \in open, SessionCloses(session) PROVE Orderly'
  <2>1. \A r \in Starts : ~UnderWay(r)
    BY <1>13 DEF SessionCloses
  <2>2. \A r \in Starts : ~UnderWay(r)'
    BY <1>13, <2>1 DEF SessionCloses, UnderWay
  <2>3. running
    BY <1>2
  <2>4. QED
    BY <1>9, <1>10, <1>13, <2>1, <2>2, <2>3 DEF SessionCloses
<1>14. ASSUME UNCHANGED <<running, fields, pc, open>> PROVE Orderly'
  BY <1>3, <1>14 DEF UnderWay
<1>15. QED
  BY <1>5, <1>6, <1>8, <1>11, <1>12, <1>13, <1>14 DEF Next, vars, BundleReady, RunnerReady, TimerFires

---------------------------------------------------------------------------
(* The theorems.                                                           *)

\* The runner starts without sessions.
LEMMA InitInvariant == Init => IInv
<1> SUFFICES ASSUME Init PROVE IInv
  OBVIOUS
<1>1. TypeOK
  BY EmptySeq DEF Init, TypeOK, Phases
<1>2. OpenedOnce /\ TemporaryAwaited /\ FieldsAreLive /\ ExecutedOnce /\ ExecutingKnown
  BY DEF Init, OpenedOnce, TemporaryAwaited, FieldsAreLive, ExecutedOnce, ExecutingKnown
<1>3. Orderly
  BY DEF Init, Orderly, UnderWay, Awaits
<1>4. QED
  BY <1>1, <1>2, <1>3 DEF IInv

\* Whatever is called, answered, refused or closed, in any order, the invariant stays.
THEOREM XctestInvariant == Spec => []IInv
<1>1. IInv /\ [Next]_vars => IInv'
  BY TypeStep, OpenedStep, TemporaryStep, LiveStep, ExecutedStep, OrderlyStep DEF IInv
<1>2. QED
  BY <1>1, InitInvariant, PTL DEF Spec

\* xctest.js sets a field after stop() may have run and empties it in stop(): whatever
\* the order, no field holds a session that was disposed of.
THEOREM FieldsStayLive == Spec => []FieldsAreLive
<1>1. IInv => FieldsAreLive
  BY DEF IInv
<1>2. QED
  BY <1>1, XctestInvariant, PTL

\* _executing keeps the bundle's own event, the log message and every timer of it from
\* starting the plan of a session twice.
THEOREM PlanStartedOnce == Spec => []ExecutedOnce
<1>1. IInv => ExecutedOnce
  BY DEF IInv
<1>2. QED
  BY <1>1, XctestInvariant, PTL

\* The finally blocks of start() close what it used for a while, however it ends, and
\* stop() closes everything else unless it ran while a start() was under way.
THEOREM StopLeavesNothingOpen == Spec => []StopClosesAll
<1>1. IInv => StopClosesAll
  <2> SUFFICES ASSUME IInv PROVE StopClosesAll
    OBVIOUS
  <2>1. ~interrupted /\ Quiescent => open = {}
    BY DEF IInv, Orderly, Quiescent
  <2>2. ASSUME NEW session \in open, session.field \in Temporary PROVE UnderWay(session.start)
    BY <2>2 DEF IInv, TemporaryAwaited, Temporary, UnderWay, Awaits
  <2>3. QED
    BY <2>1, <2>2 DEF StopClosesAll
<1>2. QED
  BY <1>1, XctestInvariant, PTL
=============================================================================
