---------------------------- MODULE ServicesProofs ----------------------------
(***************************************************************************)
(* Theorems about module Services, for any calls of any of its functions.  *)
(***************************************************************************)
EXTENDS Services, SequenceTheorems, TLAPS

---------------------------------------------------------------------------
(* The inductive invariant.                                                *)

Requests == {"list", "pair", "connect", "connectSSL", "getValue", "session", "handshake", "service"}
Steps == [asks : Requests, fresh : BOOLEAN, closes : BOOLEAN]
Layers == {"mux", "tunnel", "tls"}
SocketStates == [layer : Layers, state : {"connecting", "open", "ended", "destroyed"}]
CallStates == [kind : Kinds \cup {"none"}, old : BOOLEAN, ssl : BOOLEAN,
               phase : {"idle", "connecting", "waiting", "returned", "failed"}, todo : Seq(Steps),
               usbmux : Nat, lockdown : Nat, opened : SUBSET Nat, returned : Nat,
               layer : Layers \cup {"none"}, ended : BOOLEAN]

TypeOK ==
  /\ passes \in BOOLEAN
  /\ calls \in [Calls -> CallStates]
  /\ sockets \in Seq(SocketStates)
  /\ passes => Passed \in DOMAIN sockets /\ sockets[Passed].state # "connecting"

\* A step that opens a socket asks usbmuxd, and one that closes it is the last to use it.
Sensible(step) ==
  /\ step.fresh => step.asks \in {"list", "pair"}
  /\ step.closes => step.fresh \/ step.asks = "getValue"

\* A request that a Lockdown client makes once the Usbmux has handed its socket over.
ByLockdown(step) == step.asks = "service" \/ (step.asks = "getValue" /\ ~step.closes)

\* What may be asked next on a socket, after step: nothing else is understood there.
Follows(step, next) ==
  /\ step.closes <=> next.fresh
  /\ ~next.fresh =>
       /\ next.asks \in {"list", "pair", "connect", "connectSSL"} => step.asks \in {"list", "pair"}
       /\ next.asks \in {"session", "handshake"} \/ (next.asks = "getValue" /\ next.closes) => step.asks = "connect"
       /\ next.asks = "service" => step.asks = "session"
       /\ next.asks = "getValue" /\ ~next.closes => step.asks = "session" \/ (step.asks = "getValue" /\ ~step.closes)

Ordered(steps) ==
  /\ \A i \in DOMAIN steps : Sensible(steps[i])
  /\ \A i, j \in DOMAIN steps : j = i + 1 => Follows(steps[i], steps[j])
  /\ \A i, j \in DOMAIN steps : steps[i].asks = "session" /\ steps[j].asks = "session" => i = j
  /\ \A i \in DOMAIN steps : steps[i].asks = "service" => i = Len(steps)

\* The request that makes a connection what it is to be.
Connecting(ssl, old) == IF ~ssl THEN "connect" ELSE IF old THEN "handshake" ELSE "connectSSL"

\* The last step of a call that was not passed a socket.
EndsWith(kind, ssl, old, step) ==
  /\ kind \in {"getConnectedDevices", "getOSVersion"} => step.closes
  /\ kind = "startLockdownSession" => step.asks = "session"
  /\ kind = "getDeviceTime" => ByLockdown(step) /\ step.asks = "getValue"
  /\ kind = "connectPort" => step.asks = "connect"
  /\ kind = "connectPortSSL" => step.asks = Connecting(TRUE, old)
  /\ kind \in ServiceKinds => step.asks \in {"service", Connecting(ssl, old)}

Scripted(call) ==
  /\ Ordered(call.todo)
  /\ ~passes => \A i \in DOMAIN call.todo : i = Len(call.todo) => EndsWith(call.kind, call.ssl, call.old, call.todo[i])

Working(call) == call.phase \in {"connecting", "waiting"}

\* The sockets of a call: those that it has opened, or the one that was passed.
Mine(call) == IF passes THEN {Passed} ELSE call.opened

\* What a call holds while it works: a Usbmux until its socket is handed over, and then
\* a Lockdown client, whose session is the only one.
Holds(call, socks) ==
  /\ call.opened \subseteq DOMAIN socks /\ NoSocket \notin call.opened
  /\ passes => call.opened = {}
  /\ \A k \in {call.usbmux, call.lockdown, call.returned} : k \in Mine(call) \cup {NoSocket}
  /\ ~Working(call) => call.usbmux = NoSocket /\ call.lockdown = NoSocket
  /\ Working(call) =>
       /\ call.todo # <<>> /\ call.returned = NoSocket /\ call.kind # "none"
       /\ call.lockdown # NoSocket =>
            /\ ~passes => call.lockdown # call.usbmux
            /\ socks[call.lockdown].state # "connecting"
            /\ \A i \in DOMAIN call.todo : call.todo[i].asks # "session"
  /\ call.phase = "connecting" =>
       /\ ~passes /\ call.usbmux # NoSocket /\ call.todo[1].fresh
       /\ socks[call.usbmux].state = "connecting" /\ socks[call.usbmux].layer = "mux"
  /\ call.phase = "waiting" =>
       /\ call.usbmux = NoSocket <=> ByLockdown(call.todo[1])
       /\ call.usbmux = NoSocket => call.lockdown # NoSocket
       /\ call.usbmux # NoSocket => socks[call.usbmux].state # "connecting"

\* The parts of the properties that are about one call.
Lost(call, socks) ==
  \A k \in call.opened :
    socks[k].state \in {"connecting", "open"} => k \in {call.usbmux, call.lockdown, call.returned}
Usable(call, socks) ==
  ~passes /\ call.phase = "returned" /\ call.returned # NoSocket =>
    /\ socks[call.returned].state # "ended"
    /\ socks[call.returned].layer = "tls" <=> \/ call.kind = "startLockdownSession"
                                              \/ call.kind = "connectPortSSL" /\ ~call.old
                                              \/ call.kind \in ServiceKinds /\ call.ssl /\ ~call.old
Understood(call) ==
  ~passes /\ call.phase = "waiting" => call.layer \in Speaks(call.todo[1].asks) /\ ~call.ended

Sound(call, socks) ==
  /\ Working(call) => Scripted(call)
  /\ Holds(call, socks) /\ Lost(call, socks) /\ Usable(call, socks) /\ Understood(call)

Apart == \A c, d \in Calls : c # d => calls[c].opened \cap calls[d].opened = {}

IInv == TypeOK /\ Apart /\ \A c \in Calls : Sound(calls[c], sockets)


---------------------------------------------------------------------------
(* The scripts.                                                            *)

\* The fields of the steps a script is built from.
LEMMA StepFields ==
  ASSUME NEW what \in Requests
  PROVE  /\ Asks(what) \in Steps /\ Asks(what).asks = what /\ ~Asks(what).fresh /\ ~Asks(what).closes
         /\ Fresh(what) \in Steps /\ Fresh(what).asks = what /\ Fresh(what).fresh /\ ~Fresh(what).closes
         /\ Closing(Asks(what)) \in Steps /\ Closing(Asks(what)).asks = what /\ ~Closing(Asks(what)).fresh /\ Closing(Asks(what)).closes
         /\ Closing(Fresh(what)) \in Steps /\ Closing(Fresh(what)).asks = what /\ Closing(Fresh(what)).fresh /\ Closing(Fresh(what)).closes
<1>1. Asks(what) \in Steps /\ Asks(what).asks = what /\ ~Asks(what).fresh /\ ~Asks(what).closes
  BY DEF Asks, Steps
<1>2. Fresh(what) \in Steps /\ Fresh(what).asks = what /\ Fresh(what).fresh /\ ~Fresh(what).closes
  BY <1>1 DEF Fresh, Steps
<1>3. \A s \in Steps : Closing(s) \in Steps /\ Closing(s).asks = s.asks /\ Closing(s).fresh = s.fresh /\ Closing(s).closes
  BY DEF Closing, Steps
<1>4. QED
  BY <1>1, <1>2, <1>3

\* A script as a sequence of steps in order, from the first to the last of them.
FromTo(steps, first, last) ==
  /\ steps \in Seq(Steps) /\ Len(steps) \in Nat \ {0} /\ Ordered(steps)
  /\ steps[1] = first /\ steps[Len(steps)] = last

\* A sensible step alone is a script in order.
LEMMA One ==
  ASSUME NEW a \in Steps, Sensible(a)
  PROVE  FromTo(<<a>>, a, a)
BY DEF FromTo, Ordered

\* Two scripts that follow one on the other are one script.
LEMMA Joined ==
  ASSUME NEW s, NEW t, NEW a, NEW b, NEW d, NEW e, FromTo(s, a, b), FromTo(t, d, e), Follows(b, d),
         \A i \in DOMAIN s : s[i].asks # "service",
         \/ \A i \in DOMAIN s : s[i].asks # "session"
         \/ \A i \in DOMAIN t : t[i].asks # "session"
  PROVE  FromTo(s \o t, a, e)
<1> DEFINE u == s \o t
<1>1. /\ s \in Seq(Steps) /\ t \in Seq(Steps) /\ Len(s) \in Nat \ {0} /\ Len(t) \in Nat \ {0}
      /\ DOMAIN s = 1 .. Len(s) /\ DOMAIN t = 1 .. Len(t)
      /\ s[1] = a /\ s[Len(s)] = b /\ t[1] = d /\ t[Len(t)] = e
  BY DEF FromTo
<1>2. /\ u \in Seq(Steps) /\ Len(u) = Len(s) + Len(t) /\ DOMAIN u = 1 .. Len(s) + Len(t)
      /\ \A i \in 1 .. Len(s) : u[i] = s[i]
      /\ \A i \in 1 .. Len(t) : u[Len(s) + i] = t[i]
  BY <1>1, ConcatProperties
<1> HIDE DEF u
<1>3. \A i \in DOMAIN u : \/ i \in DOMAIN s /\ u[i] = s[i]
                          \/ i - Len(s) \in DOMAIN t /\ u[i] = t[i - Len(s)]
  BY <1>1, <1>2
<1>4. \A i \in DOMAIN u : Sensible(u[i])
  BY <1>3 DEF FromTo, Ordered
<1>5. ASSUME NEW i \in DOMAIN u, NEW j \in DOMAIN u, j = i + 1
      PROVE  Follows(u[i], u[j])
  <2>1. CASE i \in DOMAIN s /\ j \in DOMAIN s
    BY <1>1, <1>2, <1>5, <2>1 DEF FromTo, Ordered
  <2>2. CASE i = Len(s)
    BY <1>1, <1>2, <1>5, <2>2
  <2>3. CASE i \notin DOMAIN s
    <3>1. i - Len(s) \in DOMAIN t /\ j - Len(s) \in DOMAIN t /\ j - Len(s) = (i - Len(s)) + 1
      BY <1>1, <1>2, <1>5, <2>3
    <3>2. u[i] = t[i - Len(s)] /\ u[j] = t[j - Len(s)]
      BY <1>1, <1>2, <1>3, <1>5, <2>3
    <3>3. QED
      BY <3>1, <3>2 DEF FromTo, Ordered
  <2>4. QED
    BY <1>1, <1>2, <1>5, <2>1, <2>2, <2>3
<1>6. ASSUME NEW i \in DOMAIN u, NEW j \in DOMAIN u, u[i].asks = "session", u[j].asks = "session"
      PROVE  i = j
  <2>1. CASE i \in DOMAIN s /\ j \in DOMAIN s
    BY <1>1, <1>2, <1>6, <2>1 DEF FromTo, Ordered
  <2>2. CASE i \notin DOMAIN s /\ j \notin DOMAIN s
    <3>1. i - Len(s) \in DOMAIN t /\ j - Len(s) \in DOMAIN t /\ u[i] = t[i - Len(s)] /\ u[j] = t[j - Len(s)]
      BY <1>3, <2>2
    <3>2. i - Len(s) = j - Len(s)
      BY <1>6, <3>1 DEF FromTo, Ordered
    <3>3. QED
      BY <1>1, <1>2, <3>2
  <2>3. CASE i \in DOMAIN s /\ j \notin DOMAIN s
    BY <1>1, <1>2, <1>3, <1>6, <2>3
  <2>4. CASE i \notin DOMAIN s /\ j \in DOMAIN s
    BY <1>1, <1>2, <1>3, <1>6, <2>4
  <2>5. QED
    BY <2>1, <2>2, <2>3, <2>4
<1>7. ASSUME NEW i \in DOMAIN u, u[i].asks = "service"
      PROVE  i = Len(u)
  <2>0. i \in 1 .. Len(s) + Len(t)
    BY <1>2
  <2>1. i - Len(s) \in DOMAIN t /\ u[i] = t[i - Len(s)]
    BY <1>1, <1>2, <1>3, <1>7
  <2>2. i - Len(s) = Len(t)
    BY <1>7, <2>1 DEF FromTo, Ordered
  <2>3. QED
    <3>1. Len(s) \in Nat /\ Len(t) \in Nat /\ Len(u) = Len(s) + Len(t) /\ i \in Int
      BY <1>1, <1>2, <2>0
    <3>2. QED
      BY <2>2, <3>1
<1>8. u[1] = a /\ u[Len(u)] = e
  BY <1>1, <1>2
<1>9. Len(u) \in Nat \ {0}
  BY <1>1, <1>2
<1>10. FromTo(u, a, e)
  BY <1>2, <1>4, <1>5, <1>6, <1>7, <1>8, <1>9 DEF FromTo, Ordered
<1>11. QED
  BY <1>10 DEF u

Without(what, steps) == \A i \in DOMAIN steps : steps[i].asks # what

\* A request in neither of two scripts is not in both joined.
LEMMA JoinedWithout ==
  ASSUME NEW what, NEW s \in Seq(Steps), NEW t \in Seq(Steps), Without(what, s), Without(what, t)
  PROVE  Without(what, s \o t)
<1> DEFINE u == s \o t
<1>0. DOMAIN s = 1 .. Len(s) /\ DOMAIN t = 1 .. Len(t) /\ Len(s) \in Nat /\ Len(t) \in Nat
  OBVIOUS
<1>1. /\ u \in Seq(Steps) /\ Len(u) = Len(s) + Len(t) /\ DOMAIN u = 1 .. Len(s) + Len(t)
      /\ \A i \in 1 .. Len(s) : u[i] = s[i]
      /\ \A i \in 1 .. Len(t) : u[Len(s) + i] = t[i]
  BY ConcatProperties
<1> HIDE DEF u
<1>2. \A i \in DOMAIN u : \/ i \in DOMAIN s /\ u[i] = s[i]
                          \/ i - Len(s) \in DOMAIN t /\ u[i] = t[i - Len(s)]
  BY <1>0, <1>1
<1>3. QED
  BY <1>2 DEF Without, u

\* The script of a value read on a socket of its own, which it closes.
LEMMA ValueScript ==
  /\ FromTo(Value, Fresh("list"), Closing(Asks("getValue")))
  /\ \A i \in DOMAIN Value : Value[i].asks \notin {"session", "service"}
<1> DEFINE a == Fresh("list")
<1> DEFINE b == Asks("connect")
<1> DEFINE d == Closing(Asks("getValue"))
<1>1. /\ a \in Steps /\ b \in Steps /\ d \in Steps
      /\ a.asks = "list" /\ a.fresh /\ ~a.closes
      /\ b.asks = "connect" /\ ~b.fresh /\ ~b.closes
      /\ d.asks = "getValue" /\ ~d.fresh /\ d.closes
  BY StepFields DEF Requests
<1>2. Value = <<a, b, d>>
  BY DEF Value
<1> HIDE DEF a, b, d
<1>3. Sensible(a) /\ Sensible(b) /\ Sensible(d) /\ Follows(a, b) /\ Follows(b, d)
  BY <1>1 DEF Sensible, Follows, ByLockdown
<1>4. Ordered(<<a, b, d>>)
  BY <1>1, <1>3 DEF Ordered
<1>5. QED
  BY <1>1, <1>2, <1>4 DEF FromTo, a, b, d


\* The script of startLockdownSession.
LEMMA SessionScript ==
  /\ FromTo(Session, Fresh("pair"), Asks("session"))
  /\ \A i \in DOMAIN Session : Session[i].asks # "service"
<1> DEFINE a == Fresh("pair")
<1> DEFINE b == Asks("list")
<1> DEFINE d == Asks("connect")
<1> DEFINE e == Asks("session")
<1>1. /\ a \in Steps /\ b \in Steps /\ d \in Steps /\ e \in Steps
      /\ a.asks = "pair" /\ a.fresh /\ ~a.closes
      /\ b.asks = "list" /\ ~b.fresh /\ ~b.closes
      /\ d.asks = "connect" /\ ~d.fresh /\ ~d.closes
      /\ e.asks = "session" /\ ~e.fresh /\ ~e.closes
  BY StepFields DEF Requests
<1>2. Session = <<a, b, d, e>>
  BY DEF Session
<1> HIDE DEF a, b, d, e
<1>3. Sensible(a) /\ Sensible(b) /\ Sensible(d) /\ Sensible(e) /\ Follows(a, b) /\ Follows(b, d) /\ Follows(d, e)
  BY <1>1 DEF Sensible, Follows, ByLockdown
<1>4. Ordered(<<a, b, d, e>>)
  BY <1>1, <1>3 DEF Ordered
<1>5. QED
  BY <1>1, <1>2, <1>4 DEF FromTo, a, b, d, e

\* The connection to a service opens a socket of its own, and ends with what it is to be.
LEMMA ConnectionScript ==
  ASSUME NEW ssl \in BOOLEAN, NEW old \in BOOLEAN
  PROVE  /\ FromTo(Connection(ssl, old), Fresh("list"), Asks(Connecting(ssl, old)))
         /\ \A i \in DOMAIN Connection(ssl, old) : Connection(ssl, old)[i].asks \notin {"session", "service"}
<1> DEFINE a == Fresh("list")
<1> DEFINE b == Asks("pair")
<1> DEFINE d == Asks("connect")
<1> DEFINE e == Asks("handshake")
<1> DEFINE f == Asks("connectSSL")
<1>1. /\ a \in Steps /\ b \in Steps /\ d \in Steps /\ e \in Steps /\ f \in Steps
      /\ a.asks = "list" /\ a.fresh /\ ~a.closes
      /\ b.asks = "pair" /\ ~b.fresh /\ ~b.closes
      /\ d.asks = "connect" /\ ~d.fresh /\ ~d.closes
      /\ e.asks = "handshake" /\ ~e.fresh /\ ~e.closes
      /\ f.asks = "connectSSL" /\ ~f.fresh /\ ~f.closes
  BY StepFields DEF Requests
<1>2. Connection(ssl, old) = IF ~ssl THEN <<a, d>> ELSE IF old THEN <<a, b, d, e>> ELSE <<a, b, f>>
  BY DEF Connection
<1>3. Asks(Connecting(ssl, old)) = IF ~ssl THEN d ELSE IF old THEN e ELSE f
  BY DEF Connecting
<1> HIDE DEF a, b, d, e, f
<1>4. /\ Sensible(a) /\ Sensible(b) /\ Sensible(d) /\ Sensible(e) /\ Sensible(f)
      /\ Follows(a, d) /\ Follows(a, b) /\ Follows(b, d) /\ Follows(d, e) /\ Follows(b, f)
  BY <1>1 DEF Sensible, Follows, ByLockdown
<1>5. Ordered(<<a, d>>) /\ Ordered(<<a, b, d, e>>) /\ Ordered(<<a, b, f>>)
  <2>1. Ordered(<<a, d>>)
    BY <1>1, <1>4 DEF Ordered
  <2>2. Ordered(<<a, b, d, e>>)
    BY <1>1, <1>4 DEF Ordered
  <2>3. Ordered(<<a, b, f>>)
    BY <1>1, <1>4 DEF Ordered
  <2>4. QED
    BY <2>1, <2>2, <2>3
<1>6. CASE ~ssl
  BY <1>1, <1>2, <1>3, <1>5, <1>6 DEF FromTo, a
<1>7. CASE ssl /\ old
  BY <1>1, <1>2, <1>3, <1>5, <1>7 DEF FromTo, a
<1>8. CASE ssl /\ ~old
  BY <1>1, <1>2, <1>3, <1>5, <1>8 DEF FromTo, a
<1>9. QED
  BY <1>6, <1>7, <1>8

\* The script of getDeviceTime: three values read in a session.
LEMMA TimeScript ==
  LET t == Session \o <<Asks("getValue"), Asks("getValue"), Asks("getValue")>>
  IN  FromTo(t, Fresh("pair"), Asks("getValue"))
<1> DEFINE g == Asks("getValue")
<1> DEFINE s == Asks("session")
<1>1. g \in Steps /\ g.asks = "getValue" /\ ~g.fresh /\ ~g.closes /\ s.asks = "session" /\ ~s.closes
  BY StepFields DEF Requests
<1> HIDE DEF g
<1>2. Sensible(g) /\ Follows(g, g) /\ Follows(s, g)
  BY <1>1 DEF Sensible, Follows, ByLockdown
<1>3. FromTo(<<g, g, g>>, g, g) /\ \A i \in DOMAIN <<g, g, g>> : <<g, g, g>>[i].asks # "session"
  BY <1>1, <1>2 DEF FromTo, Ordered
<1> HIDE DEF s
<1>4. FromTo(Session \o <<g, g, g>>, Fresh("pair"), g)
  BY <1>2, <1>3, SessionScript, Joined DEF s
<1>5. QED
  BY <1>4 DEF g

\* A session and the start of a service in it.
LEMMA ServiceScript ==
  LET t == Session \o <<Asks("service")>>
  IN  FromTo(t, Fresh("pair"), Asks("service"))
<1> DEFINE v == Asks("service")
<1> DEFINE s == Asks("session")
<1>1. v \in Steps /\ v.asks = "service" /\ ~v.fresh /\ ~v.closes /\ s.asks = "session" /\ ~s.closes
  BY StepFields DEF Requests
<1> HIDE DEF v
<1>2. Sensible(v) /\ Follows(s, v)
  BY <1>1 DEF Sensible, Follows, ByLockdown
<1>3. FromTo(<<v>>, v, v) /\ \A i \in DOMAIN <<v>> : <<v>>[i].asks # "session"
  BY <1>1, <1>2, One
<1> HIDE DEF s
<1>4. FromTo(Session \o <<v>>, Fresh("pair"), v)
  BY <1>2, <1>3, SessionScript, Joined DEF s
<1>5. QED
  BY <1>4 DEF v

\* The same after the version of the device was read on a socket of its own.
LEMMA LongScript ==
  LET t == Value \o Session \o <<Asks("service")>>
  IN  FromTo(t, Fresh("list"), Asks("service"))
<1> DEFINE v == Asks("service")
<1> DEFINE s == Asks("session")
<1> DEFINE p == Fresh("pair")
<1> DEFINE d == Closing(Asks("getValue"))
<1>1. /\ v \in Steps /\ v.asks = "service" /\ ~v.fresh /\ ~v.closes /\ s.asks = "session" /\ ~s.closes
      /\ d.closes /\ p.fresh
  BY StepFields DEF Requests
<1> HIDE DEF v, p, d
<1>2. Sensible(v) /\ Follows(s, v) /\ Follows(d, p)
  BY <1>1 DEF Sensible, Follows, ByLockdown
<1> HIDE DEF s
<1>3. FromTo(<<v>>, v, v) /\ \A i \in DOMAIN <<v>> : <<v>>[i].asks # "session"
  BY <1>1, <1>2, One
<1> DEFINE t == Value \o Session
<1>4. /\ FromTo(t, Fresh("list"), s)
      /\ \A i \in DOMAIN t : t[i].asks # "service"
  <2>1. /\ FromTo(Value, Fresh("list"), d) /\ FromTo(Session, p, s)
        /\ \A i \in DOMAIN Value : Value[i].asks # "session"
        /\ \A i \in DOMAIN Value : Value[i].asks # "service"
        /\ \A i \in DOMAIN Session : Session[i].asks # "service"
    BY ValueScript, SessionScript DEF s, p, d
  <2>2. FromTo(Value \o Session, Fresh("list"), s)
    BY <1>2, <2>1, Joined
  <2>3. /\ Value \in Seq(Steps) /\ Session \in Seq(Steps)
        /\ Without("service", Value) /\ Without("service", Session)
    BY <2>1 DEF FromTo, Without
  <2>4. Without("service", Value \o Session)
    BY <2>3, JoinedWithout
  <2>5. QED
    BY <2>2, <2>4 DEF Without
<1> HIDE DEF t
<1>5. FromTo(t \o <<v>>, Fresh("list"), v)
  BY <1>2, <1>3, <1>4, Joined
<1>6. QED
  BY <1>5 DEF v, t

\* What a function does begins with a socket of its own, and ends as it is to.
Begins(kind, old, t) ==
  \E first, last \in Steps :
    /\ FromTo(t, first, last) /\ first.fresh
    /\ ~passes => \A ssl \in BOOLEAN : EndsWith(kind, ssl, old, last)

\* The script of each entry point, for either version, begins on a fresh socket and is in order.
LEMMA ScriptsInOrder ==
  ASSUME ServicesAssumption, NEW kind \in Kinds, NEW old \in BOOLEAN
  PROVE  Begins(kind, old, Script(kind, old))
<1>1. kind \in SessionKinds \cup ServiceKinds \cup UsbmuxKinds
  BY ServicesAssumption
<1>2. CASE kind = "getConnectedDevices"
  <2>1. Script(kind, old) = <<Closing(Fresh("list"))>>
    BY <1>2, Zenon DEF Script
  <2>2. /\ Closing(Fresh("list")) \in Steps /\ Sensible(Closing(Fresh("list")))
        /\ Closing(Fresh("list")).fresh /\ Closing(Fresh("list")).closes
    BY StepFields DEF Requests, Sensible
  <2>3. FromTo(Script(kind, old), Closing(Fresh("list")), Closing(Fresh("list")))
    BY <2>1, <2>2, One
  <2>4. QED
    BY <1>2, <2>2, <2>3 DEF Begins, EndsWith, ServiceKinds
<1>3. CASE kind = "getOSVersion" \/ (kind = "startWebInspectorService" /\ passes)
  <2>1. Script(kind, old) = Value
    BY <1>3, Zenon DEF Script
  <2>2. /\ Fresh("list") \in Steps /\ Fresh("list").fresh
        /\ Closing(Asks("getValue")) \in Steps /\ Closing(Asks("getValue")).closes
    BY StepFields DEF Requests
  <2>3. QED
    BY <1>3, <2>1, <2>2, ValueScript DEF Begins, EndsWith, ServiceKinds
<1>4. CASE kind = "startLockdownSession"
  <2>1. Script(kind, old) = Session
    BY <1>4, Zenon DEF Script
  <2>2. /\ Fresh("pair") \in Steps /\ Fresh("pair").fresh
        /\ Asks("session") \in Steps /\ Asks("session").asks = "session"
    BY StepFields DEF Requests
  <2>3. QED
    BY <1>4, <2>1, <2>2, SessionScript DEF Begins, EndsWith, ServiceKinds
<1>5. CASE kind = "getDeviceTime"
  <2>1. Script(kind, old) = Session \o <<Asks("getValue"), Asks("getValue"), Asks("getValue")>>
    BY <1>5, Zenon DEF Script
  <2>2. /\ Fresh("pair") \in Steps /\ Fresh("pair").fresh
        /\ Asks("getValue") \in Steps /\ Asks("getValue").asks = "getValue" /\ ~Asks("getValue").closes
    BY StepFields DEF Requests
  <2>3. FromTo(Script(kind, old), Fresh("pair"), Asks("getValue"))
    BY <2>1, TimeScript
  <2>4. QED
    BY <1>5, <2>2, <2>3 DEF Begins, EndsWith, ServiceKinds, ByLockdown
<1>6. CASE kind = "connectPort" \/ kind = "connectPortSSL"
  <2> DEFINE ssl == kind = "connectPortSSL"
  <2>1. Script(kind, old) = Connection(ssl, old)
    <3>1. CASE kind = "connectPort"
      <4>1. Script(kind, old) = Connection(FALSE, old) /\ ~ssl
        BY <3>1, Zenon DEF Script
      <4>2. QED
        BY <4>1 DEF Connection
    <3>2. CASE kind = "connectPortSSL"
      <4>1. Script(kind, old) = Connection(TRUE, old) /\ ssl
        BY <3>2, Zenon DEF Script
      <4>2. QED
        BY <4>1 DEF Connection
    <3>3. QED
      BY <1>6, <3>1, <3>2
  <2>2. Fresh("list") \in Steps /\ Fresh("list").fresh
    BY StepFields DEF Requests
  <2>3. Connecting(ssl, old) \in Requests
    BY DEF Connecting, Requests
  <2>4. Asks(Connecting(ssl, old)) \in Steps /\ Asks(Connecting(ssl, old)).asks = Connecting(ssl, old)
    BY <2>3, StepFields
  <2>5. FromTo(Script(kind, old), Fresh("list"), Asks(Connecting(ssl, old)))
    BY <2>1, ConnectionScript
  <2>6. \A x \in BOOLEAN : EndsWith(kind, x, old, Asks(Connecting(ssl, old)))
    BY <1>6, <2>4 DEF EndsWith, ServiceKinds, Connecting
  <2>7. QED
    BY <2>2, <2>4, <2>5, <2>6 DEF Begins
<1>7. CASE kind = "startService"
  <2>1. Script(kind, old) = Session \o <<Asks("service")>>
    BY <1>7, Zenon DEF Script
  <2>2. /\ Fresh("pair") \in Steps /\ Fresh("pair").fresh
        /\ Asks("service") \in Steps /\ Asks("service").asks = "service"
    BY StepFields DEF Requests
  <2>3. FromTo(Script(kind, old), Fresh("pair"), Asks("service"))
    BY <2>1, ServiceScript
  <2>4. QED
    BY <1>7, <2>2, <2>3 DEF Begins, EndsWith, ServiceKinds
<1>8. CASE kind = "startInstrumentService" \/ (kind = "startWebInspectorService" /\ ~passes)
  <2>1. Script(kind, old) = Value \o Session \o <<Asks("service")>>
    BY <1>8, Zenon DEF Script
  <2>2. /\ Fresh("list") \in Steps /\ Fresh("list").fresh
        /\ Asks("service") \in Steps /\ Asks("service").asks = "service"
    BY StepFields DEF Requests
  <2>3. FromTo(Script(kind, old), Fresh("list"), Asks("service"))
    BY <2>1, LongScript
  <2>4. QED
    BY <1>8, <2>2, <2>3 DEF Begins, EndsWith, ServiceKinds
<1>9. QED
  BY <1>1, <1>2, <1>3, <1>4, <1>5, <1>6, <1>7, <1>8 DEF SessionKinds, ServiceKinds, UsbmuxKinds


---------------------------------------------------------------------------
(* What a call goes on to do.                                              *)

\* A call between an answer and what it does next.
Between(x, socks) ==
  /\ x \in CallStates /\ x.kind # "none" /\ x.returned = NoSocket
  /\ x.opened \subseteq DOMAIN socks /\ NoSocket \notin x.opened
  /\ passes => x.opened = {}
  /\ x.usbmux \in Mine(x) \cup {NoSocket} /\ x.lockdown \in Mine(x) \cup {NoSocket}
  /\ \A k \in x.opened : socks[k].state \in {"connecting", "open"} => k \in {x.usbmux, x.lockdown}
  /\ x.usbmux # NoSocket => socks[x.usbmux].state # "connecting"
  /\ x.lockdown # NoSocket =>
       /\ ~passes => x.lockdown # x.usbmux
       /\ socks[x.lockdown].state # "connecting"
       /\ \A i \in DOMAIN x.todo : x.todo[i].asks # "session"

\* One that makes its next request on the socket it has.
Ready(x, socks) ==
  /\ Between(x, socks) /\ x.todo # <<>> /\ Scripted(x)
  /\ x.usbmux = NoSocket <=> ByLockdown(x.todo[1])
  /\ x.usbmux = NoSocket => x.lockdown # NoSocket
  /\ ~passes => socks[Uses(x)].state = "open" /\ socks[Uses(x)].layer \in Speaks(x.todo[1].asks)

\* One that opens a socket for its next request, or takes the one that was passed.
Opens(x, socks) ==
  Between(x, socks) /\ x.todo # <<>> /\ Scripted(x) /\ x.todo[1].fresh /\ x.usbmux = NoSocket

\* One that has nothing left to ask, and what it has got.
Has(x, socks) ==
  /\ x.kind \in {"getConnectedDevices", "getOSVersion", "getDeviceTime", "startLockdownSession"} => x.usbmux = NoSocket
  /\ x.kind = "startLockdownSession" /\ x.lockdown # NoSocket =>
       socks[x.lockdown].state = "open" /\ socks[x.lockdown].layer = "tls"
  /\ x.kind \in ServiceKinds \cup {"connectPort", "connectPortSSL"} /\ x.usbmux # NoSocket =>
       /\ socks[x.usbmux].state = "open"
       /\ socks[x.usbmux].layer = "tls" <=> \/ x.kind = "connectPortSSL" /\ ~x.old
                                            \/ x.kind \in ServiceKinds /\ x.ssl /\ ~x.old

AtEnd(x, socks) == Between(x, socks) /\ x.todo = <<>> /\ (~passes => Has(x, socks))

\* What a step of a call leaves alone: the sockets of the others.
Spares(x, socks, next) ==
  /\ next.sockets \in Seq(SocketStates) /\ Len(socks) <= Len(next.sockets)
  /\ \A k \in DOMAIN socks : k \notin Mine(x) => next.sockets[k] = socks[k]
  /\ passes => next.sockets[Passed].state # "connecting"
  /\ \A k \in next.call.opened : k \in x.opened \/ k \notin DOMAIN socks

Socks(socks) ==
  /\ passes \in BOOLEAN /\ socks \in Seq(SocketStates)
  /\ passes => Passed \in DOMAIN socks /\ socks[Passed].state # "connecting"

\* A call that is ready to write its next request is sound when it has.
LEMMA WritesSound ==
  ASSUME NEW x, NEW socks, Socks(socks), Ready(x, socks)
  PROVE  LET next == Writes(x, socks)
         IN  next.call \in CallStates /\ Sound(next.call, next.sockets) /\ Spares(x, socks, next)
<1> DEFINE next == Writes(x, socks)
<1> DEFINE y == next.call
<1>1. next.sockets = socks
  BY DEF Writes
<1>2. /\ Uses(x) # NoSocket /\ Uses(x) \in DOMAIN socks
      /\ socks[Uses(x)] \in SocketStates
  <2>1. Mine(x) \subseteq DOMAIN socks
    BY DEF Mine, Ready, Between, Socks
  <2>2. Uses(x) # NoSocket /\ Uses(x) \in Mine(x)
    BY DEF Uses, Ready, Between
  <2>3. QED
    BY <2>1, <2>2 DEF Socks
<1>3. /\ x.kind = y.kind /\ x.old = y.old /\ x.ssl = y.ssl /\ x.todo = y.todo
      /\ x.usbmux = y.usbmux /\ x.lockdown = y.lockdown /\ x.opened = y.opened /\ x.returned = y.returned
      /\ y.phase = "waiting" /\ y.layer = socks[Uses(x)].layer /\ y.ended = (socks[Uses(x)].state = "ended")
      /\ y \in CallStates
  <2>1. x \in CallStates
    BY DEF Ready, Between
  <2>2. socks[Uses(x)].layer \in Layers
    BY <1>2 DEF SocketStates
  <2>3. QED
    BY <2>1, <2>2 DEF Writes, CallStates
<1> HIDE DEF y, next
<1>4. Scripted(y)
  BY <1>3 DEF Scripted, Ready
<1>5. Working(y) /\ Mine(y) = Mine(x)
  BY <1>3 DEF Working, Mine
<1>6. Holds(y, socks)
  BY <1>3, <1>5 DEF Holds, Ready, Between
<1>7. Lost(y, socks) /\ Usable(y, socks)
  BY <1>3 DEF Lost, Usable, Ready, Between
<1>8. Understood(y)
  BY <1>3 DEF Understood, Ready
<1>9. Spares(x, socks, next)
  BY <1>1, <1>3 DEF Spares, Socks, y
<1>10. QED
  BY <1>1, <1>3, <1>4, <1>6, <1>7, <1>8, <1>9 DEF Sound, y, next


\* A call that opens a socket for its next request, or takes the one passed, is sound.
LEMMA OpensSound ==
  ASSUME NEW x, NEW socks, Socks(socks), Opens(x, socks)
  PROVE  LET next == GoesOn(x, socks)
         IN  next.call \in CallStates /\ Sound(next.call, next.sockets) /\ Spares(x, socks, next)
<1>1. /\ x \in CallStates /\ x.todo \in Seq(Steps) /\ x.todo # <<>> /\ x.todo[1].fresh
      /\ Head(x.todo) = x.todo[1] /\ 1 \in DOMAIN x.todo
  BY DEF Opens, Between, CallStates
<1>2. Sensible(x.todo[1]) /\ ~ByLockdown(x.todo[1])
  BY <1>1 DEF Opens, Scripted, Ordered, Sensible, ByLockdown
<1>3. CASE passes
  <2> DEFINE z == [x EXCEPT !.usbmux = Passed]
  <2>1. /\ z.kind = x.kind /\ z.old = x.old /\ z.ssl = x.ssl /\ z.todo = x.todo /\ z.phase = x.phase
        /\ z.usbmux = Passed /\ z.lockdown = x.lockdown /\ z.opened = x.opened /\ z.returned = x.returned
        /\ z \in CallStates
    BY <1>1 DEF CallStates, Passed
  <2>2. GoesOn(x, socks) = Writes(z, socks)
    BY <1>1, <1>3 DEF GoesOn
  <2> HIDE DEF z
  <2>3. Mine(z) = {Passed} /\ Mine(x) = {Passed} /\ Passed # NoSocket
    BY <1>3 DEF Mine, Passed, NoSocket
  <2>4. Between(z, socks)
    BY <1>3, <2>1, <2>3 DEF Between, Opens, Socks
  <2>5. Scripted(z)
    BY <2>1 DEF Scripted, Opens
  <2>6. Ready(z, socks)
    BY <1>1, <1>2, <1>3, <2>1, <2>3, <2>4, <2>5 DEF Ready
  <2>7. /\ Writes(z, socks).call \in CallStates /\ Sound(Writes(z, socks).call, Writes(z, socks).sockets)
        /\ Spares(z, socks, Writes(z, socks))
    BY <2>6, WritesSound
  <2>8. Spares(x, socks, Writes(z, socks))
    BY <2>1, <2>3, <2>7 DEF Spares
  <2>9. QED
    BY <2>2, <2>7, <2>8
<1>4. CASE ~passes
  <2> DEFINE n == Len(socks) + 1
  <2> DEFINE new == [layer |-> "mux", state |-> "connecting"]
  <2> DEFINE y == [x EXCEPT !.phase = "connecting", !.usbmux = n, !.opened = @ \cup {n}]
  <2> DEFINE s == Append(socks, new)
  <2>1. GoesOn(x, socks) = [call |-> y, sockets |-> s]
    BY <1>1, <1>4 DEF GoesOn
  <2>2. /\ n \in Nat /\ n # NoSocket /\ n \notin DOMAIN socks /\ new \in SocketStates /\ DOMAIN socks = 1 .. Len(socks)
        /\ Len(socks) \in Nat
    BY DEF Socks, NoSocket, SocketStates, Layers
  <2>3. /\ s \in Seq(SocketStates) /\ Len(s) = n /\ s[n] = new
        /\ \A k \in DOMAIN socks : s[k] = socks[k] /\ k \in DOMAIN s
        /\ n \in DOMAIN s
    BY <2>2 DEF Socks
  <2>4. new.layer = "mux" /\ new.state = "connecting"
    OBVIOUS
  <2>5. /\ x.kind = y.kind /\ x.old = y.old /\ x.ssl = y.ssl /\ x.todo = y.todo
        /\ y.usbmux = n /\ x.lockdown = y.lockdown /\ y.opened = x.opened \cup {n} /\ x.returned = y.returned
        /\ y.phase = "connecting"
        /\ y \in CallStates
    BY <1>1, <2>2 DEF CallStates
  <2> HIDE DEF y, s, new, n
  <2>6. Scripted(y)
    BY <2>5 DEF Scripted, Opens
  <2>7. Working(y) /\ Mine(y) = Mine(x) \cup {n} /\ Mine(x) = x.opened
    BY <1>4, <2>5 DEF Working, Mine
  <2>8. x.opened \subseteq DOMAIN socks /\ x.lockdown \in x.opened \cup {NoSocket} /\ x.returned = NoSocket
    BY <2>7 DEF Opens, Between
  <2>9. Holds(y, s)
    BY <1>1, <1>4, <2>2, <2>3, <2>4, <2>5, <2>7, <2>8 DEF Holds, Opens, Between
  <2>10. Lost(y, s)
    BY <2>3, <2>5, <2>8 DEF Lost, Opens, Between
  <2>11. Usable(y, s) /\ Understood(y)
    BY <2>5 DEF Usable, Understood
  <2>12. Spares(x, socks, [call |-> y, sockets |-> s])
    BY <1>4, <2>2, <2>3, <2>5 DEF Spares
  <2>13. QED
    BY <2>1, <2>5, <2>6, <2>7, <2>9, <2>10, <2>11, <2>12 DEF Sound
<1>5. QED
  BY <1>3, <1>4


\* Ending a socket changes that socket only.
LEMMA EndedSocket ==
  ASSUME NEW socks \in Seq(SocketStates), NEW k \in DOMAIN socks \cup {NoSocket}
  PROVE  LET s == Ended(socks, k)
         IN  /\ s \in Seq(SocketStates) /\ Len(s) = Len(socks) /\ DOMAIN s = DOMAIN socks
             /\ \A j \in DOMAIN socks : j # k => s[j] = socks[j]
             /\ \A j \in DOMAIN socks : s[j].layer = socks[j].layer
             /\ \A j \in DOMAIN socks : s[j].state = IF j = k /\ socks[j].state = "open" THEN "ended" ELSE socks[j].state
<1>1. CASE k # NoSocket /\ socks[k].state = "open"
  <2> DEFINE e == [socks[k] EXCEPT !.state = "ended"]
  <2>0. socks[k] \in SocketStates
    BY <1>1
  <2>1. e \in SocketStates /\ e.layer = socks[k].layer /\ e.state = "ended"
    BY <2>0 DEF SocketStates
  <2>2. Ended(socks, k) = [socks EXCEPT ![k] = e]
    BY <1>1 DEF Ended
  <2> HIDE DEF e
  <2>3. k \in DOMAIN socks
    BY <1>1
  <2>4. /\ [socks EXCEPT ![k] = e] \in Seq(SocketStates) /\ Len([socks EXCEPT ![k] = e]) = Len(socks)
        /\ \A j \in DOMAIN socks : [socks EXCEPT ![k] = e][j] = IF j = k THEN e ELSE socks[j]
        /\ DOMAIN [socks EXCEPT ![k] = e] = DOMAIN socks
    BY <2>1, <2>3, ExceptSeq
  <2>5. QED
    BY <1>1, <2>1, <2>2, <2>4
<1>2. CASE ~(k # NoSocket /\ socks[k].state = "open")
  <2>1. Ended(socks, k) = socks
    BY <1>2 DEF Ended
  <2>2. \A j \in DOMAIN socks : j # NoSocket
    BY DEF NoSocket
  <2>3. QED
    BY <1>2, <2>1, <2>2
<1>3. QED
  BY <1>1, <1>2

\* The socket each entry point hands to its caller.
LEMMA Returned ==
  ASSUME ServicesAssumption, NEW x, x.kind \in Kinds
  PROVE  /\ x.kind = "startLockdownSession" => Result(x) = x.lockdown
         /\ x.kind \in {"getConnectedDevices", "getOSVersion", "getDeviceTime"} => Result(x) = NoSocket
         /\ x.kind = "startWebInspectorService" /\ passes => Result(x) = Passed
         /\ x.kind \in ServiceKinds \cup {"connectPort", "connectPortSSL"} => Result(x) \in {Passed, x.usbmux}
         /\ x.kind \in ServiceKinds \cup {"connectPort", "connectPortSSL"} /\ ~passes => Result(x) = x.usbmux
<1>1. x.kind = "startLockdownSession" => Result(x) = x.lockdown
  BY Zenon DEF Result, ServiceKinds
<1>2. x.kind = "getConnectedDevices" => Result(x) = NoSocket
  BY Zenon DEF Result, ServiceKinds
<1>3. x.kind = "getOSVersion" => Result(x) = NoSocket
  BY Zenon DEF Result, ServiceKinds
<1>4. x.kind = "getDeviceTime" => Result(x) = NoSocket
  BY Zenon DEF Result, ServiceKinds
<1>5. x.kind = "startWebInspectorService" /\ passes => Result(x) = Passed
  BY Zenon DEF Result, ServiceKinds
<1>6. x.kind \in ServiceKinds \cup {"connectPort", "connectPortSSL"} /\ ~(x.kind = "startWebInspectorService" /\ passes) =>
        Result(x) = x.usbmux
  <2>0. x.kind = "startWebInspectorService" /\ ~passes => Result(x) = x.usbmux
    BY Zenon DEF Result
  <2>3. x.kind \in {"startService", "startInstrumentService", "connectPort", "connectPortSSL"} => Result(x) = x.usbmux
    BY Zenon DEF Result
  <2>4. QED
    BY <2>0, <2>3 DEF ServiceKinds
<1>7. QED
  BY <1>1, <1>2, <1>3, <1>4, <1>5, <1>6

\* A call that has nothing left to ask returns soundly.
LEMMA EndsSound ==
  ASSUME ServicesAssumption, NEW x, NEW socks, Socks(socks), AtEnd(x, socks)
  PROVE  LET next == Returns(x, socks)
         IN  next.call \in CallStates /\ Sound(next.call, next.sockets) /\ Spares(x, socks, next)
<1> DEFINE next == Returns(x, socks)
<1> DEFINE y == next.call
<1> DEFINE s == next.sockets
<1>1. /\ x \in CallStates /\ x.kind \in Kinds /\ x.usbmux \in Mine(x) \cup {NoSocket} /\ x.lockdown \in Mine(x) \cup {NoSocket}
      /\ socks \in Seq(SocketStates) /\ DOMAIN socks = 1 .. Len(socks) /\ Len(socks) \in Nat
      /\ Mine(x) \subseteq DOMAIN socks /\ x.opened \subseteq DOMAIN socks
  BY DEF AtEnd, Between, CallStates, Socks, Mine
<1>2. /\ s \in Seq(SocketStates) /\ Len(s) = Len(socks) /\ DOMAIN s = DOMAIN socks
      /\ \A j \in DOMAIN socks : j # x.lockdown => s[j] = socks[j]
      /\ \A j \in DOMAIN socks : s[j].layer = socks[j].layer
      /\ x.kind = "startLockdownSession" => s = socks
      /\ x.kind # "startLockdownSession" =>
           \A j \in DOMAIN socks : s[j].state = IF j = x.lockdown /\ socks[j].state = "open" THEN "ended" ELSE socks[j].state
      /\ \A j \in DOMAIN socks : s[j].state = "connecting" => socks[j].state = "connecting"
  <2>1. CASE x.kind = "startLockdownSession"
    BY <1>1, <2>1 DEF Returns
  <2>2. CASE x.kind # "startLockdownSession"
    <3>1. s = Ended(socks, x.lockdown) /\ x.lockdown \in DOMAIN socks \cup {NoSocket}
      BY <1>1, <2>2 DEF Returns
    <3> HIDE DEF s
    <3>2. /\ s \in Seq(SocketStates) /\ Len(s) = Len(socks) /\ DOMAIN s = DOMAIN socks
          /\ \A j \in DOMAIN socks : j # x.lockdown => s[j] = socks[j]
          /\ \A j \in DOMAIN socks : s[j].layer = socks[j].layer
          /\ \A j \in DOMAIN socks :
               s[j].state = IF j = x.lockdown /\ socks[j].state = "open" THEN "ended" ELSE socks[j].state
      BY <1>1, <3>1, EndedSocket
    <3>3. QED
      BY <2>2, <3>2
  <2>3. QED
    BY <2>1, <2>2
<1>3. Result(x) \in Mine(x) \cup {NoSocket} /\ Result(x) \in Nat
  <2>1. Result(x) \in {x.usbmux, x.lockdown, NoSocket} \/ (passes /\ Result(x) = Passed)
    BY ServicesAssumption, <1>1, Returned DEF SessionKinds, ServiceKinds, UsbmuxKinds
  <2>2. QED
    BY <1>1, <2>1 DEF Mine, NoSocket, Passed, CallStates
<1>4. /\ x.kind = y.kind /\ x.old = y.old /\ x.ssl = y.ssl /\ x.todo = y.todo
      /\ y.usbmux = NoSocket /\ y.lockdown = NoSocket /\ y.opened = x.opened /\ y.returned = Result(x)
      /\ y.phase = "returned" /\ y \in CallStates
  BY <1>1, <1>3 DEF Returns, CallStates, NoSocket
<1> HIDE DEF y, s, next
<1>5. ~Working(y) /\ Mine(y) = Mine(x)
  BY <1>4 DEF Working, Mine
<1>6. Holds(y, s)
  BY <1>2, <1>3, <1>4, <1>5 DEF Holds, AtEnd, Between
<1>7. Lost(y, s)
  <2>1. ASSUME NEW k \in x.opened, s[k].state \in {"connecting", "open"}
        PROVE  k = Result(x)
    <3>1. k \in DOMAIN socks /\ socks[k].state \in {"connecting", "open"} /\ k # NoSocket /\ ~passes
      BY <1>1, <1>2, <2>1 DEF AtEnd, Between
    <3>2. k \in {x.usbmux, x.lockdown}
      BY <2>1, <3>1 DEF AtEnd, Between
    <3>3. CASE k = x.lockdown
      <4>1. socks[k].state # "connecting"
        BY <3>1, <3>3 DEF AtEnd, Between
      <4>2. x.kind = "startLockdownSession"
        BY <1>2, <2>1, <3>1, <3>3, <4>1
      <4>3. QED
        BY <1>1, <3>3, <4>2, Returned
    <3>4. CASE k = x.usbmux
      <4>1. x.kind \notin {"getConnectedDevices", "getOSVersion", "getDeviceTime", "startLockdownSession"}
        BY <3>1, <3>4 DEF AtEnd, Has
      <4>2. x.kind \in ServiceKinds \cup {"connectPort", "connectPortSSL"}
        BY ServicesAssumption, <1>1, <4>1 DEF SessionKinds, ServiceKinds, UsbmuxKinds
      <4>3. QED
        BY <1>1, <3>1, <3>4, <4>2, Returned
    <3>5. QED
      BY <3>2, <3>3, <3>4
  <2>2. QED
    BY <1>4, <2>1 DEF Lost
<1>8. Usable(y, s)
  <2>1. SUFFICES ASSUME ~passes, Result(x) # NoSocket
                 PROVE  /\ s[Result(x)].state # "ended"
                        /\ s[Result(x)].layer = "tls" <=> \/ x.kind = "startLockdownSession"
                                                          \/ x.kind = "connectPortSSL" /\ ~x.old
                                                          \/ x.kind \in ServiceKinds /\ x.ssl /\ ~x.old
    BY <1>4 DEF Usable
  <2>2. Result(x) \in DOMAIN socks
    BY <1>1, <1>3, <2>1
  <2>3. CASE x.kind = "startLockdownSession"
    <3>1. Result(x) = x.lockdown
      BY <1>1, <2>3, Returned
    <3>2. QED
      BY <1>2, <2>1, <2>3, <3>1 DEF AtEnd, Has
  <2>4. CASE x.kind \in ServiceKinds \cup {"connectPort", "connectPortSSL"}
    <3>1. Result(x) = x.usbmux
      BY <1>1, <2>1, <2>4, Returned
    <3>2. x.usbmux # x.lockdown /\ x.kind # "startLockdownSession"
      BY <2>1, <2>4, <3>1 DEF AtEnd, Has, Between, ServiceKinds
    <3>3. s[x.usbmux] = socks[x.usbmux]
      BY <1>2, <2>2, <3>1, <3>2
    <3>4. QED
      BY <2>1, <2>4, <3>1, <3>2, <3>3 DEF AtEnd, Has
  <2>5. QED
    <3>1. x.kind \notin {"getConnectedDevices", "getOSVersion", "getDeviceTime"}
      BY <1>1, <2>1, Returned
    <3>2. QED
      BY ServicesAssumption, <1>1, <2>3, <2>4, <3>1 DEF SessionKinds, ServiceKinds, UsbmuxKinds
<1>9. Understood(y)
  BY <1>4 DEF Understood
<1>10. Spares(x, socks, next)
  <2>1. \A k \in DOMAIN socks : k \notin Mine(x) => s[k] = socks[k]
    BY <1>1, <1>2 DEF NoSocket
  <2>2. passes => s[Passed].state # "connecting"
    BY <1>2 DEF Socks
  <2>3. Len(socks) <= Len(s)
    BY <1>1, <1>2
  <2>4. QED
    BY <1>1, <1>2, <1>4, <2>1, <2>2, <2>3 DEF Spares, y, s
<1>11. QED
  BY <1>4, <1>5, <1>6, <1>7, <1>8, <1>9, <1>10 DEF Sound, y, s, next

\* Whatever a call goes on to do leaves it sound.
LEMMA GoesOnSound ==
  ASSUME ServicesAssumption, NEW x, NEW socks, Socks(socks),
         (Ready(x, socks) /\ ~x.todo[1].fresh) \/ Opens(x, socks) \/ AtEnd(x, socks)
  PROVE  LET next == GoesOn(x, socks)
         IN  next.call \in CallStates /\ Sound(next.call, next.sockets) /\ Spares(x, socks, next)
<1>1. CASE Ready(x, socks) /\ ~x.todo[1].fresh
  <2>1. x.todo # <<>> /\ x.todo \in Seq(Steps) /\ Head(x.todo) = x.todo[1]
    BY <1>1 DEF Ready, Between, CallStates
  <2>2. GoesOn(x, socks) = Writes(x, socks)
    BY <1>1, <2>1 DEF GoesOn
  <2>3. QED
    BY <1>1, <2>2, WritesSound
<1>2. CASE Opens(x, socks)
  BY <1>2, OpensSound
<1>3. CASE AtEnd(x, socks)
  <2>1. GoesOn(x, socks) = Returns(x, socks)
    BY <1>3 DEF GoesOn, AtEnd
  <2>2. QED
    BY <1>3, <2>1, EndsSound
<1>4. QED
  BY <1>1, <1>2, <1>3


---------------------------------------------------------------------------
(* An answer.                                                              *)

\* What is left of a script after its first step.
LEMMA TailOfScript ==
  ASSUME NEW steps \in Seq(Steps), steps # <<>>, Ordered(steps)
  PROVE  LET t == Tail(steps)
         IN  /\ t \in Seq(Steps) /\ Ordered(t) /\ Len(t) \in Nat /\ DOMAIN t = 1 .. Len(t)
             /\ Len(steps) \in Nat /\ DOMAIN steps = 1 .. Len(steps) /\ Len(steps) = Len(t) + 1
             /\ 1 \in DOMAIN steps /\ Head(steps) = steps[1] /\ steps[1] \in Steps
             /\ \A i \in DOMAIN t : t[i] = steps[i + 1] /\ i + 1 \in DOMAIN steps
             /\ t # <<>> => 1 \in DOMAIN t /\ Follows(steps[1], t[1]) /\ steps[1].asks # "service"
             /\ steps[1].asks = "session" => \A i \in DOMAIN t : t[i].asks # "session"
<1> DEFINE t == Tail(steps)
<1>1. /\ t \in Seq(Steps) /\ Len(t) \in Nat /\ DOMAIN t = 1 .. Len(t)
      /\ Len(steps) \in Nat /\ DOMAIN steps = 1 .. Len(steps) /\ Len(steps) = Len(t) + 1
      /\ 1 \in DOMAIN steps /\ Head(steps) = steps[1] /\ steps[1] \in Steps
      /\ \A i \in DOMAIN t : t[i] = steps[i + 1] /\ i + 1 \in DOMAIN steps
  OBVIOUS
<1> HIDE DEF t
<1>2. Ordered(t)
  <2>1. \A i \in DOMAIN t : Sensible(t[i])
    BY <1>1 DEF Ordered
  <2>2. ASSUME NEW i \in DOMAIN t, NEW j \in DOMAIN t, j = i + 1
        PROVE  Follows(t[i], t[j])
    <3>1. i + 1 \in DOMAIN steps /\ j + 1 \in DOMAIN steps /\ j + 1 = (i + 1) + 1 /\ t[i] = steps[i + 1] /\ t[j] = steps[j + 1]
      BY <1>1, <2>2
    <3>2. QED
      BY <3>1 DEF Ordered
  <2>3. ASSUME NEW i \in DOMAIN t, NEW j \in DOMAIN t, t[i].asks = "session", t[j].asks = "session"
        PROVE  i = j
    <3>1. i + 1 = j + 1
      BY <1>1, <2>3 DEF Ordered
    <3>2. QED
      BY <1>1, <3>1
  <2>4. ASSUME NEW i \in DOMAIN t, t[i].asks = "service"
        PROVE  i = Len(t)
    <3>1. i + 1 = Len(steps)
      BY <1>1, <2>4 DEF Ordered
    <3>2. QED
      BY <1>1, <3>1
  <2>5. QED
    BY <2>1, <2>2, <2>3, <2>4 DEF Ordered
<1>3. t # <<>> => 1 \in DOMAIN t /\ Follows(steps[1], t[1]) /\ steps[1].asks # "service"
  <2>1. SUFFICES ASSUME t # <<>>
                 PROVE  1 \in DOMAIN t /\ Follows(steps[1], t[1]) /\ steps[1].asks # "service"
    OBVIOUS
  <2>2. Len(t) # 0
    BY <1>1, <2>1, EmptySeq
  <2>3. 1 \in DOMAIN t /\ 2 \in DOMAIN steps /\ t[1] = steps[2] /\ Len(steps) # 1
    BY <1>1, <2>2
  <2>4. QED
    BY <1>1, <2>3 DEF Ordered
<1>4. steps[1].asks = "session" => \A i \in DOMAIN t : t[i].asks # "session"
  <2>1. ASSUME steps[1].asks = "session", NEW i \in DOMAIN t, t[i].asks = "session"
        PROVE  FALSE
    <3>1. i + 1 = 1
      BY <1>1, <2>1 DEF Ordered
    <3>2. QED
      BY <1>1, <2>1, <3>1
  <2>2. QED
    BY <2>1
<1>5. QED
  BY <1>1, <1>2, <1>3, <1>4 DEF t

\* What is understood on the layers, and what an answer makes of them.
LEMMA LayersOfRequests ==
  ASSUME NEW asks \in Requests, NEW layer \in Layers
  PROVE  /\ asks \in {"list", "pair", "connect", "connectSSL"} => Speaks(asks) = {"mux"}
         /\ asks = "getValue" => Speaks(asks) = {"tunnel", "tls"}
         /\ asks \in {"session", "handshake"} => Speaks(asks) = {"tunnel"}
         /\ asks = "service" => Speaks(asks) = {"tls"}
         /\ asks = "connect" => Retuned(asks, layer) = "tunnel"
         /\ asks \in {"connectSSL", "session"} => Retuned(asks, layer) = "tls"
         /\ asks \notin {"connect", "connectSSL", "session"} => Retuned(asks, layer) = layer
         /\ Retuned(asks, layer) \in Layers
<1>1. asks \in {"list", "pair", "connect", "connectSSL"} => Speaks(asks) = {"mux"}
  BY Zenon DEF Speaks
<1>2. asks = "getValue" => Speaks(asks) = {"tunnel", "tls"}
  BY Zenon DEF Speaks
<1>3. asks \in {"session", "handshake"} => Speaks(asks) = {"tunnel"}
  BY Zenon DEF Speaks
<1>4. asks = "service" => Speaks(asks) = {"tls"}
  BY Zenon DEF Speaks
<1>5. asks = "connect" => Retuned(asks, layer) = "tunnel"
  BY Zenon DEF Retuned
<1>6. asks \in {"connectSSL", "session"} => Retuned(asks, layer) = "tls"
  BY Zenon DEF Retuned
<1>7. asks \notin {"connect", "connectSSL", "session"} => Retuned(asks, layer) = layer
  BY Zenon DEF Retuned
<1>8. Retuned(asks, layer) \in Layers
  BY <1>5, <1>6, <1>7 DEF Layers
<1>9. QED
  BY <1>1, <1>2, <1>3, <1>4, <1>5, <1>6, <1>7, <1>8


\* What an answer makes of the sockets.
Retunes(socks, k, step) ==
  LET retuned == [socks EXCEPT ![k].layer = Retuned(step.asks, @)]
  IN  IF step.closes THEN Ended(retuned, k) ELSE retuned

\* What an answer makes of the sockets changes only the one it came on.
LEMMA RetunedSocket ==
  ASSUME NEW socks \in Seq(SocketStates), NEW k \in DOMAIN socks, NEW step \in Steps, socks[k].state = "open", k # NoSocket
  PROVE  LET s == Retunes(socks, k, step)
         IN  /\ s \in Seq(SocketStates) /\ Len(s) = Len(socks) /\ DOMAIN s = DOMAIN socks
             /\ \A j \in DOMAIN socks : j # k => s[j] = socks[j]
             /\ s[k].layer = Retuned(step.asks, socks[k].layer)
             /\ s[k].state = IF step.closes THEN "ended" ELSE "open"
<1> DEFINE e == [socks[k] EXCEPT !.layer = Retuned(step.asks, @)]
<1> DEFINE r == [socks EXCEPT ![k] = e]
<1>1. socks[k] \in SocketStates
  OBVIOUS
<1>2. Retuned(step.asks, socks[k].layer) \in Layers
  BY <1>1, LayersOfRequests DEF SocketStates, Steps
<1>3. e \in SocketStates /\ e.layer = Retuned(step.asks, socks[k].layer) /\ e.state = "open"
  BY <1>1, <1>2 DEF SocketStates
<1>4. r = [socks EXCEPT ![k].layer = Retuned(step.asks, @)]
  OBVIOUS
<1> HIDE DEF e
<1>5. /\ r \in Seq(SocketStates) /\ Len(r) = Len(socks) /\ DOMAIN r = DOMAIN socks
      /\ \A j \in DOMAIN socks : r[j] = IF j = k THEN e ELSE socks[j]
  BY <1>3, ExceptSeq
<1> HIDE DEF r
<1>6. CASE step.closes
  <2>1. Retunes(socks, k, step) = Ended(r, k)
    BY <1>4, <1>6 DEF Retunes
  <2>2. k \in DOMAIN r \cup {NoSocket}
    BY <1>5
  <2>3. QED
    BY <1>3, <1>5, <1>6, <2>1, <2>2, EndedSocket
<1>7. CASE ~step.closes
  BY <1>3, <1>4, <1>5, <1>7 DEF Retunes
<1>8. QED
  BY <1>6, <1>7 DEF Steps

\* The call after an answer.
Advanced(call, k, step, ssl) ==
  [call EXCEPT
     !.todo = Tail(@) \o (IF step.asks = "service" THEN Connection(ssl, call.old) ELSE <<>>),
     !.ssl = ssl,
     !.lockdown = IF step.asks = "session" THEN k ELSE @,
     !.usbmux = IF step.closes \/ step.asks = "session" THEN NoSocket ELSE @]

\* A call that may be answered.
Answerable(call, socks) ==
  /\ call \in CallStates /\ Sound(call, socks) /\ call.phase = "waiting"
  /\ call.layer \in Speaks(call.todo[1].asks)
  /\ socks[Uses(call)].state = "open" /\ socks[Uses(call)].layer = call.layer

\* What is known of a call that may be answered.
LEMMA AnswerableFacts ==
  ASSUME ServicesAssumption, NEW call, NEW socks, Socks(socks), Answerable(call, socks)
  PROVE  /\ call.kind \in Kinds /\ Scripted(call) /\ call.todo \in Seq(Steps) /\ call.todo # <<>>
         /\ call.todo[1] \in Steps /\ Head(call.todo) = call.todo[1] /\ Sensible(call.todo[1])
         /\ Uses(call) \in Mine(call) /\ Mine(call) \subseteq DOMAIN socks
         /\ Uses(call) \in DOMAIN socks /\ Uses(call) # NoSocket
         /\ ByLockdown(call.todo[1]) => Uses(call) = call.lockdown /\ call.usbmux = NoSocket
         /\ ~ByLockdown(call.todo[1]) => Uses(call) = call.usbmux
<1>1. Working(call) /\ call \in CallStates /\ Holds(call, socks) /\ Scripted(call)
  BY DEF Answerable, Working, Sound
<1>2. call.kind \in Kinds /\ call.todo \in Seq(Steps) /\ call.todo # <<>>
  BY <1>1 DEF Holds, CallStates
<1>3. call.todo[1] \in Steps /\ Head(call.todo) = call.todo[1] /\ 1 \in DOMAIN call.todo
  BY <1>2
<1>4. Sensible(call.todo[1])
  BY <1>1, <1>3 DEF Scripted, Ordered
<1>5. Mine(call) \subseteq DOMAIN socks /\ NoSocket \notin Mine(call)
  BY <1>1 DEF Mine, Holds, Socks, NoSocket, Passed
<1>6. /\ call.usbmux \in Mine(call) \cup {NoSocket} /\ call.lockdown \in Mine(call) \cup {NoSocket}
      /\ call.usbmux = NoSocket <=> ByLockdown(call.todo[1])
      /\ call.usbmux = NoSocket => call.lockdown # NoSocket
  BY <1>1 DEF Holds, Answerable
<1>7. QED
  BY <1>1, <1>2, <1>3, <1>4, <1>5, <1>6 DEF Uses


\* After an answer a call is ready for what it does next, and has changed its own socket.
LEMMA AnsweredGoesOn ==
  ASSUME ServicesAssumption, NEW call, NEW socks, Socks(socks), Answerable(call, socks), NEW ssl \in BOOLEAN,
         call.todo[1].asks # "service" => ssl = call.ssl
  PROVE  LET k == Uses(call)
             s == Retunes(socks, k, call.todo[1])
             y == Advanced(call, k, call.todo[1], ssl)
         IN  /\ Socks(s)
             /\ (Ready(y, s) /\ ~y.todo[1].fresh) \/ Opens(y, s) \/ AtEnd(y, s)
             /\ y.opened = call.opened /\ Mine(y) = Mine(call)
             /\ Len(s) = Len(socks) /\ \A j \in DOMAIN socks : j \notin Mine(call) => s[j] = socks[j]
<1> DEFINE k == Uses(call)
<1> DEFINE step == call.todo[1]
<1> DEFINE s == Retunes(socks, k, step)
<1> DEFINE y == Advanced(call, k, step, ssl)
<1> DEFINE t == Tail(call.todo)
<1> DEFINE more == IF step.asks = "service" THEN Connection(ssl, call.old) ELSE <<>>
<1>1. /\ call.kind \in Kinds /\ Scripted(call) /\ call.todo \in Seq(Steps) /\ call.todo # <<>>
      /\ step \in Steps /\ Sensible(step) /\ k \in Mine(call) /\ Mine(call) \subseteq DOMAIN socks
      /\ k \in DOMAIN socks /\ k # NoSocket
      /\ ByLockdown(step) => k = call.lockdown /\ call.usbmux = NoSocket
      /\ ~ByLockdown(step) => k = call.usbmux
  BY AnswerableFacts
<1>2. /\ call \in CallStates /\ Holds(call, socks) /\ Lost(call, socks) /\ call.phase = "waiting" /\ Working(call)
      /\ socks[k].state = "open" /\ socks[k].layer = call.layer /\ call.layer \in Speaks(step.asks)
      /\ socks \in Seq(SocketStates) /\ call.layer \in Layers /\ step.asks \in Requests
  <2>1. call \in CallStates /\ Sound(call, socks) /\ call.phase = "waiting" /\ call.layer \in Speaks(step.asks)
        /\ socks[k].state = "open" /\ socks[k].layer = call.layer
    BY DEF Answerable
  <2>2. socks \in Seq(SocketStates) /\ socks[k] \in SocketStates
    BY <1>1 DEF Socks
  <2>3. QED
    BY <1>1, <2>1, <2>2 DEF Sound, Working, SocketStates, Steps
<1>3. /\ t \in Seq(Steps) /\ Ordered(t) /\ Len(t) \in Nat /\ DOMAIN t = 1 .. Len(t)
      /\ Len(call.todo) \in Nat /\ DOMAIN call.todo = 1 .. Len(call.todo) /\ Len(call.todo) = Len(t) + 1
      /\ 1 \in DOMAIN call.todo
      /\ \A i \in DOMAIN t : t[i] = call.todo[i + 1] /\ i + 1 \in DOMAIN call.todo
      /\ t # <<>> => 1 \in DOMAIN t /\ Follows(step, t[1]) /\ step.asks # "service"
      /\ step.asks = "session" => \A i \in DOMAIN t : t[i].asks # "session"
  BY <1>1, TailOfScript DEF Scripted
<1>4. /\ s \in Seq(SocketStates) /\ Len(s) = Len(socks) /\ DOMAIN s = DOMAIN socks
      /\ \A j \in DOMAIN socks : j # k => s[j] = socks[j]
      /\ s[k].layer = Retuned(step.asks, socks[k].layer)
      /\ s[k].state = IF step.closes THEN "ended" ELSE "open"
  BY <1>1, <1>2, RetunedSocket
<1>5. /\ Fresh("list") \in Steps /\ Fresh("list").fresh /\ Asks(Connecting(ssl, call.old)).asks = Connecting(ssl, call.old)
      /\ FromTo(Connection(ssl, call.old), Fresh("list"), Asks(Connecting(ssl, call.old)))
      /\ \A i \in DOMAIN Connection(ssl, call.old) : Connection(ssl, call.old)[i].asks # "session"
  <2>1. call.old \in BOOLEAN /\ Connecting(ssl, call.old) \in Requests
    BY <1>2 DEF CallStates, Connecting, Requests
  <2>2. Fresh("list") \in Steps /\ Fresh("list").fresh
    BY StepFields DEF Requests
  <2>3. QED
    BY <2>1, <2>2, StepFields, ConnectionScript
<1>6. more \in Seq(Steps)
  BY <1>5 DEF FromTo
<1>7. /\ y.kind = call.kind /\ y.old = call.old /\ y.ssl = ssl /\ y.todo = t \o more /\ y.returned = call.returned
      /\ y.usbmux = IF step.closes \/ step.asks = "session" THEN NoSocket ELSE call.usbmux
      /\ y.lockdown = IF step.asks = "session" THEN k ELSE call.lockdown
      /\ y.opened = call.opened /\ y.phase = call.phase
      /\ y \in CallStates
  <2>1. t \o more \in Seq(Steps) /\ NoSocket \in Nat /\ k \in Nat
    BY <1>1, <1>2, <1>3, <1>6 DEF NoSocket
  <2>2. QED
    BY <1>2, <2>1 DEF Advanced, CallStates
<1> HIDE DEF y, s, t, k, step
<1>8. Mine(y) = Mine(call)
  BY <1>7 DEF Mine
<1>9. Socks(s)
  BY <1>4 DEF Socks
<1>10. step.asks # "service" => y.todo = t
  BY <1>3, <1>7, ConcatEmptySeq
<1>11. step.asks = "service" => t = <<>> /\ y.todo = Connection(ssl, call.old)
  <2>1. step.asks = "service" => t = <<>>
    BY <1>3
  <2>2. Connection(ssl, call.old) \in Seq(Steps)
    BY <1>5 DEF FromTo
  <2>3. QED
    BY <1>7, <2>1, <2>2, ConcatEmptySeq
<1>12. \/ t = <<>> /\ step.asks # "service" /\ y.todo = <<>>
       \/ step.asks = "service" /\ y.todo = Connection(ssl, call.old)
       \/ t # <<>> /\ step.asks # "service" /\ y.todo = t
  BY <1>10, <1>11
<1>13. y.lockdown # NoSocket => \A i \in DOMAIN y.todo : y.todo[i].asks # "session"
  <2>1. CASE step.asks = "session"
    BY <1>3, <1>10, <2>1
  <2>2. CASE step.asks = "service"
    BY <1>5, <1>11, <2>2
  <2>3. CASE step.asks \notin {"session", "service"}
    <3>1. y.lockdown = call.lockdown /\ y.todo = t
      BY <1>7, <1>10, <2>3
    <3>2. call.lockdown # NoSocket => \A i \in DOMAIN call.todo : call.todo[i].asks # "session"
      BY <1>2 DEF Holds
    <3>3. QED
      BY <1>3, <3>1, <3>2
  <2>4. QED
    BY <2>1, <2>2, <2>3
<1>14. step.asks = "session" => /\ call.lockdown = NoSocket /\ k = call.usbmux /\ ~step.closes
                                /\ y.usbmux = NoSocket /\ y.lockdown = k
  <2>1. step.asks = "session" => call.lockdown = NoSocket
    BY <1>2, <1>3 DEF Holds, step
  <2>2. step.asks = "session" => ~ByLockdown(step) /\ ~step.closes
    BY <1>1 DEF ByLockdown, Sensible
  <2>3. QED
    BY <1>1, <1>7, <2>1, <2>2
<1>15. /\ call.opened \subseteq DOMAIN socks /\ NoSocket \notin call.opened /\ (passes => call.opened = {})
       /\ call.usbmux \in Mine(call) \cup {NoSocket} /\ call.lockdown \in Mine(call) \cup {NoSocket}
       /\ call.returned = NoSocket
       /\ call.usbmux # NoSocket => socks[call.usbmux].state # "connecting"
       /\ call.lockdown # NoSocket => socks[call.lockdown].state # "connecting"
       /\ call.lockdown # NoSocket /\ ~passes => call.lockdown # call.usbmux
       /\ call.usbmux = NoSocket <=> ByLockdown(step)
       /\ call.usbmux = NoSocket => call.lockdown # NoSocket
       /\ call.kind # "none"
  BY <1>2 DEF Holds, step
<1>16. \A j \in DOMAIN socks : s[j].state = "connecting" => socks[j].state = "connecting"
  BY <1>1, <1>4
<1>17. Between(y, s)
  <2>1. /\ y \in CallStates /\ y.kind # "none" /\ y.returned = NoSocket
        /\ y.opened \subseteq DOMAIN s /\ NoSocket \notin y.opened /\ (passes => y.opened = {})
    BY <1>4, <1>7, <1>15
  <2>2. y.usbmux \in Mine(y) \cup {NoSocket} /\ y.lockdown \in Mine(y) \cup {NoSocket}
    BY <1>1, <1>7, <1>8, <1>15
  <2>3. \A j \in y.opened : s[j].state \in {"connecting", "open"} => j \in {y.usbmux, y.lockdown}
    <3>1. ASSUME NEW j \in call.opened, s[j].state \in {"connecting", "open"}
          PROVE  j \in {y.usbmux, y.lockdown}
      <4>1. j \in DOMAIN socks /\ j # NoSocket
        BY <1>15, <3>1
      <4>2. socks[j].state \in {"connecting", "open"}
        BY <1>2, <1>4, <3>1, <4>1
      <4>3. j \in {call.usbmux, call.lockdown}
        BY <1>2, <1>15, <3>1, <4>1, <4>2 DEF Lost
      <4>4. j = k => ~step.closes
        BY <1>4, <3>1
      <4>5. CASE step.asks = "session"
        BY <1>14, <4>1, <4>3, <4>5
      <4>6. CASE step.asks # "session"
        BY <1>1, <1>7, <1>15, <4>1, <4>3, <4>4, <4>6
      <4>7. QED
        BY <4>5, <4>6
    <3>2. QED
      BY <1>7, <3>1
  <2>4. y.usbmux # NoSocket => s[y.usbmux].state # "connecting"
    BY <1>1, <1>7, <1>15, <1>16
  <2>5. y.lockdown # NoSocket => s[y.lockdown].state # "connecting" /\ (~passes => y.lockdown # y.usbmux)
    <3>1. CASE step.asks = "session"
      BY <1>1, <1>4, <1>14, <3>1
    <3>2. CASE step.asks # "session"
      BY <1>1, <1>7, <1>15, <1>16, <3>2
    <3>3. QED
      BY <3>1, <3>2
  <2>6. QED
    BY <1>13, <2>1, <2>2, <2>3, <2>4, <2>5 DEF Between
<1>18. /\ step.asks \in {"list", "pair", "connect", "connectSSL"} => socks[k].layer = "mux"
       /\ step.asks = "getValue" => socks[k].layer \in {"tunnel", "tls"}
       /\ step.asks \in {"session", "handshake"} => socks[k].layer = "tunnel"
       /\ step.asks = "service" => socks[k].layer = "tls"
       /\ step.asks = "connect" => s[k].layer = "tunnel"
       /\ step.asks \in {"connectSSL", "session"} => s[k].layer = "tls"
       /\ step.asks \notin {"connect", "connectSSL", "session"} => s[k].layer = socks[k].layer
  BY <1>2, <1>4, LayersOfRequests
<1>19. ASSUME step.asks = "service", y.todo = Connection(ssl, call.old)
       PROVE  Opens(y, s)
  <2>1. ~step.closes /\ ~step.fresh
    BY <1>1, <1>19 DEF Sensible
  <2>2. y.usbmux = NoSocket
    BY <1>7, <1>15, <1>19 DEF ByLockdown
  <2>3. y.todo # <<>> /\ Ordered(y.todo) /\ y.todo[1].fresh /\ y.todo[Len(y.todo)].asks = Connecting(ssl, call.old)
    BY <1>5, <1>19 DEF FromTo
  <2>4. ~passes => call.kind \in ServiceKinds
    <3>1. Len(call.todo) = 1
      BY <1>1, <1>3, <1>11, <1>19 DEF Scripted, Ordered, step
    <3>2. ~passes => EndsWith(call.kind, call.ssl, call.old, step)
      BY <1>1, <1>3, <3>1 DEF Scripted, step
    <3>3. QED
      BY ServicesAssumption, <1>1, <1>19, <2>1, <3>2
      DEF EndsWith, SessionKinds, ServiceKinds, UsbmuxKinds, Connecting
  <2>5. ~passes => \A i \in DOMAIN y.todo : i = Len(y.todo) => EndsWith(y.kind, y.ssl, y.old, y.todo[i])
    BY <1>7, <2>3, <2>4 DEF EndsWith, ServiceKinds
  <2>6. QED
    BY <1>17, <2>2, <2>3, <2>5 DEF Opens, Scripted
<1>20. ASSUME t = <<>>, step.asks # "service", y.todo = <<>>
       PROVE  AtEnd(y, s)
  <2>1. ~passes => EndsWith(call.kind, call.ssl, call.old, step)
    <3>1. Len(call.todo) = 1
      BY <1>3, <1>20
    <3>2. QED
      BY <1>1, <1>3, <3>1 DEF Scripted, step
  <2>2. step.closes => step.fresh \/ step.asks = "getValue"
    BY <1>1 DEF Sensible
  <2>3. step.fresh => step.asks \in {"list", "pair"}
    BY <1>1 DEF Sensible
  <2>4. y.kind = call.kind /\ y.old = call.old /\ y.ssl = call.ssl
    BY <1>7, <1>20 DEF step
  <2>5. SUFFICES ASSUME ~passes
                 PROVE  Has(y, s)
    BY <1>17, <1>20 DEF AtEnd
  <2>6. CASE call.kind \in {"getConnectedDevices", "getOSVersion"}
    BY <1>7, <2>1, <2>4, <2>5, <2>6 DEF EndsWith, ServiceKinds, Has
  <2>7. CASE call.kind = "getDeviceTime"
    BY <1>7, <1>15, <2>1, <2>4, <2>5, <2>7 DEF EndsWith, ServiceKinds, Has
  <2>8. CASE call.kind = "startLockdownSession"
    BY <1>4, <1>14, <1>18, <2>1, <2>4, <2>5, <2>8 DEF EndsWith, ServiceKinds, Has
  <2>9. CASE call.kind \in ServiceKinds \cup {"connectPort", "connectPortSSL"}
    <3>1. step.asks = IF call.kind = "connectPort" THEN "connect"
                      ELSE IF call.kind = "connectPortSSL" THEN Connecting(TRUE, call.old) ELSE Connecting(call.ssl, call.old)
      BY <1>20, <2>1, <2>5, <2>9 DEF EndsWith, ServiceKinds
    <3>2. step.asks \in {"connect", "handshake", "connectSSL"} /\ ~step.closes /\ y.usbmux = call.usbmux /\ k = call.usbmux
      BY <1>1, <1>7, <2>2, <2>3, <3>1 DEF Connecting, ByLockdown
    <3>3. s[k].state = "open"
      BY <1>4, <3>2
    <3>4. s[k].layer = "tls" <=> step.asks = "connectSSL"
      BY <1>18, <3>2
    <3>5. step.asks = "connectSSL" <=> \/ call.kind = "connectPortSSL" /\ ~call.old
                                       \/ call.kind \in ServiceKinds /\ call.ssl /\ ~call.old
      BY <2>9, <3>1 DEF Connecting, ServiceKinds
    <3>6. call.kind \notin {"getConnectedDevices", "getOSVersion", "getDeviceTime", "startLockdownSession"}
      BY <2>9 DEF ServiceKinds
    <3>7. QED
      BY <2>4, <3>2, <3>3, <3>4, <3>5, <3>6 DEF Has
  <2>10. QED
    BY ServicesAssumption, <1>1, <2>6, <2>7, <2>8, <2>9 DEF SessionKinds, ServiceKinds, UsbmuxKinds
<1>21. ASSUME t # <<>>, step.asks # "service", y.todo = t
       PROVE  (Ready(y, s) /\ ~y.todo[1].fresh) \/ Opens(y, s)
  <2> DEFINE next == t[1]
  <2>0. Follows(step, next) /\ 1 \in DOMAIN t /\ next \in Steps
    BY <1>3, <1>21
  <2>1. Follows(step, next) /\ 1 \in DOMAIN t /\ next \in Steps /\ Sensible(next) /\ next.asks \in Requests
    BY <1>3, <2>0 DEF Ordered, Steps
  <2>2. y.kind = call.kind /\ y.old = call.old /\ y.ssl = call.ssl
    BY <1>7, <1>21 DEF step
  <2>3. Scripted(y)
    <3>1. ASSUME ~passes, NEW i \in DOMAIN t, i = Len(t)
          PROVE  EndsWith(call.kind, call.ssl, call.old, t[i])
      <4>1. i + 1 = Len(call.todo) /\ i + 1 \in DOMAIN call.todo /\ t[i] = call.todo[i + 1]
        BY <1>3, <3>1
      <4>2. QED
        BY <1>1, <3>1, <4>1 DEF Scripted
    <3>2. QED
      BY <1>3, <1>21, <2>2, <3>1 DEF Scripted
  <2> HIDE DEF next
  <2>4. CASE next.fresh
    <3>1. step.closes
      BY <2>1, <2>4 DEF Follows
    <3>2. QED
      BY <1>7, <1>17, <1>21, <2>3, <2>4, <3>1 DEF Opens, next
  <2>5. CASE ~next.fresh
    <3>1. ~step.closes /\ s[k].state = "open"
      BY <1>4, <2>1, <2>5 DEF Follows
    <3>2. y.usbmux = NoSocket <=> ByLockdown(next)
      BY <1>7, <1>15, <1>21, <2>1, <2>5, <3>1 DEF Follows, ByLockdown, Requests
    <3>3. y.usbmux = NoSocket => y.lockdown # NoSocket
      BY <1>1, <1>7, <1>15, <3>1
    <3>4. Uses(y) = k
      BY <1>1, <1>7, <1>14, <1>15, <3>1 DEF Uses
    <3>5. s[k].layer \in Speaks(next.asks)
      <4>1. CASE next.asks \in {"list", "pair", "connect", "connectSSL"}
        BY <1>18, <2>1, <2>5, <4>1, LayersOfRequests DEF Follows, Layers
      <4>2. CASE next.asks \in {"session", "handshake"}
        BY <1>18, <2>1, <2>5, <4>2, LayersOfRequests DEF Follows, Layers
      <4>3. CASE next.asks = "getValue"
        BY <1>18, <2>1, <2>5, <4>3, LayersOfRequests DEF Follows, Layers
      <4>4. CASE next.asks = "service"
        BY <1>18, <2>1, <2>5, <4>4, LayersOfRequests DEF Follows, Layers
      <4>5. QED
        BY <2>1, <4>1, <4>2, <4>3, <4>4 DEF Requests
    <3>6. QED
      BY <1>17, <1>21, <2>3, <2>5, <3>1, <3>2, <3>3, <3>4, <3>5 DEF Ready, next
  <2>6. QED
    BY <2>4, <2>5
<1>22. /\ (Ready(y, s) /\ ~y.todo[1].fresh) \/ Opens(y, s) \/ AtEnd(y, s)
  BY <1>12, <1>19, <1>20, <1>21
<1>23. \A j \in DOMAIN socks : j \notin Mine(call) => s[j] = socks[j]
  BY <1>1, <1>4
<1>24. QED
  BY <1>4, <1>7, <1>8, <1>9, <1>22, <1>23 DEF y, s, k, step


---------------------------------------------------------------------------
(* The other calls, and the steps.                                         *)

\* A socket stays as it is, or is closed by the other end.
Fades(a, b) == b = a \/ (a.state \in {"open", "ended"} /\ b.state = "destroyed" /\ b.layer = a.layer)

\* A call stays sound while the sockets it opened stay as they are or are closed by the other end.
LEMMA OthersKept ==
  ASSUME NEW y, NEW socks, NEW s, Socks(socks), Sound(y, socks), DOMAIN socks \subseteq DOMAIN s,
         ~passes => \A k \in y.opened : Fades(socks[k], s[k]),
         passes => s[Passed].state # "connecting"
  PROVE  Sound(y, s)
<1>1. Holds(y, socks) /\ Lost(y, socks) /\ Usable(y, socks) /\ Understood(y)
  BY DEF Sound
<1>2. y.opened \subseteq DOMAIN socks /\ NoSocket \notin y.opened /\ (passes => y.opened = {})
  BY <1>1 DEF Holds
<1>3. ASSUME NEW k \in Mine(y)
      PROVE  /\ s[k].state = "connecting" => socks[k].state = "connecting"
             /\ ~passes => /\ socks[k].state = "connecting" => s[k].state = "connecting"
                           /\ s[k].layer = socks[k].layer
                           /\ s[k].state = "open" => socks[k].state = "open"
                           /\ s[k].state = "ended" => socks[k].state = "ended"
  <2>1. CASE passes
    BY <1>3, <2>1 DEF Mine
  <2>2. CASE ~passes
    BY <1>3, <2>2 DEF Mine, Fades
  <2>3. QED
    BY <2>1, <2>2
<1>4. Holds(y, s)
  <2>1. /\ y.opened \subseteq DOMAIN s
        /\ \A k \in {y.usbmux, y.lockdown, y.returned} : k \in Mine(y) \cup {NoSocket}
    BY <1>1, <1>2 DEF Holds
  <2>2. Working(y) => /\ y.todo # <<>> /\ y.returned = NoSocket /\ y.kind # "none"
                      /\ y.lockdown # NoSocket =>
                           /\ ~passes => y.lockdown # y.usbmux
                           /\ s[y.lockdown].state # "connecting"
                           /\ \A i \in DOMAIN y.todo : y.todo[i].asks # "session"
    <3>1. y.lockdown # NoSocket => y.lockdown \in Mine(y)
      BY <2>1
    <3>2. QED
      BY <1>1, <1>3, <3>1 DEF Holds
  <2>3. y.phase = "connecting" => /\ ~passes /\ y.usbmux # NoSocket /\ y.todo[1].fresh
                                  /\ s[y.usbmux].state = "connecting" /\ s[y.usbmux].layer = "mux"
    <3>1. y.usbmux # NoSocket => y.usbmux \in Mine(y)
      BY <2>1
    <3>2. QED
      BY <1>1, <1>3, <3>1 DEF Holds
  <2>4. y.phase = "waiting" => /\ y.usbmux = NoSocket <=> ByLockdown(y.todo[1])
                               /\ y.usbmux = NoSocket => y.lockdown # NoSocket
                               /\ y.usbmux # NoSocket => s[y.usbmux].state # "connecting"
    <3>1. y.usbmux # NoSocket => y.usbmux \in Mine(y)
      BY <2>1
    <3>2. QED
      BY <1>1, <1>3, <3>1 DEF Holds
  <2>5. ~Working(y) => y.usbmux = NoSocket /\ y.lockdown = NoSocket
    BY <1>1 DEF Holds
  <2>6. QED
    BY <1>2, <2>1, <2>2, <2>3, <2>4, <2>5 DEF Holds
<1>5. Lost(y, s)
  <2>1. ASSUME NEW k \in y.opened, s[k].state \in {"connecting", "open"}
        PROVE  k \in {y.usbmux, y.lockdown, y.returned}
    <3>1. k \in Mine(y) /\ ~passes
      BY <1>2, <2>1 DEF Mine
    <3>2. socks[k].state \in {"connecting", "open"}
      BY <1>3, <2>1, <3>1
    <3>3. QED
      BY <1>1, <2>1, <3>2 DEF Lost
  <2>2. QED
    BY <2>1 DEF Lost
<1>6. Usable(y, s)
  <2>1. SUFFICES ASSUME ~passes, y.phase = "returned", y.returned # NoSocket
                 PROVE  s[y.returned].state # "ended" /\ s[y.returned].layer = socks[y.returned].layer
    BY <1>1 DEF Usable
  <2>2. y.returned \in Mine(y)
    BY <1>1, <2>1 DEF Holds
  <2>3. socks[y.returned].state # "ended"
    BY <1>1, <2>1 DEF Usable
  <2>4. QED
    BY <1>3, <2>1, <2>2, <2>3
<1>7. QED
  BY <1>1, <1>4, <1>5, <1>6 DEF Sound

\* The invariant of a call is one of the call, the sockets and whether one was passed.
LEMMA SoundThen ==
  ASSUME NEW y, NEW s, UNCHANGED passes, Sound(y, s)
  PROVE  Sound(y, s)'
<1>1. Scripted(y) => Scripted(y)'
  BY DEF Scripted
<1>2. Holds(y, s) => Holds(y, s)'
  BY DEF Holds, Mine, Working
<1>3. Lost(y, s) => Lost(y, s)'
  BY DEF Lost
<1>4. Usable(y, s) => Usable(y, s)'
  BY DEF Usable
<1>5. Understood(y) => Understood(y)'
  BY DEF Understood
<1>6. QED
  BY <1>1, <1>2, <1>3, <1>4, <1>5 DEF Sound, Working


\* A step that leaves its own call sound and spares the other sockets preserves the invariant.
LEMMA StepKeeps ==
  ASSUME IInv, NEW c \in Calls, NEW y \in CallStates, NEW s, Sound(y, s),
         Spares(calls[c], sockets, [call |-> y, sockets |-> s]),
         calls' = [calls EXCEPT ![c] = y], sockets' = s, UNCHANGED passes
  PROVE  IInv'
<1>1. /\ TypeOK /\ Apart /\ Socks(sockets) /\ passes' = passes
      /\ s \in Seq(SocketStates) /\ Len(sockets) <= Len(s) /\ Len(sockets) \in Nat /\ Len(s) \in Nat
      /\ DOMAIN sockets = 1 .. Len(sockets) /\ DOMAIN s = 1 .. Len(s)
      /\ \A k \in DOMAIN sockets : k \notin Mine(calls[c]) => s[k] = sockets[k]
      /\ passes => s[Passed].state # "connecting"
      /\ \A k \in y.opened : k \in calls[c].opened \/ k \notin DOMAIN sockets
  BY DEF IInv, TypeOK, Spares, Socks
<1>2. DOMAIN sockets \subseteq DOMAIN s
  BY <1>1
<1>3. ASSUME NEW d \in Calls
      PROVE  Sound(calls[d], sockets) /\ calls[d].opened \subseteq DOMAIN sockets /\ (passes => calls[d].opened = {})
  BY DEF IInv, Sound, Holds
<1>4. TypeOK'
  <2>1. passes' => Passed \in DOMAIN sockets' /\ sockets'[Passed].state # "connecting"
    BY <1>1, <1>2 DEF TypeOK
  <2>2. calls' \in [Calls -> CallStates]
    BY <1>1 DEF TypeOK
  <2>3. QED
    BY <1>1, <2>1, <2>2 DEF TypeOK
<1>5. \A d \in Calls : calls'[d] = IF d = c THEN y ELSE calls[d]
  BY <1>1 DEF TypeOK
<1>6. Apart'
  <2>1. ASSUME NEW d \in Calls, d # c
        PROVE  y.opened \cap calls[d].opened = {}
    BY <1>1, <1>3, <2>1 DEF Apart
  <2>2. \A d, e \in Calls : d # e => calls'[d].opened \cap calls'[e].opened = {}
    BY <1>1, <1>5, <2>1 DEF Apart
  <2>3. QED
    BY <2>2 DEF Apart
<1>7. ASSUME NEW d \in Calls
      PROVE  Sound(calls[d], sockets)'
  <2>1. PICK z : z = calls'[d]
    OBVIOUS
  <2>2. Sound(z, s)
    <3>1. CASE d = c
      BY <1>5, <2>1, <3>1
    <3>2. CASE d # c
      <4>1. z = calls[d]
        BY <1>5, <2>1, <3>2
      <4>2. ~passes => \A k \in calls[d].opened : Fades(sockets[k], s[k])
        BY <1>1, <1>3, <3>2 DEF Apart, Mine, Fades
      <4>3. QED
        BY <1>1, <1>2, <1>3, <4>1, <4>2, OthersKept
    <3>3. QED
      BY <3>1, <3>2
  <2>3. Sound(z, s)'
    BY <2>2, SoundThen
  <2>4. z = calls'[d] /\ s = sockets'
    BY <2>1
  <2>5. QED
    BY <2>3, <2>4 DEF Sound, Scripted, Working, Holds, Mine, Lost, Usable, Understood
<1>8. QED
  BY <1>4, <1>6, <1>7 DEF IInv


\* A call goes on from what an answer, or the user, has made of it.
LEMMA GoesOnKeeps ==
  ASSUME ServicesAssumption, IInv, NEW c \in Calls, NEW x, NEW s, Socks(s),
         (Ready(x, s) /\ ~x.todo[1].fresh) \/ Opens(x, s) \/ AtEnd(x, s),
         Mine(x) \subseteq Mine(calls[c]), x.opened \subseteq calls[c].opened,
         Len(s) = Len(sockets), \A j \in DOMAIN sockets : j \notin Mine(calls[c]) => s[j] = sockets[j],
         Becomes(c, GoesOn(x, s))
  PROVE  IInv'
<1>1. PICK y, t : y = GoesOn(x, s).call /\ t = GoesOn(x, s).sockets
  OBVIOUS
<1>2. y \in CallStates /\ Sound(y, t) /\ Spares(x, s, GoesOn(x, s))
  BY <1>1, GoesOnSound
<1>3. /\ t \in Seq(SocketStates) /\ Len(s) <= Len(t)
      /\ \A k \in DOMAIN s : k \notin Mine(x) => t[k] = s[k]
      /\ passes => t[Passed].state # "connecting"
      /\ \A k \in y.opened : k \in x.opened \/ k \notin DOMAIN s
  BY <1>1, <1>2 DEF Spares
<1>4. sockets \in Seq(SocketStates) /\ s \in Seq(SocketStates) /\ DOMAIN s = DOMAIN sockets
  BY DEF IInv, TypeOK, Socks
<1>5. Spares(calls[c], sockets, [call |-> y, sockets |-> t])
  BY <1>3, <1>4 DEF Spares
<1>6. calls' = [calls EXCEPT ![c] = y] /\ sockets' = t /\ UNCHANGED passes
  BY <1>1 DEF Becomes
<1>7. QED
  BY <1>2, <1>5, <1>6, StepKeeps

\* Calling an entry point preserves the invariant.
LEMMA CallKept ==
  ASSUME ServicesAssumption, IInv, NEW c \in Calls, Call(c)
  PROVE  IInv'
<1>1. PICK kind \in Kinds, old \in BOOLEAN :
        Becomes(c, GoesOn([Idle EXCEPT !.kind = kind, !.old = old, !.todo = Script(kind, old)], sockets))
  BY DEF Call
<1> DEFINE x == [Idle EXCEPT !.kind = kind, !.old = old, !.todo = Script(kind, old)]
<1>2. PICK first, last \in Steps :
        /\ FromTo(Script(kind, old), first, last) /\ first.fresh
        /\ ~passes => \A ssl \in BOOLEAN : EndsWith(kind, ssl, old, last)
  BY ScriptsInOrder DEF Begins
<1>3. /\ Script(kind, old) \in Seq(Steps) /\ Len(Script(kind, old)) \in Nat \ {0} /\ Ordered(Script(kind, old))
      /\ Script(kind, old)[1].fresh /\ Script(kind, old)[Len(Script(kind, old))] = last
  BY <1>2 DEF FromTo
<1>4. /\ x.kind = kind /\ x.old = old /\ x.todo = Script(kind, old) /\ x.ssl = FALSE
      /\ x.usbmux = NoSocket /\ x.lockdown = NoSocket /\ x.opened = {} /\ x.returned = NoSocket
      /\ x \in CallStates
  BY <1>3 DEF Idle, CallStates, NoSocket
<1>5. Becomes(c, GoesOn(x, sockets))
  BY <1>1
<1> HIDE DEF x
<1>6. Socks(sockets)
  BY DEF IInv, TypeOK, Socks
<1>7. kind # "none"
  BY ServicesAssumption DEF SessionKinds, ServiceKinds, UsbmuxKinds
<1>8. Between(x, sockets)
  BY <1>4, <1>7 DEF Between
<1>9. Scripted(x)
  BY <1>2, <1>3, <1>4 DEF Scripted
<1>10. Opens(x, sockets)
  BY <1>3, <1>4, <1>8, <1>9 DEF Opens
<1>11. Mine(x) \subseteq Mine(calls[c]) /\ x.opened \subseteq calls[c].opened
  BY <1>4 DEF Mine
<1>12. QED
  BY <1>5, <1>6, <1>10, <1>11, GoesOnKeeps

\* The answer to a request preserves the invariant.
LEMMA AnsweredKept ==
  ASSUME ServicesAssumption, IInv, NEW c \in Calls, Answered(c)
  PROVE  IInv'
<1> DEFINE call == calls[c]
<1> DEFINE k == Uses(call)
<1> DEFINE step == call.todo[1]
<1>1. call \in CallStates /\ Sound(call, sockets) /\ Socks(sockets) /\ call.phase = "waiting" /\ call.ssl \in BOOLEAN
  BY DEF IInv, TypeOK, Socks, Answered, CallStates
<1>2. Head(call.todo) = step
  BY <1>1 DEF Sound, Holds, Working, CallStates
<1>3. Answerable(call, sockets)
  BY <1>1, <1>2 DEF Answered, Answerable
<1>4. PICK ssl \in IF step.asks = "service" THEN BOOLEAN ELSE {call.ssl} :
        Becomes(c, GoesOn(Advanced(call, k, step, ssl), Retunes(sockets, k, step)))
  BY <1>2, Zenon DEF Answered, Advanced, Retunes
<1>5. PICK x, s : x = Advanced(call, k, step, ssl) /\ s = Retunes(sockets, k, step)
  OBVIOUS
<1>6. ssl \in BOOLEAN /\ (step.asks # "service" => ssl = call.ssl)
  BY <1>1
<1>7. /\ Socks(s)
      /\ (Ready(x, s) /\ ~x.todo[1].fresh) \/ Opens(x, s) \/ AtEnd(x, s)
      /\ x.opened = call.opened /\ Mine(x) = Mine(call)
      /\ Len(s) = Len(sockets) /\ \A j \in DOMAIN sockets : j \notin Mine(call) => s[j] = sockets[j]
  BY <1>1, <1>3, <1>5, <1>6, AnsweredGoesOn
<1>8. Becomes(c, GoesOn(x, s))
  BY <1>4, <1>5
<1>9. QED
  BY <1>7, <1>8, GoesOnKeeps


\* A socket in another state.
LEMMA OtherState ==
  ASSUME NEW socks \in Seq(SocketStates), NEW k \in DOMAIN socks, NEW state \in {"open", "destroyed"}
  PROVE  LET s == [socks EXCEPT ![k].state = state]
         IN  /\ s \in Seq(SocketStates) /\ Len(s) = Len(socks) /\ DOMAIN s = DOMAIN socks
             /\ \A j \in DOMAIN socks : j # k => s[j] = socks[j]
             /\ s[k].layer = socks[k].layer /\ s[k].state = state
<1> DEFINE e == [socks[k] EXCEPT !.state = state]
<1>1. socks[k] \in SocketStates
  OBVIOUS
<1>2. e \in SocketStates /\ e.layer = socks[k].layer /\ e.state = state
  BY <1>1 DEF SocketStates
<1>3. [socks EXCEPT ![k].state = state] = [socks EXCEPT ![k] = e]
  OBVIOUS
<1> HIDE DEF e
<1>4. QED
  BY <1>2, <1>3, ExceptSeq

\* A socket connected preserves the invariant.
LEMMA ConnectedKept ==
  ASSUME ServicesAssumption, IInv, NEW c \in Calls, Connected(c)
  PROVE  IInv'
<1> DEFINE call == calls[c]
<1> DEFINE u == call.usbmux
<1>1. /\ call \in CallStates /\ Sound(call, sockets) /\ Socks(sockets) /\ sockets \in Seq(SocketStates)
      /\ call.phase = "connecting" /\ Working(call)
  BY DEF IInv, TypeOK, Socks, Connected, Working
<1>2. Holds(call, sockets) /\ Lost(call, sockets) /\ Scripted(call)
  BY <1>1 DEF Sound
<1>3. /\ ~passes /\ u # NoSocket /\ call.todo[1].fresh /\ u \in call.opened /\ Mine(call) = call.opened
      /\ sockets[u].state = "connecting" /\ sockets[u].layer = "mux" /\ u \in DOMAIN sockets
      /\ call.todo # <<>> /\ call.todo \in Seq(Steps)
  BY <1>1, <1>2 DEF Holds, Mine, CallStates
<1>4. Sensible(call.todo[1]) /\ ~ByLockdown(call.todo[1]) /\ call.todo[1].asks \in {"list", "pair"}
  <2>1. 1 \in DOMAIN call.todo
    BY <1>3
  <2>2. Sensible(call.todo[1])
    BY <1>2, <2>1 DEF Scripted, Ordered
  <2>3. QED
    BY <1>3, <2>2 DEF Sensible, ByLockdown
<1>5. PICK s : s = [sockets EXCEPT ![u].state = "open"]
  OBVIOUS
<1>6. /\ s \in Seq(SocketStates) /\ Len(s) = Len(sockets) /\ DOMAIN s = DOMAIN sockets
      /\ \A j \in DOMAIN sockets : j # u => s[j] = sockets[j]
      /\ s[u].layer = "mux" /\ s[u].state = "open"
  <2>1. u \in DOMAIN sockets /\ sockets[u].layer = "mux" /\ sockets \in Seq(SocketStates)
    BY <1>1, <1>3
  <2> HIDE DEF u
  <2>2. PICK r : r = [sockets EXCEPT ![u].state = "open"]
    OBVIOUS
  <2>3. /\ r \in Seq(SocketStates) /\ Len(r) = Len(sockets) /\ DOMAIN r = DOMAIN sockets
        /\ \A j \in DOMAIN sockets : j # u => r[j] = sockets[j]
        /\ r[u].layer = sockets[u].layer /\ r[u].state = "open"
    BY <2>1, <2>2, OtherState
  <2>4. QED
    BY <1>5, <2>1, <2>2, <2>3
<1>7. Socks(s)
  BY <1>1, <1>3, <1>6 DEF Socks
<1>8. Between(call, s)
  <2>1. /\ call.kind # "none" /\ call.returned = NoSocket /\ call.opened \subseteq DOMAIN s /\ NoSocket \notin call.opened
        /\ (passes => call.opened = {})
        /\ u \in Mine(call) \cup {NoSocket} /\ call.lockdown \in Mine(call) \cup {NoSocket}
    BY <1>1, <1>2, <1>3, <1>6 DEF Holds
  <2>2. \A k \in call.opened : s[k].state \in {"connecting", "open"} => k \in {u, call.lockdown}
    BY <1>2, <1>6, <2>1 DEF Lost
  <2>3. call.lockdown # NoSocket => /\ call.lockdown # u /\ s[call.lockdown].state # "connecting"
                                    /\ \A i \in DOMAIN call.todo : call.todo[i].asks # "session"
    BY <1>1, <1>2, <1>3, <1>6, <2>1 DEF Holds
  <2>4. QED
    BY <1>1, <1>6, <2>1, <2>2, <2>3 DEF Between
<1>9. Ready(call, s)
  <2>1. Uses(call) = u /\ "mux" \in Speaks(call.todo[1].asks)
    BY <1>3, <1>4, LayersOfRequests DEF Uses, Requests, Layers
  <2>2. QED
    BY <1>2, <1>3, <1>4, <1>6, <1>8, <2>1 DEF Ready
<1>10. PICK y, t : y = Writes(call, s).call /\ t = Writes(call, s).sockets
  OBVIOUS
<1>11. y \in CallStates /\ Sound(y, t) /\ Spares(call, s, Writes(call, s))
  BY <1>7, <1>9, <1>10, WritesSound
<1>12. Spares(call, sockets, [call |-> y, sockets |-> t])
  BY <1>3, <1>6, <1>10, <1>11 DEF Spares
<1>13. calls' = [calls EXCEPT ![c] = y] /\ sockets' = t /\ UNCHANGED passes
  BY <1>5, <1>10 DEF Connected, Becomes
<1>14. QED
  BY <1>11, <1>12, <1>13, StepKeeps

\* A call that throws leaves no socket behind.
LEMMA ThrownSound ==
  ASSUME ServicesAssumption, NEW call, NEW y, NEW socks, NEW s, call \in CallStates, Sound(call, socks), Socks(socks), Working(call),
         NEW phase \in {"returned", "failed"}, y = [Thrown(call) EXCEPT !.phase = phase],
         s \in Seq(SocketStates), Len(s) = Len(socks), DOMAIN s = DOMAIN socks,
         \A j \in DOMAIN socks : j \notin {call.usbmux, call.lockdown} => s[j] = socks[j],
         \A j \in DOMAIN socks : j \in {call.usbmux, call.lockdown} => s[j].state \in {"ended", "destroyed"}
  PROVE  y \in CallStates /\ Sound(y, s) /\ Spares(call, socks, [call |-> y, sockets |-> s])
<1>1. /\ y.kind = call.kind /\ y.old = call.old /\ y.ssl = call.ssl /\ y.todo = call.todo
      /\ y.usbmux = NoSocket /\ y.lockdown = NoSocket /\ y.opened = call.opened /\ y.returned = call.returned
      /\ y.phase = phase /\ y \in CallStates
  BY DEF Thrown, CallStates, NoSocket
<1>2. Holds(call, socks) /\ Lost(call, socks)
  BY DEF Sound
<1>3. ~Working(y) /\ Mine(y) = Mine(call) /\ y.returned = NoSocket
  BY <1>1, <1>2 DEF Working, Mine, Holds
<1>4. /\ call.opened \subseteq DOMAIN socks /\ NoSocket \notin call.opened /\ (passes => call.opened = {})
      /\ call.usbmux \in Mine(call) \cup {NoSocket} /\ call.lockdown \in Mine(call) \cup {NoSocket}
  BY <1>2 DEF Holds
<1>5. Holds(y, s)
  BY <1>1, <1>3, <1>4 DEF Holds
<1>6. Lost(y, s)
  BY <1>1, <1>2, <1>3, <1>4 DEF Lost
<1>7. Usable(y, s) /\ Understood(y)
  BY <1>1, <1>3 DEF Usable, Understood
<1>8. Sound(y, s)
  BY <1>3, <1>5, <1>6, <1>7 DEF Sound
<1>9. Spares(call, socks, [call |-> y, sockets |-> s])
  <2>1. \A k \in DOMAIN socks : k \notin Mine(call) => s[k] = socks[k]
    BY <1>4 DEF Socks, NoSocket
  <2>2. passes => s[Passed].state # "connecting"
    BY DEF Socks
  <2>3. Len(socks) <= Len(s)
    BY DEF Socks
  <2>4. QED
    BY <1>1, <2>1, <2>2, <2>3 DEF Spares
<1>10. QED
  BY <1>1, <1>8, <1>9


\* A socket that fails to connect preserves the invariant.
LEMMA ConnectFailsKept ==
  ASSUME ServicesAssumption, IInv, NEW c \in Calls, ConnectFails(c)
  PROVE  IInv'
<1> DEFINE call == calls[c]
<1> DEFINE u == call.usbmux
<1> DEFINE l == call.lockdown
<1>1. /\ call \in CallStates /\ Sound(call, sockets) /\ Socks(sockets) /\ sockets \in Seq(SocketStates)
      /\ call.phase = "connecting" /\ Working(call) /\ Holds(call, sockets)
  BY DEF IInv, TypeOK, Socks, ConnectFails, Working, Sound
<1>2. /\ u \in DOMAIN sockets /\ l \in DOMAIN sockets \cup {NoSocket} /\ u # NoSocket
      /\ l # NoSocket => l # u /\ sockets[l].state # "connecting"
  BY <1>1 DEF Holds, Mine
<1>3. PICK d : d = [sockets EXCEPT ![u].state = "destroyed"]
  OBVIOUS
<1>4. PICK s : s = Ended(d, l)
  OBVIOUS
<1>5. \E phase \in {"returned", "failed"} :
        calls' = [calls EXCEPT ![c] = [Thrown(call) EXCEPT !.phase = phase]] /\ sockets' = s /\ UNCHANGED passes
  <2>1. Thrown(call) = [Thrown(call) EXCEPT !.phase = "failed"]
    BY <1>1 DEF Thrown, CallStates
  <2>2. QED
    BY <1>3, <1>4, <2>1 DEF ConnectFails, Becomes
<1>5a. PICK phase \in {"returned", "failed"} :
        calls' = [calls EXCEPT ![c] = [Thrown(call) EXCEPT !.phase = phase]] /\ sockets' = s /\ UNCHANGED passes
  BY <1>5
<1>6. PICK y :
        y = [Thrown(call) EXCEPT !.phase = phase] /\ calls' = [calls EXCEPT ![c] = y] /\ sockets' = s /\ UNCHANGED passes
  BY <1>5a
<1> HIDE DEF u, l
<1>7. /\ d \in Seq(SocketStates) /\ Len(d) = Len(sockets) /\ DOMAIN d = DOMAIN sockets
      /\ \A j \in DOMAIN sockets : j # u => d[j] = sockets[j]
      /\ d[u].state = "destroyed"
  BY <1>1, <1>2, <1>3, OtherState
<1>8. /\ s \in Seq(SocketStates) /\ Len(s) = Len(d) /\ DOMAIN s = DOMAIN d
      /\ \A j \in DOMAIN d : j # l => s[j] = d[j]
      /\ \A j \in DOMAIN d : s[j].state = IF j = l /\ d[j].state = "open" THEN "ended" ELSE d[j].state
  BY <1>2, <1>4, <1>7, EndedSocket
<1>9. \A j \in DOMAIN sockets : j \notin {u, l} => s[j] = sockets[j]
  BY <1>7, <1>8
<1>10. \A j \in DOMAIN sockets : j \in {u, l} => s[j].state \in {"ended", "destroyed"}
  <2>1. s[u].state = "destroyed"
    BY <1>2, <1>7, <1>8
  <2>2. l # NoSocket => s[l].state \in {"ended", "destroyed"}
    <3>1. ASSUME l # NoSocket
          PROVE  s[l].state \in {"ended", "destroyed"}
      <4>1. l \in DOMAIN d /\ d[l] = sockets[l] /\ d[l] \in SocketStates /\ d[l].state # "connecting"
        BY <1>2, <1>7, <3>1
      <4>2. QED
        BY <1>8, <4>1 DEF SocketStates
    <3>2. QED
      BY <3>1
  <2>3. NoSocket \notin DOMAIN sockets
    BY <1>1 DEF NoSocket
  <2>4. QED
    BY <2>1, <2>2, <2>3
<1>11. y \in CallStates /\ Sound(y, s) /\ Spares(call, sockets, [call |-> y, sockets |-> s])
  BY <1>1, <1>6, <1>7, <1>8, <1>9, <1>10, ThrownSound DEF u, l
<1>12. QED
  BY <1>6, <1>11, StepKeeps

\* A request that fails preserves the invariant.
LEMMA StepFailsKept ==
  ASSUME ServicesAssumption, IInv, NEW c \in Calls, StepFails(c)
  PROVE  IInv'
<1> DEFINE call == calls[c]
<1> DEFINE u == call.usbmux
<1> DEFINE l == call.lockdown
<1>1. /\ call \in CallStates /\ Sound(call, sockets) /\ Socks(sockets) /\ sockets \in Seq(SocketStates)
      /\ call.phase = "waiting" /\ Working(call) /\ Holds(call, sockets)
  BY DEF IInv, TypeOK, Socks, StepFails, Working, Sound
<1>2. /\ u \in DOMAIN sockets \cup {NoSocket} /\ l \in DOMAIN sockets \cup {NoSocket}
      /\ l # NoSocket => sockets[l].state # "connecting"
      /\ u # NoSocket => sockets[u].state # "connecting"
  BY <1>1 DEF Holds, Mine, Socks
<1>3. PICK d : d = Ended(sockets, u)
  OBVIOUS
<1>4. PICK s : s = Ended(d, l)
  OBVIOUS
<1>5. PICK y : y = [Thrown(call) EXCEPT !.phase = "failed"]
  OBVIOUS
<1>6. calls' = [calls EXCEPT ![c] = y] /\ sockets' = s /\ UNCHANGED passes
  <2>1. Thrown(call) = [Thrown(call) EXCEPT !.phase = "failed"]
    BY <1>1 DEF Thrown, CallStates
  <2>2. QED
    BY <1>3, <1>4, <1>5, <2>1 DEF StepFails, Becomes
<1> HIDE DEF u, l
<1>7. /\ d \in Seq(SocketStates) /\ Len(d) = Len(sockets) /\ DOMAIN d = DOMAIN sockets
      /\ \A j \in DOMAIN sockets : j # u => d[j] = sockets[j]
      /\ \A j \in DOMAIN sockets : d[j].state = IF j = u /\ sockets[j].state = "open" THEN "ended" ELSE sockets[j].state
  BY <1>1, <1>2, <1>3, EndedSocket
<1>8. /\ s \in Seq(SocketStates) /\ Len(s) = Len(d) /\ DOMAIN s = DOMAIN d
      /\ \A j \in DOMAIN d : j # l => s[j] = d[j]
      /\ \A j \in DOMAIN d : s[j].state = IF j = l /\ d[j].state = "open" THEN "ended" ELSE d[j].state
  BY <1>2, <1>4, <1>7, EndedSocket
<1>9. \A j \in DOMAIN sockets : j \notin {u, l} => s[j] = sockets[j]
  BY <1>7, <1>8
<1>10. ASSUME NEW j \in DOMAIN sockets, j \in {u, l}
       PROVE  s[j].state \in {"ended", "destroyed"}
  <2>1. sockets[j] \in SocketStates /\ j # NoSocket
    BY <1>1 DEF NoSocket
  <2>2. sockets[j].state \in {"open", "ended", "destroyed"}
    BY <1>2, <1>10, <2>1 DEF SocketStates
  <2>3. QED
    BY <1>7, <1>8, <1>10, <2>2
<1>11. y \in CallStates /\ Sound(y, s) /\ Spares(call, sockets, [call |-> y, sockets |-> s])
  BY <1>1, <1>5, <1>7, <1>8, <1>9, <1>10, ThrownSound DEF u, l
<1>12. QED
  BY <1>6, <1>11, StepKeeps

\* A socket lost preserves the invariant.
LEMMA SocketLostKept ==
  ASSUME IInv, NEW k \in DOMAIN sockets, SocketLost(k)
  PROVE  IInv'
<1>1. PICK s : s = [sockets EXCEPT ![k].state = "destroyed"]
  OBVIOUS
<1>2. sockets' = s /\ UNCHANGED passes /\ calls' = calls /\ sockets[k].state \in {"open", "ended"}
  BY <1>1 DEF SocketLost
<1>3. TypeOK /\ Apart /\ Socks(sockets) /\ sockets \in Seq(SocketStates)
  BY DEF IInv, TypeOK, Socks
<1>4. /\ s \in Seq(SocketStates) /\ Len(s) = Len(sockets) /\ DOMAIN s = DOMAIN sockets
      /\ \A j \in DOMAIN sockets : j # k => s[j] = sockets[j]
      /\ s[k].layer = sockets[k].layer /\ s[k].state = "destroyed"
  BY <1>1, <1>3, OtherState
<1>5. passes => Passed \in DOMAIN s /\ s[Passed].state # "connecting"
  BY <1>3, <1>4 DEF Socks
<1>6. TypeOK'
  BY <1>2, <1>3, <1>4, <1>5 DEF TypeOK
<1>7. Apart'
  BY <1>2, <1>3 DEF Apart
<1>8. ASSUME NEW d \in Calls
      PROVE  Sound(calls[d], sockets)'
  <2>1. PICK z : z = calls[d]
    OBVIOUS
  <2>2. Sound(z, sockets) /\ z.opened \subseteq DOMAIN sockets
    BY <2>1 DEF IInv, Sound, Holds
  <2>3. \A j \in z.opened : Fades(sockets[j], s[j])
    BY <1>2, <1>4, <2>2 DEF Fades
  <2>4. Sound(z, s)
    BY <1>3, <1>4, <1>5, <2>2, <2>3, OthersKept
  <2>5. Sound(z, s)'
    BY <1>2, <2>4, SoundThen
  <2>6. z = calls'[d] /\ s = sockets'
    BY <1>2, <2>1
  <2>7. QED
    BY <2>5, <2>6 DEF Sound, Scripted, Working, Holds, Mine, Lost, Usable, Understood
<1>9. QED
  BY <1>6, <1>7, <1>8 DEF IInv

\* The invariant holds before any call is made.
LEMMA InitEstablishes ==
  ASSUME Init
  PROVE  IInv
<1>1. sockets = IF passes THEN <<[layer |-> "mux", state |-> "open"]>> ELSE <<>>
  BY DEF Init
<1>2. TypeOK
  <2>1. Idle \in CallStates
    BY DEF Idle, CallStates, NoSocket
  <2>2. [layer |-> "mux", state |-> "open"] \in SocketStates /\ [layer |-> "mux", state |-> "open"].state = "open"
    BY DEF SocketStates, Layers
  <2>3. sockets \in Seq(SocketStates) /\ (passes => Passed \in DOMAIN sockets /\ sockets[Passed].state # "connecting")
    BY <1>1, <2>2 DEF Passed
  <2>4. QED
    BY <2>1, <2>3 DEF TypeOK, Init
<1>3. ASSUME NEW c \in Calls
      PROVE  calls[c].opened = {} /\ Sound(calls[c], sockets)
  <2>1. PICK y : y = calls[c]
    OBVIOUS
  <2>2. /\ y.phase = "idle" /\ y.usbmux = NoSocket /\ y.lockdown = NoSocket /\ y.opened = {} /\ y.returned = NoSocket
    BY <2>1 DEF Init, Idle
  <2>3. ~Working(y)
    BY <2>2 DEF Working
  <2>4. Holds(y, sockets) /\ Lost(y, sockets) /\ Usable(y, sockets) /\ Understood(y)
    BY <2>2, <2>3 DEF Holds, Lost, Usable, Understood
  <2>5. QED
    BY <2>1, <2>2, <2>3, <2>4 DEF Sound
<1>4. QED
  BY <1>2, <1>3 DEF IInv, Apart

---------------------------------------------------------------------------
(* The theorems.                                                           *)

\* The invariant of the functions of utilities.js and services.js: what they still have
\* to ask is asked in an order in which it is understood, and they hold every socket
\* that they have opened and not closed.
THEOREM ServicesInvariant == Spec => []IInv
<1>1. Init => IInv
  BY InitEstablishes
<1>2. IInv /\ [Next]_vars => IInv'
  <2>1. SUFFICES ASSUME IInv, [Next]_vars
                 PROVE  IInv'
    OBVIOUS
  <2>2. ASSUME NEW c \in Calls, Call(c)
        PROVE  IInv'
    BY <2>1, <2>2, CallKept, ServicesAssumption
  <2>3. ASSUME NEW c \in Calls, Connected(c)
        PROVE  IInv'
    BY <2>1, <2>3, ConnectedKept, ServicesAssumption
  <2>4. ASSUME NEW c \in Calls, ConnectFails(c)
        PROVE  IInv'
    BY <2>1, <2>4, ConnectFailsKept, ServicesAssumption
  <2>5. ASSUME NEW c \in Calls, Answered(c)
        PROVE  IInv'
    BY <2>1, <2>5, AnsweredKept, ServicesAssumption
  <2>6. ASSUME NEW c \in Calls, StepFails(c)
        PROVE  IInv'
    BY <2>1, <2>6, StepFailsKept, ServicesAssumption
  <2>7. ASSUME NEW k \in DOMAIN sockets, SocketLost(k)
        PROVE  IInv'
    BY <2>1, <2>7, SocketLostKept
  <2>8. CASE UNCHANGED vars
    <3>1. passes' = passes /\ calls' = calls /\ sockets' = sockets
      BY <2>8 DEF vars
    <3>2. QED
      BY <2>1, <3>1 DEF IInv, TypeOK, Apart, Sound, Scripted, Working, Holds, Mine, Lost, Usable, Understood
  <2>9. QED
    BY <2>1, <2>2, <2>3, <2>4, <2>5, <2>6, <2>7, <2>8 DEF Next
<1>3. QED
  BY <1>1, <1>2, PTL DEF Spec

\* Whichever step of a function of utilities.js or services.js fails, and however late
\* a socket connects: no socket that it has opened stays open without an owner.
THEOREM NoSocketLeaks == Spec => []NothingLeaks
<1>1. IInv => NothingLeaks
  BY DEF IInv, Sound, Lost, NothingLeaks
<1>2. QED
  BY <1>1, ServicesInvariant, PTL

\* What a function of utilities.js or services.js returns was not closed by it, and
\* carries TLS as the device asked.
THEOREM ReturnedSocketsAreUsable == Spec => []ReturnedIsUsable
<1>1. IInv => ReturnedIsUsable
  <2>1. SUFFICES ASSUME IInv, ~passes, NEW c \in Calls, calls[c].phase = "returned", calls[c].returned # NoSocket
                 PROVE  /\ sockets[calls[c].returned].state # "ended"
                        /\ sockets[calls[c].returned].layer = "tls" <=>
                             \/ calls[c].kind = "startLockdownSession"
                             \/ calls[c].kind = "connectPortSSL" /\ ~calls[c].old
                             \/ calls[c].kind \in ServiceKinds /\ calls[c].ssl /\ ~calls[c].old
    BY DEF ReturnedIsUsable
  <2>2. Usable(calls[c], sockets)
    BY <2>1 DEF IInv, Sound
  <2>3. QED
    BY <2>1, <2>2 DEF Usable
<1>2. QED
  BY <1>1, ServicesInvariant, PTL

\* A request of the Usbmux or Lockdown client of a call is written to a socket that
\* understands it.
THEOREM RequestsAreUnderstood == Spec => []SpokenTo
<1>1. IInv => SpokenTo
  <2>1. SUFFICES ASSUME IInv, ~passes, NEW c \in Calls, calls[c].phase = "waiting"
                 PROVE  calls[c].layer \in Speaks(Head(calls[c].todo).asks) /\ ~calls[c].ended
    BY DEF SpokenTo
  <2>2. calls[c] \in CallStates /\ Understood(calls[c]) /\ Holds(calls[c], sockets) /\ Working(calls[c])
    BY <2>1 DEF IInv, TypeOK, Sound, Working
  <2>3. Head(calls[c].todo) = calls[c].todo[1]
    BY <2>2 DEF Holds, CallStates
  <2>4. QED
    BY <2>1, <2>2, <2>3 DEF Understood
<1>2. QED
  BY <1>1, ServicesInvariant, PTL
=============================================================================
