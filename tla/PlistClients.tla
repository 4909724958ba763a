---------------------------- MODULE PlistClients ----------------------------
(***************************************************************************)
(* The services of src/lib that make requests over a PlistService and have *)
(* nothing but the order of the replies to tell whose they are:            *)
(* installation-proxy (a request and status messages until the last one),  *)
(* imagemounter (requests with the raw bytes of a file between them) and   *)
(* mcinstall (requests on profiles).  A client has a socket to one of      *)
(* them.                                                                   *)
(*                                                                         *)
(* An action is what runs between two awaits.  The first look of           *)
(* receivePlist at its queue, which comes at once, is not told apart from  *)
(* its polls.  The service on the device is external: it reads what was    *)
(* written in order, a plist or as many bytes as were announced, and       *)
(* answers late or never; the way of its messages to the queue is part of  *)
(* sending them.  An image is known by its signature; its file is a number *)
(* of pieces, of the same length for all images, and a plist that is read  *)
(* as image bytes counts as one.                                           *)
(***************************************************************************)
EXTENDS Naturals, Sequences

CONSTANTS MaxCalls,     \* bound: calls made in one behaviour
          MaxProgress,  \* bound: status messages before the last one of a command
          Sizes,        \* lengths that the image files may have, in pieces
          Images,       \* the signatures of the images that a caller may mount
          Apps          \* the applications on the device

NoImage == "none"

ASSUME PlistClientsAssumption ==
  /\ MaxCalls \in Nat /\ MaxProgress \in Nat
  /\ Sizes \subseteq Nat \ {0}
  /\ NoImage \notin Images

\* The operations of the services, and the requests each makes in turn.  Upgrade and
\* Uninstall are made as Install is.
Requests == [
  Install        |-> <<"Install">>,
  Browse         |-> <<"Browse">>,
  Lookup         |-> <<"Lookup">>,
  lookup         |-> <<"LookupImage">>,
  mount          |-> <<"LookupImage", "ReceiveBytes", "image", "MountImage">>,
  getProfileList |-> <<"GetProfileList">>,
  installProfile |-> <<"InstallProfile">>,
  removeProfile  |-> <<"GetProfileList", "RemoveProfile">> ]

Offers == [ installation_proxy |-> {"Install", "Browse", "Lookup"},
                image_mounter      |-> {"lookup", "mount"},
                mc_install         |-> {"getProfileList", "installProfile", "removeProfile"} ]

Calls == 1 .. MaxCalls
None == 0

VARIABLES
  service,     \* which service the socket leads to
  commands,   \* the calls: operation, image, step, phase, messages taken, pieces pushed
  replies,    \* replyQueue
  size,       \* length of the image files
  disturbed,  \* history: calls overlapped, timed out, or broke off an image
  upstream,   \* what was written and the device has not read
  worker      \* the state of the service on the device

clientVars == <<commands, replies, disturbed, upstream>>
clientsVars == <<service, clientVars, size, worker>>

Active == {c \in DOMAIN commands : commands[c].phase \in {"receiving", "pushing"}}

Plist(c, request) == [call |-> c, request |-> request]

ClientsInit ==
  /\ service \in DOMAIN Offers
  /\ commands = <<>>
  /\ replies = <<>>
  /\ size \in Sizes
  /\ disturbed = FALSE
  /\ upstream = <<>>
  /\ \E mounted \in {{}} \cup {{image} : image \in Images} :
       worker = [job |-> None, sent |-> 0, rest |-> {}, expects |-> 0, staged |-> <<>>, mounted |-> mounted,
                 profile |-> TRUE, done |-> {}, confused |-> FALSE]

---------------------------------------------------------------------------
(* The client.                                                             *)

\* A call begins: sendPlist of its first request.  mount has read the signature of its
\* image and seen the size by then.  (A file that cannot be read throws before anything
\* is written.)
Call(op) ==
  LET c == Len(commands) + 1
  IN  /\ c \in Calls /\ op \in Offers[service]
      /\ \E image \in IF op = "mount" THEN Images ELSE {NoImage} :
           commands' = Append(commands, [op |-> op, image |-> image, step |-> 1, phase |-> "receiving",
                                         took |-> <<>>, announced |-> size, pushed |-> 0])
      /\ upstream' = Append(upstream, Plist(c, Requests[op][1]))
      /\ disturbed' = (disturbed \/ Active # {})
      /\ UNCHANGED <<service, replies, size, worker>>

\* Mutant: an error is taken for any other answer.
ThrowsNever(m) == FALSE

\* What a call does with the message m it has taken.
Throws(m) == m.status = "Error"

\* Mutant: the first message is taken for the last one.
IsFinishedAtOnce(m) == TRUE

\* _isFinished: only this status ends the messages about a command.
IsFinished(m) == m.status = "Complete"

Ends(call, phase) == [call EXCEPT !.phase = phase]
GoesOn(call) == [call EXCEPT !.step = @ + 1]

Result(call) == UNION {call.took[i].list : i \in DOMAIN call.took}
Found(call) == call.took[1].list

\* installation-proxy: _waitMessageCompletion, and what is looked for in the messages:
\* of Lookup the result, which may be empty but not left out.
AfterStatus(call, m) ==
  IF Throws(m) THEN Ends(call, "threw")
  ELSE IF ~IsFinished(m) THEN call
  ELSE IF call.op = "Lookup" /\ \A i \in DOMAIN call.took : call.took[i].about # "LookupResult"
       THEN Ends(call, "threw")
  ELSE Ends(call, "returned")

\* Mutant: the bytes are pushed whatever the device has answered.
AfterImageReplyUnchecked(call, m) ==
  CASE call.step = 1 -> IF Throws(m) THEN Ends(call, "threw")
                        ELSE IF call.op = "lookup" \/ call.image \in m.list THEN Ends(call, "returned")
                        ELSE GoesOn(call)
    [] call.step = 2 -> [call EXCEPT !.phase = "pushing"]
    [] call.step = 3 -> IF m.status = "Complete" THEN GoesOn(call) ELSE Ends(call, "threw")
    [] call.step = 4 -> Ends(call, IF Throws(m) THEN "threw" ELSE "returned")

\* imagemounter: lookup() and mount().  An image whose own signature is among those
\* that are mounted is not sent; that another one was mounted already where it should
\* go is no error, and the call returns with that one mounted.
AfterImageReply(call, m) ==
  CASE call.step = 1 -> IF Throws(m) THEN Ends(call, "threw")
                        ELSE IF call.op = "lookup" \/ call.image \in m.list THEN Ends(call, "returned")
                        ELSE GoesOn(call)
    [] call.step = 2 -> Ends(call, IF m.status = "ReceiveBytesAck" THEN "pushing" ELSE "threw")
    [] call.step = 3 -> IF m.status = "Complete" THEN GoesOn(call) ELSE Ends(call, "threw")
    [] call.step = 4 -> Ends(call, IF Throws(m) THEN "threw" ELSE "returned")

\* mcinstall: checkACK, and removeProfile's look at the list it asked for.
AfterProfileReply(call, m) ==
  IF m.status # "Acknowledged" THEN Ends(call, "threw")
  ELSE IF call.step < Len(Requests[call.op])
  THEN IF m.about = "GetProfileList" /\ m.list # {} THEN GoesOn(call) ELSE Ends(call, "threw")
  ELSE Ends(call, "returned")

After(call, m) ==
  CASE service = "installation_proxy" -> AfterStatus(call, m)
    [] service = "image_mounter" -> AfterImageReply(call, m)
    [] service = "mc_install" -> AfterProfileReply(call, m)

\* receivePlist finds a message in the queue, and the call runs to its next await.
PollReplies(c) ==
  LET m == Head(replies)
      next == After([commands[c] EXCEPT !.took = Append(@, m)], m)
  IN  /\ commands[c].phase = "receiving" /\ replies # <<>>
      /\ replies' = Tail(replies)
      /\ commands' = [commands EXCEPT ![c] = next]
      /\ upstream' = IF next.step # commands[c].step
                     THEN Append(upstream, Plist(c, Requests[next.op][next.step])) ELSE upstream
      /\ UNCHANGED <<service, disturbed, size, worker>>

\* The timer of receivePlist.
CommandTimedOut(c) ==
  /\ commands[c].phase = "receiving"
  /\ commands' = [commands EXCEPT ![c].phase = "timedOut"]
  /\ disturbed' = TRUE
  /\ UNCHANGED <<service, replies, size, upstream, worker>>

\* The stream of the image file has read a piece, which goes past the encoder.
Push(c) ==
  /\ commands[c].phase = "pushing" /\ commands[c].pushed < size
  /\ commands' = [commands EXCEPT ![c].pushed = @ + 1]
  /\ upstream' = Append(upstream, [call |-> c, request |-> "piece"])
  /\ disturbed' = (disturbed \/ commands[c].pushed >= commands[c].announced)
  /\ UNCHANGED <<service, replies, size, worker>>

\* The stream has come to the end of the file.
Pushed(c) ==
  /\ commands[c].phase = "pushing" /\ commands[c].pushed >= size
  /\ commands' = [commands EXCEPT ![c].phase = "receiving", ![c].step = 3]
  /\ disturbed' = (disturbed \/ commands[c].pushed # commands[c].announced)
  /\ UNCHANGED <<service, replies, size, upstream, worker>>

\* The file cannot be read on.
PushFails(c) ==
  /\ commands[c].phase = "pushing"
  /\ commands' = [commands EXCEPT ![c].phase = "threw"]
  /\ disturbed' = TRUE
  /\ UNCHANGED <<service, replies, size, upstream, worker>>

\* Somebody writes the image file while a call has seen its size (module DeveloperImage).
FileChanges(n) ==
  /\ service = "image_mounter" /\ Active # {}
  /\ size' = n
  /\ UNCHANGED <<service, clientVars, worker>>

---------------------------------------------------------------------------
(* The service on the worker.                                              *)

Message(c, about, status, list) == [of |-> c, about |-> about, status |-> status, list |-> list]

Answer(m) == replies' = Append(replies, m)

\* The image that was staged is one that a call has sent, piece by piece.
IsImage(staged, c) == staged # <<>> /\ \A i \in DOMAIN staged : staged[i] = [call |-> c, request |-> "piece"]

\* It reads what was announced as the image's bytes, and says when it has them.
ReadsBytes ==
  /\ upstream # <<>> /\ worker.expects > 0
  /\ upstream' = Tail(upstream)
  /\ worker' = [worker EXCEPT !.expects = @ - 1, !.staged = Append(@, Head(upstream))]
  /\ IF worker.expects = 1
     THEN Answer(Message(worker.job, "image", "Complete", {}))
     ELSE UNCHANGED replies
  /\ UNCHANGED <<service, commands, disturbed, size>>

\* It reads a command of installation-proxy, and works on it.
ReadsCommand ==
  /\ upstream # <<>> /\ service = "installation_proxy" /\ worker.job = None
  /\ upstream' = Tail(upstream)
  /\ worker' = [worker EXCEPT !.job = Head(upstream).call, !.sent = 0, !.rest = Apps]
  /\ UNCHANGED <<service, commands, replies, disturbed, size>>

\* A message about what it has done so far; of Browse, a part of the list.
Progress(list) ==
  /\ service = "installation_proxy" /\ worker.job # None /\ worker.sent < MaxProgress
  /\ commands[worker.job].op # "Lookup"
  /\ list \subseteq (IF commands[worker.job].op = "Browse" THEN worker.rest ELSE {})
  /\ worker' = [worker EXCEPT !.sent = @ + 1, !.rest = @ \ list]
  /\ Answer(Message(worker.job, commands[worker.job].op, "progress", list))
  /\ UNCHANGED <<service, commands, disturbed, size, upstream>>

\* The last message: of Browse, the rest of the list; of Lookup, what it has found, or
\* without a result.
Completes ==
  LET op == commands[worker.job].op
      Final(about, list) == Message(worker.job, about, "Complete", list)
      last == CASE op = "Install" -> {Final(op, {})}
                [] op = "Browse" -> {Final(op, worker.rest)}
                [] op = "Lookup" -> {Final(op, {})} \cup {Final("LookupResult", list) : list \in SUBSET Apps}
  IN  /\ service = "installation_proxy" /\ worker.job # None
      /\ worker' = [worker EXCEPT !.job = None, !.done = @ \cup {worker.job}]
      /\ \E m \in last : Answer(m)
      /\ UNCHANGED <<service, commands, disturbed, size, upstream>>

\* The command fails: its last message says so.
Refuses ==
  /\ service = "installation_proxy" /\ worker.job # None
  /\ worker' = [worker EXCEPT !.job = None]
  /\ Answer(Message(worker.job, commands[worker.job].op, "Error", {}))
  /\ UNCHANGED <<service, commands, disturbed, size, upstream>>

\* Bytes of an image where a plist was due: the device gives up.
ReadsNonsense ==
  /\ upstream # <<>> /\ worker.expects = 0 /\ Head(upstream).request = "piece"
  /\ worker' = [worker EXCEPT !.confused = TRUE]
  /\ upstream' = Tail(upstream)
  /\ UNCHANGED <<service, commands, replies, disturbed, size>>

\* A request of imagemounter, carried out or refused.  One image is mounted at a time,
\* and the next one is turned away by a message of its own.
ReadsImageRequest(agrees) ==
  LET c == Head(upstream).call
      request == Head(upstream).request
      mounts == agrees /\ request = "MountImage" /\ worker.mounted = {} /\ IsImage(worker.staged, c)
      status == CASE agrees /\ request = "LookupImage" -> "ok"
                  [] agrees /\ request = "ReceiveBytes" -> "ReceiveBytesAck"
                  [] agrees /\ request = "MountImage" /\ worker.mounted # {} -> "alreadyMounted"
                  [] mounts -> "ok"
                  [] OTHER -> "Error"
  IN  /\ upstream # <<>> /\ service = "image_mounter" /\ worker.expects = 0 /\ ~worker.confused
      /\ request # "piece"
      /\ upstream' = Tail(upstream)
      /\ worker' = [worker EXCEPT
           !.job = IF status = "ReceiveBytesAck" THEN c ELSE @,
           !.expects = IF status = "ReceiveBytesAck" THEN commands[c].announced ELSE 0,
           !.staged = IF status = "ReceiveBytesAck" THEN <<>> ELSE @,
           !.mounted = IF mounts THEN {commands[c].image} ELSE @]
      /\ Answer(Message(c, request, status,
                        IF agrees /\ request = "LookupImage" THEN worker.mounted ELSE {}))
      /\ UNCHANGED <<service, commands, disturbed, size>>

\* A request of mcinstall, carried out or refused.
ReadsProfileRequest(agrees) ==
  LET c == Head(upstream).call
      request == Head(upstream).request
  IN  /\ upstream # <<>> /\ service = "mc_install"
      /\ upstream' = Tail(upstream)
      /\ worker' = [worker EXCEPT
           !.profile = IF agrees /\ request # "GetProfileList" THEN request = "InstallProfile" ELSE @,
           !.done = IF agrees /\ request = Requests[commands[c].op][Len(Requests[commands[c].op])]
                    THEN @ \cup {c} ELSE @]
      /\ Answer(Message(c, request, IF agrees THEN "Acknowledged" ELSE "Error",
                        IF request = "GetProfileList" /\ worker.profile THEN {"profile"} ELSE {}))
      /\ UNCHANGED <<service, commands, disturbed, size>>

ClientsNext ==
  \/ \E op \in DOMAIN Requests : Call(op)
  \/ \E c \in DOMAIN commands : PollReplies(c) \/ CommandTimedOut(c) \/ Push(c) \/ Pushed(c) \/ PushFails(c)
  \/ \E n \in Sizes : FileChanges(n)
  \/ ReadsBytes \/ ReadsNonsense \/ ReadsCommand
  \/ \E list \in SUBSET Apps : Progress(list)
  \/ Completes \/ Refuses
  \/ \E agrees \in BOOLEAN : ReadsImageRequest(agrees) \/ ReadsProfileRequest(agrees)

---------------------------------------------------------------------------
(* Properties.                                                             *)

\* As long as calls follow each other, none times out and no image is broken off, a
\* call takes its own messages alone, and all of them: whether it returns or throws,
\* nothing is left for the next one to take (_waitMessageCompletion, receivePlist).
OwnMessages ==
  ~disturbed =>
    /\ \A c \in DOMAIN commands : \A i \in DOMAIN commands[c].took : commands[c].took[i].of = c
    /\ Active = {} => replies = <<>> /\ upstream = <<>>

\* Under the same condition the image mounter reads plists where the client wrote
\* plists, and an image's bytes where it wrote these: ReceiveBytes has announced as
\* many as follow, and nothing follows unless it was acknowledged (mount).
InStep ==
  ~disturbed =>
    /\ ~worker.confused
    /\ worker.staged # <<>> => \E c \in Calls : IsImage(worker.staged, c)
    /\ Active = {} => worker.expects = 0

\* Under the same condition a call that returns has had done what it asked for, and
\* what it returns is the worker's: the application is installed, the list is whole,
\* the images are those that are mounted, the profile is there or gone.  mount() has its
\* image mounted if its lookup found none; if it found another one, that one stays, and
\* mount() returns all the same though its own is not mounted (_waitMessageCompletion,
\* mount, checkACK).
ReturnedMeansDone ==
  ~disturbed =>
    \A c \in DOMAIN commands : commands[c].phase = "returned" =>
      CASE commands[c].op = "mount" ->
             worker.mounted = IF Found(commands[c]) = {} THEN {commands[c].image} ELSE Found(commands[c])
        [] commands[c].op = "lookup" -> Found(commands[c]) \subseteq worker.mounted
        [] commands[c].op = "Browse" -> c \in worker.done /\ Result(commands[c]) = Apps
        [] OTHER -> c \in worker.done
==========================================================================
