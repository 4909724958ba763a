----------------------------- MODULE Instrument -----------------------------
(***************************************************************************)
(* The DTX client of src/lib/instrument: callers open channels to services *)
(* of the device, call them and listen to them, all on one socket.  A call *)
(* waits for the reply with its identifier; a channel gets its code before *)
(* it is opened and is remembered after.                                   *)
(*                                                                         *)
(* A step is what runs between two awaits: a call up to its first await, a *)
(* poll that finds a reply with all that follows it, a message handled.    *)
(* Messages are atomic.  The device is external: it gives a code to the    *)
(* first channel that asks for it or refuses, runs a call on the channel   *)
(* of its code, and sends messages of its own on channels it has opened,   *)
(* for some of which it wants an ack.                                      *)
(***************************************************************************)
EXTENDS Naturals, Sequences, FiniteSets, Functions

CONSTANTS Callers,        \* the async functions that use the service
          Channels,       \* the names of channels
          MaxIdentifier,  \* bound: messages the client sends
          MaxPushed       \* bound: messages the device sends unasked

Ids == 1 .. MaxIdentifier
Codes == 1 .. Cardinality(Channels)
Operations == {"call", "listen"}

ASSUME InstrumentAssumption ==
  /\ IsFiniteSet(Channels) /\ "none" \notin Channels
  /\ MaxIdentifier \in Nat /\ MaxPushed \in Nat

VARIABLES
  channels,          \* _channels: channel names to codes
  nextIdentifier,    \* _nextIdentifier
  replyQueues,       \* the identifiers whose queue in _replyQueues has a reply
  channelCallbacks,  \* _channelCallbacks: listeners and the code each was added for
  caller,            \* caller[c]: how far the call of c is
  closing,           \* close() was called: the socket's write side has ended
  piped,             \* the socket is piped to the decoder, and the encoder to it
  released,          \* its user has closed or disposed of the service
  disposed,          \* dispose() was called: the proxy of _replyQueues is revoked
  raced,             \* history: makeChannel ran while another call of it waited
  delivered,         \* history: which channel's messages went to whose listener
  unheard,           \* history: the messages that found no listener and want an ack
  asked,             \* history: asked[i]: the channel that request i was meant for
  toDevice,          \* requests on their way to the device
  inbox,             \* messages on their way to the client
  services,          \* the device's channels: codes to channel names
  served,            \* served[i]: the channel that call i ran on
  pushed,            \* how many messages it has sent unasked
  acked,             \* the messages it has an ack for
  gone               \* it has closed the socket

clientVars == <<channels, nextIdentifier, replyQueues, channelCallbacks, caller>>
socketVars == <<closing, piped, released, disposed>>
historyVars == <<raced, delivered, unheard, asked>>
deviceVars == <<services, served, pushed, acked, gone>>
vars == <<clientVars, socketVars, historyVars, toDevice, inbox, deviceVars>>

Idle == [phase |-> "idle"]
Failed == [phase |-> "failed"]
Waits(c) == caller[c].phase \in {"making", "calling"}

Opening(id, code, channel) == [opens |-> TRUE, id |-> id, code |-> code, channel |-> channel]
Calling(id, code) == [opens |-> FALSE, id |-> id, code |-> code]
Ack(n) == [acks |-> n]
Reply(id) == [type |-> "reply", id |-> id]

Init ==
  /\ channels = <<>>
  /\ nextIdentifier = 1
  /\ replyQueues = {}
  /\ channelCallbacks = {}
  /\ caller = [c \in Callers |-> Idle]
  /\ closing = FALSE /\ piped = TRUE /\ released = FALSE /\ disposed = FALSE
  /\ raced = FALSE /\ delivered = {} /\ unheard = {}
  /\ asked = [i \in Ids |-> "none"]
  /\ toDevice = <<>> /\ inbox = <<>>
  /\ services = <<>>
  /\ served = [i \in Ids |-> "none"]
  /\ pushed = 0 /\ acked = {} /\ gone = FALSE

---------------------------------------------------------------------------
(* Calls.                                                                  *)

\* Mutant: the identifier is not incremented.
SendSameIdentifier(message, channel) ==
  /\ nextIdentifier <= MaxIdentifier
  /\ UNCHANGED nextIdentifier
  /\ asked' = [asked EXCEPT ![nextIdentifier] = channel]
  /\ toDevice' = IF piped /\ ~closing THEN Append(toDevice, message) ELSE toDevice

\* _callChannel up to its await.  A write to a socket whose write side has ended
\* is an error of the socket and sends nothing.
Send(message, channel) ==
  /\ nextIdentifier <= MaxIdentifier
  /\ nextIdentifier' = nextIdentifier + 1
  /\ asked' = [asked EXCEPT ![nextIdentifier] = channel]
  /\ toDevice' = IF piped /\ ~closing THEN Append(toDevice, message) ELSE toDevice

\* What a caller that has its channel's code does with it: callChannel sends the
\* call, registerChannelCallback adds the listener and returns.
Proceed(c, op, channel, code) ==
  \/ /\ op = "call"
     /\ Send(Calling(nextIdentifier, code), channel)
     /\ caller' = [caller EXCEPT ![c] = [phase |-> "calling", channel |-> channel,
                                         id |-> nextIdentifier]]
     /\ UNCHANGED channelCallbacks
  \/ /\ op = "listen"
     /\ channelCallbacks' = channelCallbacks \cup {[code |-> code, channel |-> channel]}
     /\ caller' = [caller EXCEPT ![c] = Idle]
     /\ UNCHANGED <<nextIdentifier, asked, toDevice>>

\* Mutant: codes start at the number of channels that are open.
NextCodeRepeats == IF channels = <<>> THEN 1 ELSE Cardinality(DOMAIN channels)

\* The code of the next channel: one more than there are channels open.
NextCode == Cardinality(DOMAIN channels) + 1

\* callChannel or registerChannelCallback, up to the first await that waits: with
\* a channel that is open, that is in _callChannel, else in makeChannel.
Start(c, op, channel) ==
  /\ caller[c] = Idle /\ ~released
  /\ \/ /\ channel \in DOMAIN channels
        /\ Proceed(c, op, channel, channels[channel])
        /\ UNCHANGED raced
     \/ /\ channel \notin DOMAIN channels
        /\ Send(Opening(nextIdentifier, NextCode, channel), channel)
        /\ caller' = [caller EXCEPT ![c] = [phase |-> "making", op |-> op, channel |-> channel,
                                            code |-> NextCode, id |-> nextIdentifier]]
        /\ raced' = (raced \/ \E d \in Callers : caller[d].phase = "making")
        /\ UNCHANGED channelCallbacks
  /\ UNCHANGED <<channels, replyQueues, socketVars, delivered, unheard, inbox, deviceVars>>

\* The condition of _callChannel finds a reply in the queue of its identifier.
HasReply(c) == ~disposed /\ Waits(c) /\ caller[c].id \in replyQueues

\* makeChannel has its reply, does not look at it, and remembers the channel.
ChannelMade(c) ==
  /\ caller[c].phase = "making" /\ HasReply(c)
  /\ replyQueues' = replyQueues \ {caller[c].id}
  /\ channels' = [x \in DOMAIN channels \cup {caller[c].channel} |->
                    IF x = caller[c].channel THEN caller[c].code ELSE channels[x]]
  /\ Proceed(c, caller[c].op, caller[c].channel, caller[c].code)
  /\ UNCHANGED <<socketVars, raced, delivered, unheard, inbox, deviceVars>>

\* callChannel returns the reply.
CallReturns(c) ==
  /\ caller[c].phase = "calling" /\ HasReply(c)
  /\ replyQueues' = replyQueues \ {caller[c].id}
  /\ caller' = [caller EXCEPT ![c] = Idle]
  /\ UNCHANGED <<channels, nextIdentifier, channelCallbacks, socketVars, historyVars, toDevice,
                 inbox, deviceVars>>

\* waitForCondition gives up, or its condition throws because the queues are
\* revoked: the service is closed under everybody and the call fails.
TimedOut(c) ==
  /\ Waits(c)
  /\ caller' = [caller EXCEPT ![c] = Failed]
  /\ closing' = TRUE
  /\ UNCHANGED <<channels, nextIdentifier, replyQueues, channelCallbacks, piped, released,
                 disposed, historyVars, toDevice, inbox, deviceVars>>

\* The caller tries something else after a failure.
Retry(c) ==
  /\ caller[c] = Failed
  /\ caller' = [caller EXCEPT ![c] = Idle]
  /\ UNCHANGED <<channels, nextIdentifier, replyQueues, channelCallbacks, socketVars, historyVars,
                 toDevice, inbox, deviceVars>>

---------------------------------------------------------------------------
(* Messages.                                                               *)

\* Mutant: a message goes to the listeners of all channels.
ListenersAny(message) == channelCallbacks

\* The listeners of _channelCallbacks for the channel of a message.
Listeners(message) == {l \in channelCallbacks : l.code = message.code}

\* Mutant: an ack has the number of the client's own next message.
ReplyAckOwnIdentifier(message) ==
  toDevice' = IF message.expects /\ ~closing' THEN Append(toDevice, Ack(nextIdentifier)) ELSE toDevice

\* _replyAck, which names the message.  It goes past the encoder.
ReplyAck(message) ==
  toDevice' = IF message.expects /\ ~closing' THEN Append(toDevice, Ack(message.number)) ELSE toDevice

\* _handleData: a reply is queued; any other message goes to the listeners of its
\* channel or, if there are none, to the callbacks of its selector, which change
\* nothing here, and is acknowledged.  A channel that was cancelled closes the
\* service first.
HandleData ==
  LET message == Head(inbox)
  IN  /\ inbox # <<>> /\ piped
      /\ inbox' = Tail(inbox)
      /\ \/ /\ message.type = "reply"
            /\ replyQueues' = replyQueues \cup {message.id}
            /\ UNCHANGED <<closing, delivered, unheard, toDevice>>
         \/ /\ message.type = "push"
            /\ closing' = (closing \/ message.cancels)
            /\ IF Listeners(message) # {}
               THEN /\ delivered' = delivered \cup {[from |-> message.from, to |-> l.channel] : l \in Listeners(message)}
                    /\ UNCHANGED <<unheard, toDevice>>
               ELSE /\ unheard' = IF message.expects THEN unheard \cup {message.number} ELSE unheard
                    /\ ReplyAck(message)
                    /\ UNCHANGED delivered
            /\ UNCHANGED replyQueues
      /\ UNCHANGED <<channels, nextIdentifier, channelCallbacks, caller, piped, released, disposed,
                     raced, asked, deviceVars>>

\* close(), by its user.
Close ==
  /\ ~released
  /\ released' = TRUE /\ closing' = TRUE
  /\ UNCHANGED <<clientVars, piped, disposed, historyVars, toDevice, inbox, deviceVars>>

\* dispose(): everything is unpiped, the listeners go, the queues are revoked.
Dispose ==
  /\ ~disposed
  /\ disposed' = TRUE /\ released' = TRUE /\ piped' = FALSE
  /\ channelCallbacks' = {}
  /\ UNCHANGED <<channels, nextIdentifier, replyQueues, caller, closing, historyVars, toDevice,
                 inbox, deviceVars>>

\* 'end' of the socket, when everything it had has been read.
SocketEnd ==
  /\ gone /\ inbox = <<>> /\ piped
  /\ piped' = FALSE
  /\ UNCHANGED <<clientVars, closing, released, disposed, historyVars, toDevice, inbox, deviceVars>>

---------------------------------------------------------------------------
(* The device.                                                             *)

DeviceAnswers ==
  LET request == Head(toDevice)
  IN  /\ toDevice # <<>> /\ "opens" \in DOMAIN request /\ ~gone
      /\ toDevice' = Tail(toDevice)
      /\ inbox' = Append(inbox, Reply(request.id))
      /\ \/ /\ request.opens /\ request.code \notin DOMAIN services
            /\ services' = [x \in DOMAIN services \cup {request.code} |->
                              IF x = request.code THEN request.channel ELSE services[x]]
            /\ UNCHANGED served
         \/ request.opens /\ UNCHANGED <<services, served>>
         \/ /\ ~request.opens
            /\ served' = [served EXCEPT ![request.id] = IF request.code \in DOMAIN services
                                                        THEN services[request.code] ELSE "none"]
            /\ UNCHANGED services
      /\ UNCHANGED <<clientVars, socketVars, historyVars, pushed, acked, gone>>

DeviceReadsAck ==
  /\ toDevice # <<>> /\ "acks" \in DOMAIN Head(toDevice) /\ ~gone
  /\ toDevice' = Tail(toDevice)
  /\ acked' = acked \cup {Head(toDevice).acks}
  /\ UNCHANGED <<clientVars, socketVars, historyVars, inbox, services, served, pushed, gone>>

DevicePushes(code, cancels, expects) ==
  /\ ~gone /\ pushed < MaxPushed /\ code \in DOMAIN services
  /\ pushed' = pushed + 1
  /\ inbox' = Append(inbox, [type |-> "push", from |-> services[code], code |-> code,
                             number |-> pushed', cancels |-> cancels, expects |-> expects])
  /\ UNCHANGED <<clientVars, socketVars, historyVars, toDevice, services, served, acked, gone>>

DeviceCloses ==
  /\ ~gone
  /\ gone' = TRUE
  /\ UNCHANGED <<clientVars, socketVars, historyVars, toDevice, inbox, services, served, pushed,
                 acked>>

---------------------------------------------------------------------------
Next ==
  \/ \E c \in Callers, op \in Operations, x \in Channels : Start(c, op, x)
  \/ \E c \in Callers : ChannelMade(c) \/ CallReturns(c) \/ TimedOut(c) \/ Retry(c)
  \/ HandleData
  \/ Close
  \/ Dispose
  \/ SocketEnd
  \/ DeviceAnswers
  \/ DeviceReadsAck
  \/ \E code \in Codes, cancels, expects \in BOOLEAN : DevicePushes(code, cancels, expects)
  \/ DeviceCloses

Spec == Init /\ [][Next]_vars

---------------------------------------------------------------------------
(* Properties.                                                             *)

\* As long as makeChannel is not called while another call of it waits, a call
\* runs on the channel it was made for or on none, whatever timed out, was refused
\* or came late, and what the device sends on a channel reaches only the listeners
\* of that channel (makeChannel, callChannel, registerChannelCallback, _handleData).
\* As calls have identifiers of their own, no other call is asked for by one.
ChannelsApart ==
  ~raced => /\ \A i \in Ids : served[i] \in {asked[i], "none"}
            /\ \A d \in delivered : d.from = d.to

\* When everything that was written has been read, the device has an ack for each
\* message that wanted one and found no listener of its channel, and for no other,
\* whenever the channel was opened and the listener added (_handleData, _replyAck).
AckedUnlessHeard ==
  /\ acked \subseteq unheard
  /\ ~closing /\ ~gone /\ toDevice = <<>> => unheard \subseteq acked

\* "Each service has a separate channel."
SeparateChannels == IsInjective(channels)
==========================================================================
