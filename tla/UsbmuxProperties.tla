------------------------- MODULE UsbmuxProperties -------------------------
(***************************************************************************)
(* The correctness properties of module Usbmux.                            *)
(***************************************************************************)
EXTENDS Usbmux

\* A call that was settled by a reply was settled by what usbmuxd said to that
\* very call, however late, early or out of order the replies came
\* (_handleData and the tags of _receivePlistPromise).
OwnAnswer ==
  \A t \in Tags : promise[t] \in Settled \ {"timedOut"} =>
                    said[t] # "nothing" /\ promise[t] = Outcome(kind[t], said[t])

\* _responseCallbacks holds a callback for each pending call and nothing else:
\* neither a reply nor a timeout leaves one behind.
CallbacksArePending == responseCallbacks = {t \in Tags : promise[t] = "pending"}

\* A settled call stays as it is: a reply that comes after the timeout, and a
\* timer that outlives the reply, change nothing (isSettled, clearTimeout).
SettledOnce == [][\A t \in Tags : promise[t] \in Settled => promise'[t] = promise[t]]_vars

\* The splitter stops exactly when a connect resolves: the late OK of a connect
\* that timed out does not switch a socket nobody is going to own.
ShutdownIffHandedOver == isShutdown <=> \E t \in Tags : promise[t] = "socket"

\* The socket is handed to one caller at most.
OneOwner == \A t, u \in Tags : promise[t] = "socket" /\ promise[u] = "socket" => t = u

\* Once the socket is handed over, what its owner has read, what waits for the
\* next tick and what is still unread are together all that the device sent, in
\* order: the chunk with the OK reply and the first tunnel data loses nothing,
\* and no usbmux frame is left for the owner (_pushBack and the unpiping).
TunnelIntact ==
  isShutdown => got \o leftover \o inbox = [i \in 1 .. sent |-> Data(i)]

\* Tunnel data is taken for usbmux frames only after a connect that usbmuxd
\* accepted had already timed out.
MisframedOnlyAfterTimeout ==
  misframed => \E t \in Tags : promise[t] = "timedOut" /\ Outcome(kind[t], said[t]) = "socket"

\* Whatever the device sends in a tunnel that was handed over reaches its owner.
TunnelDelivers == \A n \in 1 .. MaxTunnel : (isShutdown /\ sent = n) ~> Len(got) >= n

\* The client implements the promise-level specification.
Tunnelled(items) == [i \in DOMAIN items |-> IF items[i].type = "data" THEN items[i].n ELSE 0]
Exchange == INSTANCE MuxExchange WITH Calls <- Tags, got <- Tunnelled(got)
ImplementsExchange == Exchange!Spec
==========================================================================
