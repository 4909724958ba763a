--------------------------- MODULE MuxExchange ---------------------------
(***************************************************************************)
(* What a usbmux client promises its caller, with no tags, frames, chunks  *)
(* or timers: every call is settled at most once, by giving up on it or    *)
(* with the answer usbmuxd gave to that very call; and once a Connect has  *)
(* handed the socket over, its owner reads what the device sends, all of   *)
(* it and in order.  Module Usbmux implements this specification.          *)
(***************************************************************************)
EXTENDS Naturals, Sequences

CONSTANTS Calls,          \* identities of the calls a caller can make
          Outcome(_, _)   \* what a call of a kind makes of an answer

VARIABLES kind,      \* kind[c]: what call c asks for, "unmade" before it is made
          said,      \* said[c]: usbmuxd's answer to call c, or "nothing"
          promise,   \* promise[c]: what the caller of c holds
          sent,      \* how many pieces of data the device has sent in the tunnel
          got        \* the pieces the owner of the tunnel has read

vars == <<kind, said, promise, sent, got>>

HandedOver == \E c \in Calls : promise[c] = "socket"

Init == /\ kind = [c \in Calls |-> "unmade"]
        /\ said = [c \in Calls |-> "nothing"]
        /\ promise = [c \in Calls |-> "unmade"]
        /\ sent = 0
        /\ got = <<>>

Call(c, k) == /\ kind[c] = "unmade"
              /\ k # "unmade"
              /\ kind' = [kind EXCEPT ![c] = k]
              /\ promise' = [promise EXCEPT ![c] = "pending"]
              /\ UNCHANGED <<said, sent, got>>

Answer(c, body) == /\ kind[c] # "unmade"
                   /\ said[c] = "nothing"
                   /\ said' = [said EXCEPT ![c] = body]
                   /\ UNCHANGED <<kind, promise, sent, got>>

\* One read of the socket may carry the answers of several calls.
Settle(C) == /\ C # {}
             /\ \A c \in C : promise[c] = "pending" /\ said[c] # "nothing"
             /\ promise' = [c \in Calls |-> IF c \in C THEN Outcome(kind[c], said[c])
                                                       ELSE promise[c]]
             /\ UNCHANGED <<kind, said, sent, got>>

GiveUp(c) == /\ promise[c] = "pending"
             /\ promise' = [promise EXCEPT ![c] = "timedOut"]
             /\ UNCHANGED <<kind, said, sent, got>>

\* The device speaks only once usbmuxd has accepted a Connect.
DeviceSends == /\ \E c \in Calls : Outcome(kind[c], said[c]) = "socket"
               /\ sent' = sent + 1
               /\ UNCHANGED <<kind, said, promise, got>>

OwnerReads(n) == /\ HandedOver
                 /\ Len(got) + n <= sent
                 /\ got' = [i \in 1 .. Len(got) + n |-> i]
                 /\ UNCHANGED <<kind, said, promise, sent>>

Next == \/ \E c \in Calls, k \in {"ReadBUID", "ReadPairRecord", "ListDevices", "Connect"} :
             Call(c, k)
        \/ \E c \in Calls, body \in {"value", "lacking", "refused", "malformed"} :
             Answer(c, body)
        \/ \E C \in SUBSET Calls : Settle(C)
        \/ \E c \in Calls : GiveUp(c)
        \/ DeviceSends
        \/ \E n \in 1 .. sent : OwnerReads(n)

Spec == Init /\ [][Next]_vars
==========================================================================
