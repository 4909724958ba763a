----------------------------- MODULE MCDecoders -----------------------------
(***************************************************************************)
(* The codecs that sit in the streams of the services, for TLC: one of     *)
(* DTXDecoder, DTXMessage (the contents of its messages), NSKeyed (their   *)
(* arguments), WebInspector and Syslog is chosen, and the others do        *)
(* nothing.                                                                *)
(***************************************************************************)
EXTENDS DTXDecoder, DTXMessage, NSKeyed, WebInspector, Syslog

VARIABLE codec

allVars == <<codec, decoderVars, messageVars, keyedVars, inspectorVars, syslogVars>>

\* The code of a channel is a key of _dtxManager and no more, and nobody reads the length
\* that a header without a body announces: fragments that differ in these are alike.
OneOfAlike ==
  /\ fragments # <<>> => fragments[1].channel = 1
  /\ \A f \in DOMAIN fragments : HasBody(fragments[f]) \/ fragments[f].payloadLength = 1

\* What does nothing starts in one state only.
MCInit ==
  /\ codec \in {"decoder", "message", "nskeyed", "webinspector", "syslog"}
  /\ DecoderInit /\ MessageInit /\ KeyedInit /\ InspectorInit /\ SyslogInit
  /\ codec # "message" => built = Message(FALSE, FALSE, FALSE, <<>>, "none")

MCNext ==
  /\ UNCHANGED codec
  /\ \/ codec = "decoder" /\ DecoderNext /\ OneOfAlike' /\ UNCHANGED <<messageVars, keyedVars, inspectorVars, syslogVars>>
     \/ codec = "message" /\ MessageNext /\ UNCHANGED <<decoderVars, keyedVars, inspectorVars, syslogVars>>
     \/ codec = "nskeyed" /\ KeyedNext /\ UNCHANGED <<decoderVars, messageVars, inspectorVars, syslogVars>>
     \/ codec = "webinspector" /\ InspectorNext /\ UNCHANGED <<decoderVars, messageVars, keyedVars, syslogVars>>
     \/ codec = "syslog" /\ SyslogNext /\ UNCHANGED <<decoderVars, messageVars, keyedVars, inspectorVars>>

MCSpec == MCInit /\ [][MCNext]_allVars

---------------------------------------------------------------------------
(* Values of three levels, and archives of three objects that refer to     *)
(* each other and to a text.                                               *)

Text0 == <<"str", "a">>
Leaves == {Null, <<"num", 1>>, Text0, <<"NSUUID", <<CapitalUuid>>>>, <<"NSUUID", <<Text0>>>>,
           <<"NSDate", <<<<"num", 1>>>>>>, <<"NSNull">>}

UpTo2(S) == {<<>>} \cup {<<v>> : v \in S} \cup {<<v, w>> : v, w \in S}
DictOf(values) == <<"dict", [i \in DOMAIN values |-> <<<<"k", "l">>[i], values[i]>>]>>

Level1 ==
  {<<"array", s>> : s \in UpTo2(Leaves)} \cup {DictOf(s) : s \in UpTo2(Leaves)}
    \cup {<<"NSURL", <<v, Text0>>>> : v \in {Null, Text0}}
    \cup {<<"Custom", <<v>>>> : v \in Leaves}
    \cup {<<"set", <<Text0>>>>}
    \cup {<<"config", <<<<"formatVersion", <<"num", 2>>>>, <<"testsToRun", v>>>>>> : v \in Leaves}

Inner == Leaves \cup {v \in Level1 : v[1] \notin {"array", "dict"} \/ Len(v[2]) = 1}

MCValues == Leaves \cup Level1 \cup {<<"array", s>> : s \in UpTo2(Inner)} \cup {DictOf(s) : s \in UpTo2(Inner)}

\* Objects 1 to 3 of an archive, with a text as object 4 and classes as 5 to 7.
Refs == {<<>>} \cup {<<Uid(m)>> : m \in 1 .. 4} \cup {<<Uid(m), Uid(n)>> : m, n \in 1 .. 3}
Given ==
  {<<"object", 5, <<<<"NS.objects", <<"uids", refs>>>>>>>> : refs \in Refs}
    \cup {<<"object", 6, <<<<"NS.keys", <<"uids", <<Uid(4)>>>>>>,
                          <<"NS.objects", <<"uids", <<Uid(m)>>>>>>>>>> : m \in {1, 2, 3, 4, 9}}
    \cup {<<"object", 7, <<<<"ref", Uid(1)>>>>>>}

MCArchives == {<<NullText, a, b, c, Text0, ClassObject("NSArray"), ClassObject("NSDictionary"),
                 ClassObject("NSUnknown")>> : a, b, c \in Given}
=============================================================================
