------------------------------ MODULE NSKeyed ------------------------------
(***************************************************************************)
(* archive and unarchive of src/lib/instrument/transformer/nskeyed.js: a   *)
(* JavaScript value becomes a list of objects that refer to each other by  *)
(* their place in it (UIDs, from 0 on), and back.                          *)
(*                                                                         *)
(* A value is a tuple with its kind in front: <<"null">>, <<"num", n>>,    *)
(* <<"str", s>>, <<"array", values>>, <<"set", values>>, <<"dict", pairs>> *)
(* in the order of the keys, an instance <<class, values of its fields>>   *)
(* of a class below, or <<"config", pairs>>, an XCTestConfiguration.  The  *)
(* binary plist libraries are external: a list of objects is written and   *)
(* read as it is, but a UID that was read is a new object.                 *)
(***************************************************************************)
EXTENDS Integers, Sequences, SequencesExt

CONSTANTS Values,    \* what is archived
          Archives   \* lists of objects that devices send

VARIABLES
  classMap,   \* names that updateNSKeyedArchiveClass has added to UNARCHIVE_CLASS_MAP
  input,      \* the value archived, or Nothing for an archive of the device
  knownThen,  \* history: classMap when it was archived
  objects,    \* $objects
  output      \* what came of it

keyedVars == <<classMap, input, knownThen, objects, output>>

NoValue == <<"none">>
Null == <<"null">>
NullText == <<"str", "$null">>
Undefined == <<"undefined">>
Threw == <<"threw">>
Overflow == <<"overflow">>  \* the stack overflows
Failures == {Threw, Overflow}

\* An identifier in capitals and as it is written by default, and its 16 bytes.  Every
\* other text is none, and no other value stands for its bytes.
CapitalUuid == <<"str", "UUID">>
LowerUuid == <<"str", "uuid">>
UuidBytes == <<"bytes", "uuid">>
Uuids == {CapitalUuid, LowerUuid}

\* parse and stringify of util/uuid, which throw for what validate refuses.
UuidParse(text) == IF text \in Uuids THEN UuidBytes ELSE Threw
UuidStringify(bytes) == IF bytes = UuidBytes THEN LowerUuid ELSE Threw

\* The classes whose instances are archived by their fields, and what is written.
\* NSNull, among others, is known but cannot be encoded.
Offset == 978307200
Fields(v) ==
  CASE v[1] = "NSURL"  -> <<<<"NS.base", v[2][1]>>, <<"NS.relative", v[2][2]>>>>
    [] v[1] = "NSDate" -> <<<<"NS.time", <<"num", v[2][1][2] - Offset>>>>>>
    [] v[1] = "NSUUID" -> <<<<"NS.uuidbytes", UuidParse(v[2][1])>>>>
    [] v[1] = "Custom" -> <<<<"field", v[2][1]>>>>
Encodable == {"NSURL", "NSDate", "NSUUID", "Custom"}

\* An instance of a class that is not in the map is taken for a plain object with the
\* fields that the constructor of BaseArchiveHandler and its own have made.
AsPlain(v) == <<"dict", <<<<"additionClasses", <<"array", <<>>>>>>, <<"field", v[2][1]>>>>>>

InMap(name, known) == name # "Custom" \/ name \in known

KeyedInit ==
  /\ classMap = {} /\ knownThen = {}
  /\ input = NoValue /\ objects = <<>> /\ output = NoValue

---------------------------------------------------------------------------
(* Archive.  The objects archived so far are handed from call to call.     *)

Uid(n) == <<"uid", n>>
ClassObject(name) == <<"class", name>>
Fresh == <<"object">>   \* the archiveObj that is filled in later

\* encode() leaves numbers and booleans where they are; NSUUID writes its bytes itself.
InPlace(key, value) == value[1] = "num" \/ key = "NS.uuidbytes"

\* Mutant: the values of a dictionary are looked up with its keys.
ObjectsOfKeys(pairs) == [i \in DOMAIN pairs |-> <<"str", pairs[i][1]>>]

ObjectsOf(pairs) == [i \in DOMAIN pairs |-> pairs[i][2]]

RECURSIVE ArchiveObject(_, _, _)

\* map over archive(): the UIDs of the values, and the objects after them.
RECURSIVE ArchiveAll(_, _, _)
ArchiveAll(values, known, objs) ==
  IF values = <<>> THEN [uids |-> <<>>, objects |-> objs, threw |-> FALSE]
  ELSE LET first == ArchiveObject(Head(values), known, objs)
           rest == ArchiveAll(Tail(values), known, first.objects)
       IN  [rest EXCEPT !.uids = <<first.uid>> \o @, !.threw = @ \/ first.threw]

\* encode() over the fields of an instance: each stays in place or becomes a UID.
\* encodeXCTestConfiguration archives formatVersion, though it is a number.
RECURSIVE EncodeAll(_, _, _)
EncodeAll(pairs, known, objs) ==
  IF pairs = <<>> THEN [fields |-> <<>>, objects |-> objs, threw |-> FALSE]
  ELSE LET key == pairs[1][1]
           value == pairs[1][2]
           first == IF InPlace(key, value) /\ key # "formatVersion"
                    THEN [uid |-> value, objects |-> objs, threw |-> value = Threw]
                    ELSE ArchiveObject(value, known, objs)
           rest == EncodeAll(Tail(pairs), known, first.objects)
       IN  [rest EXCEPT !.fields = <<<<key, first.uid>>>> \o @, !.threw = @ \/ first.threw]

\* encodeTopLevel: the object at the end of objs is filled in.
EncodeTopLevel(v, known, objs) ==
  LET at == Len(objs)
      filled(done, class, fields) ==
        [uid |-> Uid(at - 1), threw |-> done.threw,
         objects |-> [done.objects EXCEPT ![at] = <<"object", class, fields>>]]
      kind == v[1]
  IN  CASE kind = "array" ->
             LET done == ArchiveAll(v[2], known, Append(objs, ClassObject("NSArray")))
             IN  filled(done, at, <<<<"NS.objects", <<"uids", done.uids>>>>>>)
        [] kind = "config" ->
             LET done == EncodeAll(v[2], known, Append(objs, ClassObject("XCTestConfiguration")))
             IN  filled(done, at, done.fields)
        [] kind = "dict" ->
             LET keys == ArchiveAll([i \in DOMAIN v[2] |-> <<"str", v[2][i][1]>>], known, objs)
                 done == ArchiveAll(ObjectsOf(v[2]), known, keys.objects)
                 all == [done EXCEPT !.objects = Append(@, ClassObject("NSDictionary"))]
             IN  filled(all, Len(done.objects), <<<<"NS.keys", <<"uids", keys.uids>>>>,
                                                  <<"NS.objects", <<"uids", done.uids>>>>>>)
        [] kind \in Encodable ->
             LET done == EncodeAll(Fields(v), known, objs)
                 all == [done EXCEPT !.objects = Append(@, ClassObject(kind))]
             IN  filled(all, Len(done.objects), done.fields)
        \* Sets have no map(), and BaseArchiveHandler cannot encode.
        [] kind \in {"set", "NSNull"} -> [uid |-> Uid(at - 1), objects |-> objs, threw |-> TRUE]

ArchiveObject(v, known, objs) ==
  CASE v = Null -> [uid |-> Uid(0), objects |-> objs, threw |-> FALSE]
    [] v[1] \in {"num", "str"} ->
         [uid |-> Uid(Len(objs)), objects |-> Append(objs, v), threw |-> FALSE]
    [] OTHER -> EncodeTopLevel(IF InMap(v[1], known) THEN v ELSE AsPlain(v), known, Append(objs, Fresh))

\* No archive has been made or received yet.
Idling == input = NoValue /\ objects = <<>>

\* archive(): a list of objects that starts with $null.
Archive(v) ==
  LET done == ArchiveObject(v, classMap, <<NullText>>)
  IN  /\ input' = v /\ knownThen' = classMap
      /\ objects' = IF done.threw THEN <<>> ELSE done.objects
      /\ output' = IF done.threw THEN Threw ELSE NoValue
      /\ UNCHANGED classMap

---------------------------------------------------------------------------
(* Unarchive.                                                              *)

FieldOf(object, key) ==
  IF \E i \in DOMAIN object[3] : object[3][i][1] = key
  THEN object[3][CHOOSE i \in DOMAIN object[3] : object[3][i][1] = key][2]
  ELSE Undefined

IsObject(objs, uid) == uid < Len(objs) /\ objs[uid + 1][1] = "object"

\* Mutant: an object that comes before one it is referred to from is one it is in.
ResumesBackwards(objs, uid, path) == IsObject(objs, uid) /\ \E p \in path : uid <= p

\* decodeObject looks in unpackedUids with the UID, not with its number, and finds
\* nothing: it goes into an object it is already in, and never comes back.
Resumes(objs, uid, path) == IsObject(objs, uid) /\ uid \in path

RECURSIVE DecodeObject(_, _, _, _)

FirstFailure(values, value) ==
  LET failed == {i \in DOMAIN values : values[i] \in Failures}
  IN  IF failed = {} THEN value ELSE values[CHOOSE i \in failed : \A j \in failed : i <= j]

RECURSIVE DecodeAll(_, _, _, _)
DecodeAll(uids, objs, known, path) ==
  IF uids = <<>> THEN <<>>
  ELSE <<DecodeObject(objs, known, Head(uids), path)>> \o DecodeAll(Tail(uids), objs, known, path)

\* decodeKey: what is in place stays, and a UID is decoded.
DecodeKey(object, key, objs, known, path) ==
  LET v == FieldOf(object, key)
  IN  IF v[1] = "uid" THEN DecodeObject(objs, known, v[2], path) ELSE v

\* decodeArchive of the class of an object.
DecodeArchive(object, objs, known, path) ==
  LET class == objs[object[2] + 1][2]
      key(name) == DecodeKey(object, name, objs, known, path)
      uids(name) == [i \in DOMAIN FieldOf(object, name)[2] |-> FieldOf(object, name)[2][i][2]]
  IN  CASE class \in {"NSArray", "NSSet"} ->
             LET values == DecodeAll(uids("NS.objects"), objs, known, path)
             IN  FirstFailure(values, <<"array", values>>)
        [] class = "NSDictionary" ->
             LET keys == DecodeAll(uids("NS.keys"), objs, known, path)
                 values == DecodeAll(uids("NS.objects"), objs, known, path)
             IN  FirstFailure(FlattenSeq([i \in DOMAIN keys |-> <<keys[i], values[i]>>]),
                              <<"dict", [i \in DOMAIN keys |-> <<keys[i][2], values[i]>>]>>)
        [] class = "NSURL" ->
             LET values == <<key("NS.base"), key("NS.relative")>>
             IN  FirstFailure(values, <<"NSURL", values>>)
        [] class = "NSDate" -> <<"num", Offset + key("NS.time")[2]>>
        [] class = "NSUUID" -> UuidStringify(key("NS.uuidbytes"))
        [] class = "Custom" /\ InMap(class, known) ->
             LET values == <<key("field")>>
             IN  FirstFailure(values, <<"Custom", values>>)
        [] class = "XCTestConfiguration" -> Threw
        \* NSNull, and NSIgnore for every class that is not in the map
        [] OTHER -> Null

DecodeObject(objs, known, uid, path) ==
  CASE Resumes(objs, uid, path) -> Overflow
    [] uid >= Len(objs) -> Undefined
    [] ~IsObject(objs, uid) -> objs[uid + 1]
    [] OTHER -> DecodeArchive(objs[uid + 1], objs, known, path \cup {uid})

\* unarchive(): the root is the object archived first.
Unarchive ==
  /\ objects # <<>> /\ output = NoValue
  /\ output' = DecodeObject(objects, classMap, 1, {})
  /\ UNCHANGED <<classMap, input, knownThen, objects>>

\* An archive comes from a device.
Receive(list) ==
  /\ objects' = list
  /\ UNCHANGED <<classMap, input, knownThen, output>>

\* updateNSKeyedArchiveClass: a name that is there already is left as it is.
UpdateClass(name) ==
  /\ classMap' = classMap \cup {name}
  /\ UNCHANGED <<input, knownThen, objects, output>>

KeyedNext ==
  \/ Idling /\ \E v \in Values : Archive(v)
  \/ Idling /\ \E list \in Archives : Receive(list)
  \/ Unarchive
  \/ UpdateClass("Custom")

---------------------------------------------------------------------------
(* Properties.                                                             *)

\* The parts of a value.
RECURSIVE Parts(_)
Parts(v) ==
  {v} \cup CASE v[1] \in {"array", "set", "NSURL", "Custom"} -> UNION {Parts(v[2][i]) : i \in DOMAIN v[2]}
             [] v[1] \in {"dict", "config"} -> UNION {Parts(v[2][i][2]) : i \in DOMAIN v[2]}
             [] OTHER -> {}

Kinds(v) == {part[1] : part \in Parts(v)}

\* What should come back: dates as seconds, identifiers as texts in small letters, and
\* an instance of a class nobody has added as a plain object.
RECURSIVE Plain(_, _)
Plain(v, known) ==
  CASE v[1] = "array" -> <<"array", [i \in DOMAIN v[2] |-> Plain(v[2][i], known)]>>
    [] v[1] = "dict" -> <<"dict", [i \in DOMAIN v[2] |-> <<v[2][i][1], Plain(v[2][i][2], known)>>]>>
    [] v[1] = "NSURL" -> <<"NSURL", [i \in DOMAIN v[2] |-> Plain(v[2][i], known)]>>
    [] v[1] = "NSDate" -> v[2][1]
    [] v[1] = "NSUUID" -> LowerUuid
    [] v[1] = "Custom" -> IF InMap("Custom", known) THEN <<"Custom", <<Plain(v[2][1], known)>>>>
                          ELSE Plain(AsPlain(v), known)
    [] OTHER -> v

\* unarchive gives back what was given to archive, if it has no null in it and nothing
\* that can be encoded only or not at all; a null comes back as the text $null.  With
\* an NSUUID of a text that is no identifier in it, nothing is archived.
RoundTrip ==
  output # NoValue /\ input # NoValue
    /\ Kinds(input) \cap {"null", "set", "NSNull", "config"} = {} =>
      output = IF \A part \in Parts(input) : part[1] = "NSUUID" => part[2][1] \in Uuids
               THEN Plain(input, knownThen) ELSE Threw

\* The objects that are gone into from an object: those a known class refers to.
Goes(objs, uid) ==
  IF ~IsObject(objs, uid) \/ objs[objs[uid + 1][2] + 1][2] \notin {"NSArray", "NSDictionary"} THEN {}
  ELSE UNION {LET field == objs[uid + 1][3][i][2]
              IN  {field[2][j][2] : j \in DOMAIN field[2]} : i \in DOMAIN objs[uid + 1][3]}

RECURSIVE Reached(_, _)
Reached(objs, from) ==
  LET all == from \cup UNION {Goes(objs, uid) : uid \in from}
  IN  IF all = from THEN from ELSE Reached(objs, all)

\* unarchive comes to an end with every archive of a device, however its objects share
\* others, but for those with a cycle, which overflow the stack (decodeObject).
EndsUnlessCyclic ==
  output # NoValue /\ input = NoValue =>
    ((output = Overflow) <=> \E uid \in Reached(objects, {1}) : uid \in Reached(objects, Goes(objects, uid)))
=============================================================================
