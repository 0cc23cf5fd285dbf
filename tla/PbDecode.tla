------------------------------ MODULE PbDecode ------------------------------
(***************************************************************************)
(* The decoding of sensor messages in qshPb (src/utils/src/qshPb.cpp).  A  *)
(* client event message holds events; nanopb (external) calls              *)
(* decode_suids or decode_attributes for each of them in turn, and         *)
(* decode_attributes decodes the payload with a callback of its own for    *)
(* each attribute, until a callback returns false.  What the callbacks     *)
(* have written to the client's containers by then stays there.  Bytes are *)
(* abstracted to events and attributes that can be decoded or not.         *)
(***************************************************************************)
EXTENDS Naturals, SequencesExt

CONSTANTS
  Suids,      \* sensor UIDs
  Datatypes,  \* data types
  AttrIds,    \* attribute ids
  Data,       \* what values are
  Nothing,    \* no entry, no data type
  Messages    \* the messages there are: sequences of ClientEvent

FieldNames == {"str", "emptyStr", "flt", "sint", "boolean", "subtype"}
AttrValue == [fields : SUBSET FieldNames, data : Data]
Attr == [id : AttrIds, values : Seq(AttrValue), ok : BOOLEAN]

\* An event of the sensor that finds SUIDs, of a sensor's attributes, of
\* another kind, or one whose header cannot be decoded.
ClientEvent ==
  [kind : {"suid"}, suids : Seq(Suids), type : Datatypes, ok : BOOLEAN]
    \cup [kind : {"attr"}, attrs : Seq(Attr), ok : BOOLEAN]
    \cup [kind : {"other", "malformed"}]

ASSUME MessagesAssumption ==
  /\ Messages \subseteq Seq(ClientEvent)
  /\ Nothing \notin Datatypes

VARIABLES
  message,    \* the message
  callback,   \* decode_suids or decode_attributes
  pos,        \* the event nanopb is at
  sub,        \* decode_attributes: the attributes of it that are done
  status,     \* "decoding", and what the decoding returned: "true" or "false"
  suids, datatype,    \* suid_list of decode_suids
  attrs               \* sensor_attributes of decode_attributes

vars == <<message, callback, pos, sub, status, suids, datatype, attrs>>
suidList == <<suids, datatype>>

Init ==
  /\ message \in Messages
  /\ callback \in {"decode_suids", "decode_attributes"}
  /\ pos = 1
  /\ sub = 0
  /\ status = "decoding"
  /\ suids = <<>>
  /\ datatype = Nothing
  /\ attrs = [id \in AttrIds |-> Nothing]

--------------------------------------------------------------------------------

Event == message[pos]
Decoding(name) == status = "decoding" /\ callback = name /\ pos <= Len(message)

\* "none", for 0, which no event has, if the header cannot be decoded.
get_msg_id(event) == IF event.kind = "malformed" THEN "none" ELSE event.kind

Wanted == IF callback = "decode_suids" THEN "suid" ELSE "attr"

Fail == status' = "false" /\ UNCHANGED <<pos, sub>>

NextEvent == pos' = pos + 1 /\ sub' = 0 /\ UNCHANGED status

\* Events of another kind, and those whose kind cannot be decoded, are
\* skipped as if decoded.
SkipEvent ==
  /\ Decoding(callback)
  /\ get_msg_id(Event) # Wanted
  /\ NextEvent
  /\ UNCHANGED <<message, callback, suidList, attrs>>

\* Slip: the SUIDs are appended to the client's list one by one.
AppendWhileDecoding ==
  /\ Decoding("decode_suids")
  /\ get_msg_id(Event) = "suid"
  /\ suids' = suids \o Event.suids
  /\ IF Event.ok
     THEN datatype' = Event.type /\ NextEvent
     ELSE UNCHANGED datatype /\ Fail
  /\ UNCHANGED <<message, callback, attrs>>

\* The SUIDs of an event are appended, and its data type replaces the one
\* before, when all of it has been decoded.
decode_suids ==
  /\ Decoding("decode_suids")
  /\ get_msg_id(Event) = "suid"
  /\ IF Event.ok
     THEN suids' = suids \o Event.suids /\ datatype' = Event.type /\ NextEvent
     ELSE UNCHANGED suidList /\ Fail
  /\ UNCHANGED <<message, callback, attrs>>

Priority == <<"str", "flt", "sint", "boolean", "subtype">>

\* Slip: each field that is there sets its flag.
HasEveryField(value) == value.fields \cap Range(Priority)

\* The flag of the first field that is there; an empty string is not.
Has(value) ==
  {Priority[i] : i \in {j \in DOMAIN Priority :
     /\ Priority[j] \in value.fields
     /\ \A k \in 1 .. (j - 1) : Priority[k] \notin value.fields}}

\* The floats of a subtype are collected whichever flag is set.
decode_attribute_value(value) ==
  [has |-> Has(value), data |-> value.data, floats |-> "subtype" \in value.fields]

Values(attr) == [i \in DOMAIN attr.values |-> decode_attribute_value(attr.values[i])]

\* Slip: the values are added to those of an attribute that was there.
AddAttribute(attr) ==
  attrs' = [attrs EXCEPT ![attr.id] =
              IF @ = Nothing THEN Values(attr) ELSE @ \o Values(attr)]

SetAttribute(attr) == attrs' = [attrs EXCEPT ![attr.id] = Values(attr)]

\* Slip: an attribute that cannot be decoded is passed over, as decoded.
PassOverBroken ==
  /\ Decoding("decode_attributes")
  /\ get_msg_id(Event) = "attr"
  /\ sub < Len(Event.attrs)
  /\ LET attr == Event.attrs[sub + 1]
     IN IF attr.ok THEN SetAttribute(attr) ELSE UNCHANGED attrs
  /\ sub' = sub + 1
  /\ UNCHANGED <<message, callback, pos, status, suidList>>

\* The next attribute of the event replaces what its id had.
decode_attribute ==
  /\ Decoding("decode_attributes")
  /\ get_msg_id(Event) = "attr"
  /\ sub < Len(Event.attrs)
  /\ LET attr == Event.attrs[sub + 1]
     IN IF attr.ok
        THEN SetAttribute(attr) /\ sub' = sub + 1 /\ UNCHANGED <<pos, status>>
        ELSE UNCHANGED attrs /\ Fail
  /\ UNCHANGED <<message, callback, suidList>>

\* The rest of the payload, after its last attribute.
decode_attributes ==
  /\ Decoding("decode_attributes")
  /\ get_msg_id(Event) = "attr"
  /\ sub = Len(Event.attrs)
  /\ IF Event.ok THEN NextEvent ELSE Fail
  /\ UNCHANGED <<message, callback, suidList, attrs>>

Finish ==
  /\ status = "decoding"
  /\ pos > Len(message)
  /\ status' = "true"
  /\ UNCHANGED <<message, callback, pos, sub, suidList, attrs>>

Next == SkipEvent \/ decode_suids \/ decode_attribute \/ decode_attributes \/ Finish

Spec == Init /\ [][Next]_vars

--------------------------------------------------------------------------------
(* Properties.                                                             *)

Flags == {{}} \cup {{Priority[i]} : i \in DOMAIN Priority}
DecodedValue == [has : Flags, data : Data, floats : BOOLEAN]

\* The containers hold decoded data, a value with one flag or none, and the
\* position is in the message.
TypeOK ==
  /\ message \in Messages
  /\ callback \in {"decode_suids", "decode_attributes"}
  /\ pos \in 1 .. (Len(message) + 1)
  /\ sub \in Nat
  /\ status \in {"decoding", "true", "false"}
  /\ suids \in Seq(Suids)
  /\ datatype \in Datatypes \cup {Nothing}
  /\ attrs \in [AttrIds -> Seq(DecodedValue) \cup {Nothing}]
  /\ sub > 0 => /\ callback = "decode_attributes" /\ pos <= Len(message)
                /\ Event.kind = "attr" /\ sub <= Len(Event.attrs)

Decoded == 1 .. (pos - 1)    \* the events before the position

\* Between the two cuts the list has the SUIDs of the event, if it has any.
IsPiece(list, event, from, to) ==
  IF event.kind = "suid"
  THEN /\ to = from + Len(event.suids)
       /\ \A k \in DOMAIN event.suids : list[from + k] = event.suids[k]
  ELSE to = from

\* The client's list is that of the whole SUID events so far, cut into one
\* piece for each event, with the data type of the last: an event that breaks
\* off leaves nothing behind, whatever it had decoded, and one that is skipped
\* neither (qshPb.cpp 236-279).
SuidsOfWholeEvents ==
  callback = "decode_suids" =>
    /\ \E cut \in [1 .. pos -> 0 .. Len(suids)] :
         /\ cut[1] = 0
         /\ cut[pos] = Len(suids)
         /\ \A i \in Decoded : IsPiece(suids, message[i], cut[i], cut[i + 1])
    /\ LET events == {i \in Decoded : message[i].kind = "suid"}
       IN \/ events = {} /\ datatype = Nothing
          \/ \E last \in events : /\ \A i \in events : i <= last
                                  /\ datatype = message[last].type

\* The attributes of an event that were decoded so far, those of an event
\* that breaks off included.
Heard(i) ==
  IF message[i].kind # "attr" THEN {}
  ELSE IF i < pos THEN DOMAIN message[i].attrs
  ELSE IF i = pos THEN 1 .. sub
  ELSE {}

\* The map has the values each attribute had last, and only those of it: a
\* second event or a repeated id mixes nothing, and the attributes before one
\* that cannot be decoded are kept (qshPb.cpp 282-298, 310-335).
AttributesHeardLast ==
  callback = "decode_attributes" =>
    \A id \in AttrIds :
      \/ /\ attrs[id] = Nothing
         /\ \A i \in DOMAIN message : \A j \in Heard(i) : message[i].attrs[j].id # id
      \/ \E i \in DOMAIN message : \E j \in Heard(i) :
           /\ message[i].attrs[j].id = id
           /\ attrs[id] = Values(message[i].attrs[j])
           /\ \A k \in DOMAIN message : \A l \in Heard(k) :
                message[k].attrs[l].id = id => k < i \/ (k = i /\ l <= j)

\* Both parts of an event can be decoded: itself and all its attributes.
Whole(event) ==
  event.ok /\ (event.kind = "attr" => \A j \in DOMAIN event.attrs : event.attrs[j].ok)

WholeIfWanted(i) == get_msg_id(message[i]) = Wanted => Whole(message[i])

\* The result tells how far the containers go: to the end of the message if it
\* is true, and every event of the wanted kind is whole; to the first such
\* event that is not if it is false, and in it to its first attribute that
\* cannot be decoded.  So nothing is lost under a result of true, but for
\* events whose kind cannot be decoded (qshPb.cpp 236-280, 282-335).
ResultTells ==
  /\ status = "true" => \A i \in DOMAIN message : WholeIfWanted(i)
  /\ status = "false" =>
       /\ \A i \in Decoded : WholeIfWanted(i)
       /\ ~WholeIfWanted(pos)
       /\ Event.kind = "attr" =>
            /\ \A j \in 1 .. sub : Event.attrs[j].ok
            /\ sub < Len(Event.attrs) => ~Event.attrs[sub + 1].ok
=============================================================================
