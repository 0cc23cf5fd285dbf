--------------------------- MODULE PbDecodeProofs ---------------------------
(***************************************************************************)
(* Proofs about PbDecode, for any set of messages.                         *)
(***************************************************************************)
EXTENDS PbDecode, SequenceTheorems, TLAPS

--------------------------------------------------------------------------------
(* What is decoded of a value.                                             *)

\* At most one flag is set: two flags would each be the first.
LEMMA AtMostOneFlag ==
  ASSUME NEW value, NEW f \in Has(value), NEW g \in Has(value)
  PROVE  f = g
<1>1. PICK i \in 1 .. 5 : /\ f = Priority[i] /\ Priority[i] \in value.fields
                          /\ \A k \in 1 .. (i - 1) : Priority[k] \notin value.fields
  BY DEF Has, Priority
<1>2. PICK j \in 1 .. 5 : /\ g = Priority[j] /\ Priority[j] \in value.fields
                          /\ \A k \in 1 .. (j - 1) : Priority[k] \notin value.fields
  BY DEF Has, Priority
<1>3. ~(i < j) /\ ~(j < i)
  BY <1>1, <1>2
<1>4. i = j
  BY <1>3
<1> QED BY <1>1, <1>2, <1>4

LEMMA ValuesType ==
  ASSUME NEW attr \in Attr
  PROVE  Values(attr) \in Seq(DecodedValue)
<1>1. attr.values \in Seq(AttrValue)
  BY DEF Attr
<1>2. ASSUME NEW value \in AttrValue
      PROVE  decode_attribute_value(value) \in DecodedValue
  <2>1. Has(value) \subseteq {Priority[i] : i \in DOMAIN Priority}
    BY DEF Has
  <2>2. Has(value) \in Flags
    <3>1. CASE Has(value) = {}
      BY <3>1 DEF Flags
    <3>2. CASE Has(value) # {}
      <4>1. PICK i \in DOMAIN Priority : Priority[i] \in Has(value)
        BY <2>1, <3>2
      <4>2. Has(value) = {Priority[i]}
        BY <4>1, AtMostOneFlag
      <4> QED BY <4>1, <4>2 DEF Flags
    <3> QED BY <3>1, <3>2
  <2> QED BY <2>2 DEF decode_attribute_value, DecodedValue, AttrValue
<1>3. \A i \in 1 .. Len(attr.values) : attr.values[i] \in AttrValue
  BY <1>1
<1> QED BY <1>1, <1>2, <1>3 DEF Values

--------------------------------------------------------------------------------
(* Type correctness.                                                       *)

LEMMA InitType == Init => TypeOK
<1> SUFFICES ASSUME Init PROVE TypeOK
  OBVIOUS
<1>1. message \in Seq(ClientEvent)
  BY MessagesAssumption DEF Init
<1>2. Len(message) \in Nat
  BY <1>1
<1>3. suids \in Seq(Suids)
  BY DEF Init
<1> QED BY <1>2, <1>3 DEF Init, TypeOK

\* The event at the position is one of the message.
LEMMA EventType ==
  ASSUME TypeOK, pos <= Len(message)
  PROVE  /\ Event \in ClientEvent
         /\ pos + 1 \in 1 .. (Len(message) + 1)
<1>1. message \in Seq(ClientEvent)
  BY MessagesAssumption DEF TypeOK
<1>2. Len(message) \in Nat /\ pos \in 1 .. Len(message)
  BY <1>1 DEF TypeOK
<1> QED BY <1>1, <1>2 DEF Event

\* The events that have SUIDs have a list of them.
LEMMA MessageType ==
  ASSUME TypeOK
  PROVE  /\ \A i \in 1 .. Len(message) :
              message[i].kind = "suid" => message[i].suids \in Seq(Suids)
         /\ Len(message) \in Nat
<1>1. message \in Seq(ClientEvent)
  BY MessagesAssumption DEF TypeOK
<1> QED BY <1>1 DEF ClientEvent

LEMMA NextType == TypeOK /\ [Next]_vars => TypeOK'
<1> SUFFICES ASSUME TypeOK, [Next]_vars PROVE TypeOK'
  OBVIOUS
<1>1. CASE SkipEvent
  <2>1. pos' \in 1 .. (Len(message) + 1)
    BY <1>1, EventType DEF SkipEvent, NextEvent, Decoding
  <2> QED BY <1>1, <2>1 DEF SkipEvent, NextEvent, TypeOK, suidList
<1>2. CASE decode_suids
  <2>1. Event \in ClientEvent /\ Event.kind = "suid"
    BY <1>2, EventType DEF decode_suids, Decoding, get_msg_id
  <2>2. Event.suids \in Seq(Suids) /\ Event.type \in Datatypes
    BY <2>1 DEF ClientEvent
  <2>3. suids \o Event.suids \in Seq(Suids)
    BY <2>2 DEF TypeOK
  <2>4. pos + 1 \in 1 .. (Len(message) + 1)
    BY <1>2, EventType DEF decode_suids, Decoding
  <2>5. CASE Event.ok
    <3>1. /\ suids' \in Seq(Suids) /\ datatype' \in Datatypes
          /\ pos' \in 1 .. (Len(message) + 1) /\ sub' = 0
          /\ UNCHANGED <<message, callback, status, attrs>>
      BY <1>2, <2>2, <2>3, <2>4, <2>5 DEF decode_suids, NextEvent
    <3> QED BY <3>1 DEF TypeOK
  <2>6. CASE ~Event.ok
    BY <1>2, <2>6 DEF decode_suids, Decoding, Fail, TypeOK, suidList, Event
  <2> QED BY <2>5, <2>6
<1>3. CASE decode_attribute
  <2>1. Event \in ClientEvent /\ Event.kind = "attr"
    BY <1>3, EventType DEF decode_attribute, Decoding, get_msg_id
  <2>2. Event.attrs \in Seq(Attr)
    BY <2>1 DEF ClientEvent
  <2> DEFINE attr == Event.attrs[sub + 1]
  <2>3. sub + 1 \in 1 .. Len(Event.attrs)
    BY <1>3, <2>2 DEF decode_attribute, TypeOK
  <2>4. attr \in Attr
    BY <2>2, <2>3
  <2>5. CASE attr.ok
    <3>1. attrs' \in [AttrIds -> Seq(DecodedValue) \cup {Nothing}]
      BY <1>3, <2>4, <2>5, ValuesType DEF decode_attribute, SetAttribute, TypeOK
    <3>2. /\ sub' = sub + 1
          /\ UNCHANGED <<message, callback, pos, status, suids, datatype>>
      BY <1>3, <2>5 DEF decode_attribute, suidList
    <3>3. /\ callback = "decode_attributes" /\ pos <= Len(message)
          /\ Event' = Event /\ sub + 1 <= Len(Event.attrs) /\ sub + 1 \in Nat
      BY <1>3, <2>3, <3>2 DEF decode_attribute, Decoding, Event, TypeOK
    <3> QED BY <2>1, <3>1, <3>2, <3>3 DEF TypeOK
  <2>6. CASE ~attr.ok
    BY <1>3, <2>6 DEF decode_attribute, Decoding, Fail, TypeOK, suidList, Event
  <2> QED BY <2>5, <2>6
<1>4. CASE decode_attributes
  <2>1. pos + 1 \in 1 .. (Len(message) + 1)
    BY <1>4, EventType DEF decode_attributes, Decoding
  <2>2. CASE Event.ok
    BY <1>4, <2>1, <2>2 DEF decode_attributes, NextEvent, TypeOK, suidList
  <2>3. CASE ~Event.ok
    BY <1>4, <2>3 DEF decode_attributes, Decoding, Fail, TypeOK, suidList, Event
  <2> QED BY <2>2, <2>3
<1>5. CASE Finish
  BY <1>5 DEF Finish, TypeOK, suidList, Event
<1>6. CASE UNCHANGED vars
  BY <1>6 DEF vars, TypeOK, Event
<1> QED BY <1>1, <1>2, <1>3, <1>4, <1>5, <1>6 DEF Next

\* The decoder stays within the message and fills its containers with decoded
\* data (qshPb.cpp 226-335).
THEOREM TypeCorrect == Spec => []TypeOK
<1> QED BY InitType, NextType, PTL DEF Spec

--------------------------------------------------------------------------------
(* The result.                                                             *)

\* The events and attributes before the position are whole, and the decoding
\* fails at one that is not.
ResultInv ==
  /\ \A i \in Decoded : WholeIfWanted(i)
  /\ sub > 0 => \A j \in 1 .. sub : Event.attrs[j].ok
  /\ status = "true" => pos = Len(message) + 1
  /\ status = "false" =>
       /\ pos <= Len(message)
       /\ ~WholeIfWanted(pos)
       /\ Event.kind = "attr" /\ sub < Len(Event.attrs) => ~Event.attrs[sub + 1].ok

\* The next event begins after one that is whole, or not wanted.
LEMMA NextWhole ==
  ASSUME TypeOK, ResultInv, NextEvent, status = "decoding", WholeIfWanted(pos),
         message' = message, callback' = callback
  PROVE  ResultInv'
<1>1. pos \in Nat \ {0} /\ pos' = pos + 1 /\ sub' = 0 /\ status' = status
  BY DEF TypeOK, NextEvent
<1>2. Decoded' = Decoded \cup {pos}
  BY <1>1 DEF Decoded
<1>3. \A i : WholeIfWanted(i)' = WholeIfWanted(i)
  BY DEF WholeIfWanted, Wanted
<1>4. \A i \in Decoded' : WholeIfWanted(i)
  BY <1>2 DEF ResultInv
<1> QED BY <1>1, <1>3, <1>4 DEF ResultInv

\* The decoding fails at an event that is not whole.
LEMMA FailsBroken ==
  ASSUME ResultInv, Fail, pos <= Len(message), ~WholeIfWanted(pos),
         Event.kind = "attr" /\ sub < Len(Event.attrs) => ~Event.attrs[sub + 1].ok,
         message' = message, callback' = callback
  PROVE  ResultInv'
<1>1. UNCHANGED <<pos, sub>> /\ status' = "false"
  BY DEF Fail
<1>2. Event' = Event /\ Decoded' = Decoded
  BY <1>1 DEF Event, Decoded
<1>3. \A i : WholeIfWanted(i)' = WholeIfWanted(i)
  BY DEF WholeIfWanted, Wanted
<1> QED BY <1>1, <1>2, <1>3 DEF ResultInv

LEMMA ResultNext == TypeOK /\ ResultInv /\ [Next]_vars => ResultInv'
<1> SUFFICES ASSUME TypeOK, ResultInv, [Next]_vars PROVE ResultInv'
  OBVIOUS
<1>1. CASE SkipEvent
  <2>1. NextEvent /\ status = "decoding" /\ get_msg_id(Event) # Wanted
        /\ UNCHANGED <<message, callback>>
    BY <1>1 DEF SkipEvent, Decoding
  <2>2. WholeIfWanted(pos)
    BY <2>1 DEF WholeIfWanted, Event
  <2> QED BY <2>1, <2>2, NextWhole
<1>2. CASE decode_suids
  <2>1. /\ status = "decoding" /\ pos <= Len(message) /\ Event.kind = "suid"
        /\ get_msg_id(Event) = Wanted /\ UNCHANGED <<message, callback>>
    BY <1>2 DEF decode_suids, Decoding, get_msg_id, Wanted
  <2>2. CASE Event.ok
    <3>1. WholeIfWanted(pos)
      BY <2>1, <2>2 DEF WholeIfWanted, Whole, Event
    <3> QED BY <1>2, <2>1, <2>2, <3>1, NextWhole DEF decode_suids
  <2>3. CASE ~Event.ok
    <3>1. ~WholeIfWanted(pos)
      BY <2>1, <2>3 DEF WholeIfWanted, Whole, Event
    <3>2. Fail
      BY <1>2, <2>3 DEF decode_suids
    <3> QED BY <2>1, <3>1, <3>2, FailsBroken
  <2> QED BY <2>2, <2>3
<1>3. CASE decode_attribute
  <2>1. /\ status = "decoding" /\ pos <= Len(message) /\ Event.kind = "attr"
        /\ get_msg_id(Event) = Wanted /\ sub < Len(Event.attrs)
        /\ UNCHANGED <<message, callback>>
    BY <1>3 DEF decode_attribute, Decoding, get_msg_id, Wanted
  <2>2. sub \in Nat /\ Event.attrs \in Seq(Attr)
    BY <2>1, EventType DEF TypeOK, ClientEvent
  <2>3. CASE Event.attrs[sub + 1].ok
    <3>1. sub' = sub + 1 /\ UNCHANGED <<pos, status>>
      BY <1>3, <2>3 DEF decode_attribute
    <3>2. Event' = Event /\ Decoded' = Decoded
      BY <2>1, <3>1 DEF Event, Decoded
    <3>3. \A i : WholeIfWanted(i)' = WholeIfWanted(i)
      BY <2>1 DEF WholeIfWanted, Wanted
    <3>4. \A j \in 1 .. (sub + 1) : j \in 1 .. sub \/ j = sub + 1
      BY <2>2
    <3>5. \A j \in 1 .. (sub + 1) : Event.attrs[j].ok
      BY <2>2, <2>3, <3>4 DEF ResultInv
    <3> QED BY <2>1, <3>1, <3>2, <3>3, <3>5 DEF ResultInv
  <2>4. CASE ~Event.attrs[sub + 1].ok
    <3>1. sub + 1 \in DOMAIN Event.attrs
      BY <2>1, <2>2
    <3>2. ~WholeIfWanted(pos)
      BY <2>1, <2>4, <3>1 DEF WholeIfWanted, Whole, Event
    <3>3. Fail
      BY <1>3, <2>4 DEF decode_attribute
    <3> QED BY <2>1, <2>4, <3>2, <3>3, FailsBroken
  <2> QED BY <2>3, <2>4
<1>4. CASE decode_attributes
  <2>1. /\ status = "decoding" /\ pos <= Len(message) /\ Event.kind = "attr"
        /\ get_msg_id(Event) = Wanted /\ sub = Len(Event.attrs)
        /\ UNCHANGED <<message, callback>>
    BY <1>4 DEF decode_attributes, Decoding, get_msg_id, Wanted
  <2>2. sub \in Nat /\ Event.attrs \in Seq(Attr)
    BY <2>1, EventType DEF TypeOK, ClientEvent
  <2>3. CASE Event.ok
    <3>1. \A j \in DOMAIN Event.attrs : sub > 0 /\ j \in 1 .. sub
      BY <2>1, <2>2
    <3>2. \A j \in DOMAIN Event.attrs : Event.attrs[j].ok
      BY <3>1 DEF ResultInv
    <3>3. WholeIfWanted(pos)
      BY <2>3, <3>2 DEF WholeIfWanted, Whole, Event
    <3> QED BY <1>4, <2>1, <2>3, <3>3, NextWhole DEF decode_attributes
  <2>4. CASE ~Event.ok
    <3>1. ~WholeIfWanted(pos)
      BY <2>1, <2>4 DEF WholeIfWanted, Whole, Event
    <3>2. Fail
      BY <1>4, <2>4 DEF decode_attributes
    <3> QED BY <2>1, <2>2, <3>1, <3>2, FailsBroken
  <2> QED BY <2>3, <2>4
<1>5. CASE Finish
  <2>1. /\ status' = "true" /\ pos > Len(message)
        /\ UNCHANGED <<message, callback, pos, sub>>
    BY <1>5 DEF Finish
  <2>2. pos = Len(message) + 1
    BY <2>1, MessageType DEF TypeOK
  <2> QED BY <2>1, <2>2 DEF ResultInv, Event, Decoded, WholeIfWanted, Wanted
<1>6. CASE UNCHANGED vars
  BY <1>6 DEF vars, ResultInv, Event, Decoded, WholeIfWanted, Wanted
<1> QED BY <1>1, <1>2, <1>3, <1>4, <1>5, <1>6 DEF Next

\* The result tells how far the containers go: a decoding that returns true
\* has left out no event of its kind, and one that returns false has stopped
\* at the first that breaks off (qshPb.cpp 236-280, 282-335).
THEOREM ResultIsHonest == Spec => []ResultTells
<1>1. Init => ResultInv
  BY DEF Init, ResultInv, Decoded
<1>2. TypeOK /\ ResultInv => ResultTells
  <2> SUFFICES ASSUME TypeOK, ResultInv PROVE ResultTells
    OBVIOUS
  <2>1. DOMAIN message = 1 .. Len(message) /\ Len(message) \in Nat /\ pos \in Nat
    BY MessagesAssumption, MessageType DEF TypeOK
  <2>2. status = "true" => \A i \in DOMAIN message : i \in Decoded
    BY <2>1 DEF ResultInv, Decoded
  <2>3. \A j \in 1 .. sub : Event.attrs[j].ok
    BY DEF ResultInv, TypeOK
  <2> QED BY <2>2, <2>3 DEF ResultInv, ResultTells
<1> QED BY <1>1, <1>2, InitType, NextType, ResultNext, PTL DEF Spec

--------------------------------------------------------------------------------
(* The list of SUIDs.                                                      *)

\* A piece of a list is one of any list that continues it.
LEMMA PieceOfLonger ==
  ASSUME NEW S, NEW list \in Seq(S), NEW more \in Seq(S),
         NEW event, event.kind = "suid" => event.suids \in Seq(S),
         NEW from \in Nat, NEW to \in 0 .. Len(list), IsPiece(list, event, from, to)
  PROVE  IsPiece(list \o more, event, from, to)
<1>1. CASE event.kind = "suid"
  <2>1. /\ to = from + Len(event.suids) /\ Len(event.suids) \in Nat
        /\ DOMAIN event.suids = 1 .. Len(event.suids)
    BY <1>1 DEF IsPiece
  <2>2. \A k \in DOMAIN event.suids :
          /\ from + k \in 1 .. Len(list) /\ list[from + k] = event.suids[k]
    BY <1>1, <2>1 DEF IsPiece
  <2>3. \A i \in 1 .. Len(list) : (list \o more)[i] = list[i]
    OBVIOUS
  <2> QED BY <1>1, <2>1, <2>2, <2>3 DEF IsPiece
<1>2. CASE event.kind # "suid"
  BY <1>2 DEF IsPiece
<1> QED BY <1>1, <1>2

\* What is appended to a list is its last piece.
LEMMA LastPiece ==
  ASSUME NEW S, NEW list \in Seq(S), NEW event, event.kind = "suid",
         event.suids \in Seq(S)
  PROVE  IsPiece(list \o event.suids, event, Len(list), Len(list \o event.suids))
  BY DEF IsPiece

\* What an event adds to the list.
Added(event) == IF event.kind = "suid" THEN event.suids ELSE <<>>

\* The list has its pieces.
Pieces ==
  \E cut \in [1 .. pos -> 0 .. Len(suids)] :
    /\ cut[1] = 0
    /\ cut[pos] = Len(suids)
    /\ \A i \in Decoded : IsPiece(suids, message[i], cut[i], cut[i + 1])

\* The data type is the one of the last event that has one.
TypeOfLast ==
  LET events == {i \in Decoded : message[i].kind = "suid"}
  IN \/ events = {} /\ datatype = Nothing
     \/ \E last \in events : /\ \A i \in events : i <= last
                             /\ datatype = message[last].type

\* One more event, one more piece.
LEMMA NextPiece ==
  ASSUME TypeOK, Pieces, pos <= Len(message), pos' = pos + 1, message' = message,
         suids' = suids \o Added(Event)
  PROVE  Pieces'
<1>1. pos \in 1 .. Len(message) /\ pos \in Nat /\ suids \in Seq(Suids)
  BY MessageType DEF TypeOK
<1> DEFINE more == Added(Event)
<1>2. more \in Seq(Suids)
  BY <1>1, MessageType DEF Added, Event
<1>3. suids' = suids \o more
  OBVIOUS
<1> HIDE DEF more
<1>4. PICK cut \in [1 .. pos -> 0 .. Len(suids)] :
        /\ cut[1] = 0
        /\ cut[pos] = Len(suids)
        /\ \A i \in Decoded : IsPiece(suids, message[i], cut[i], cut[i + 1])
  BY DEF Pieces
<1>5. Len(suids) \in Nat /\ Len(suids') \in Nat /\ Len(suids) <= Len(suids')
  BY <1>1, <1>2, <1>3
<1> DEFINE next == [i \in 1 .. (pos + 1) |-> IF i <= pos THEN cut[i] ELSE Len(suids')]
<1>6. /\ next \in [1 .. (pos + 1) -> 0 .. Len(suids')]
      /\ next[1] = 0 /\ next[pos] = Len(suids) /\ next[pos + 1] = Len(suids')
      /\ \A i \in 1 .. (pos - 1) :
           /\ next[i] = cut[i] /\ next[i + 1] = cut[i + 1]
           /\ cut[i] \in 0 .. Len(suids) /\ cut[i + 1] \in 0 .. Len(suids)
  BY <1>1, <1>4, <1>5
<1> HIDE DEF next
<1>7. ASSUME NEW i \in 1 .. (pos - 1)
      PROVE  IsPiece(suids', message[i], next[i], next[i + 1])
  <2>1. IsPiece(suids, message[i], cut[i], cut[i + 1])
    BY <1>4 DEF Decoded
  <2>2. i \in 1 .. Len(message) /\ cut[i] \in Nat
    BY <1>1, <1>5, <1>6, MessageType
  <2>3. message[i].kind = "suid" => message[i].suids \in Seq(Suids)
    BY <2>2, MessageType
  <2>4. cut[i + 1] \in 0 .. Len(suids)
    BY <1>6
  <2>5. IsPiece(suids \o more, message[i], cut[i], cut[i + 1])
    BY <1>1, <1>2, <2>1, <2>2, <2>3, <2>4, PieceOfLonger
  <2> QED BY <1>3, <1>6, <2>5
<1>8. IsPiece(suids', message[pos], next[pos], next[pos + 1])
  <2>1. CASE message[pos].kind = "suid"
    <3>1. more = message[pos].suids
      BY <2>1 DEF more, Added, Event
    <3>2. IsPiece(suids \o more, message[pos], Len(suids), Len(suids \o more))
      BY <1>1, <1>2, <2>1, <3>1, LastPiece
    <3> QED BY <1>3, <1>6, <3>2
  <2>2. CASE message[pos].kind # "suid"
    <3>1. suids' = suids
      BY <1>1, <1>3, <2>2 DEF more, Added, Event
    <3> QED BY <1>6, <2>2, <3>1 DEF IsPiece
  <2> QED BY <2>1, <2>2
<1>9. \A i \in 1 .. pos : IsPiece(suids', message[i], next[i], next[i + 1])
  BY <1>1, <1>7, <1>8
<1>10. Decoded' = 1 .. pos
  BY <1>1 DEF Decoded
<1>11. \E c \in [1 .. pos' -> 0 .. Len(suids')] :
         /\ c[1] = 0
         /\ c[pos'] = Len(suids')
         /\ \A i \in 1 .. pos : IsPiece(suids', message'[i], c[i], c[i + 1])
  BY <1>6, <1>9
<1> QED BY <1>10, <1>11 DEF Pieces

LEMMA NextTypeOfLast ==
  ASSUME TypeOK, TypeOfLast, pos <= Len(message), pos' = pos + 1, message' = message,
         datatype' = IF Event.kind = "suid" THEN Event.type ELSE datatype
  PROVE  TypeOfLast'
<1>1. pos \in Nat \ {0}
  BY MessageType DEF TypeOK
<1> DEFINE events == {i \in Decoded : message[i].kind = "suid"}
<1>2. Decoded' = Decoded \cup {pos} /\ \A i \in Decoded : i <= pos
  BY <1>1 DEF Decoded
<1>3. {i \in Decoded' : message'[i].kind = "suid"} =
        IF Event.kind = "suid" THEN events \cup {pos} ELSE events
  BY <1>2 DEF Event
<1>4. CASE Event.kind = "suid"
  BY <1>1, <1>2, <1>3, <1>4 DEF TypeOfLast, Event
<1>5. CASE Event.kind # "suid"
  BY <1>3, <1>5 DEF TypeOfLast
<1> QED BY <1>4, <1>5

LEMMA SameCallback == ASSUME [Next]_vars PROVE callback' = callback
<1>1. CASE SkipEvent \/ Finish \/ UNCHANGED vars
  BY <1>1 DEF SkipEvent, Finish, vars
<1>2. CASE decode_suids \/ decode_attribute \/ decode_attributes
  BY <1>2 DEF decode_suids, decode_attribute, decode_attributes
<1> QED BY <1>1, <1>2 DEF Next

SuidInv == callback = "decode_suids" => Pieces /\ TypeOfLast

LEMMA SuidNext == TypeOK /\ SuidInv /\ [Next]_vars => SuidInv'
<1> SUFFICES ASSUME TypeOK, SuidInv, [Next]_vars, callback = "decode_suids"
             PROVE  Pieces' /\ TypeOfLast'
  BY SameCallback DEF SuidInv
<1>1. ASSUME UNCHANGED <<message, pos, suids, datatype>>
      PROVE  Pieces' /\ TypeOfLast'
  BY <1>1 DEF SuidInv, Pieces, TypeOfLast, Decoded
<1>2. CASE SkipEvent
  <2>1. /\ pos <= Len(message) /\ pos' = pos + 1 /\ Event.kind # "suid"
        /\ UNCHANGED <<message, suids, datatype>>
    BY <1>2 DEF SkipEvent, Decoding, get_msg_id, Wanted, NextEvent, suidList
  <2>2. suids' = suids \o Added(Event)
    BY <2>1 DEF Added, TypeOK
  <2> QED BY <2>1, <2>2, NextPiece, NextTypeOfLast DEF SuidInv
<1>3. CASE decode_suids
  <2>1. pos <= Len(message) /\ Event.kind = "suid" /\ message' = message
    BY <1>3 DEF decode_suids, Decoding, get_msg_id
  <2>2. CASE Event.ok
    <3>1. suids' = suids \o Added(Event) /\ datatype' = Event.type /\ pos' = pos + 1
      BY <1>3, <2>1, <2>2 DEF decode_suids, NextEvent, Added
    <3> QED BY <2>1, <3>1, NextPiece, NextTypeOfLast DEF SuidInv
  <2>3. CASE ~Event.ok
    BY <1>1, <1>3, <2>3 DEF decode_suids, Fail, suidList
  <2> QED BY <2>2, <2>3
<1>4. CASE decode_attribute \/ decode_attributes
  BY <1>4 DEF decode_attribute, decode_attributes, Decoding
<1>5. CASE Finish \/ UNCHANGED vars
  BY <1>1, <1>5 DEF Finish, vars, suidList
<1> QED BY <1>2, <1>3, <1>4, <1>5 DEF Next

\* The client's list is that of the whole SUID events so far, in order and
\* with the data type of the last: one that breaks off or is skipped leaves
\* nothing behind (qshPb.cpp 236-279).
THEOREM WholeEvents == Spec => []SuidsOfWholeEvents
<1>1. Init => SuidInv
  <2> SUFFICES ASSUME Init PROVE Pieces /\ TypeOfLast
    BY DEF SuidInv
  <2>1. pos = 1 /\ suids = <<>> /\ datatype = Nothing /\ Decoded = {}
    BY DEF Init, Decoded
  <2>2. [i \in {1} |-> 0] \in [1 .. 1 -> 0 .. 0]
    OBVIOUS
  <2>3. Pieces
    BY <2>1, <2>2 DEF Pieces
  <2> QED BY <2>1, <2>3 DEF TypeOfLast
<1>2. SuidInv => SuidsOfWholeEvents
  BY DEF SuidInv, Pieces, TypeOfLast, SuidsOfWholeEvents
<1> QED BY <1>1, <1>2, InitType, NextType, SuidNext, PTL DEF Spec

--------------------------------------------------------------------------------
(* The map of attributes.                                                  *)

\* The map has what each attribute had last.
HeardLast(id) ==
  \/ /\ attrs[id] = Nothing
     /\ \A i \in DOMAIN message : \A j \in Heard(i) : message[i].attrs[j].id # id
  \/ \E i \in DOMAIN message : \E j \in Heard(i) :
       /\ message[i].attrs[j].id = id
       /\ attrs[id] = Values(message[i].attrs[j])
       /\ \A k \in DOMAIN message : \A l \in Heard(k) :
            message[k].attrs[l].id = id => k < i \/ (k = i /\ l <= j)

AttrInv ==
  callback = "decode_attributes" => \A id \in AttrIds : HeardLast(id)

\* A step that hears nothing new leaves the map as it is.
LEMMA NothingHeard ==
  ASSUME AttrInv, message' = message, callback' = callback, attrs' = attrs,
         \A i \in DOMAIN message : Heard(i)' = Heard(i)
  PROVE  AttrInv'
  BY DEF AttrInv, HeardLast

\* The events that have attributes have a list of them.
LEMMA AttrsType ==
  ASSUME TypeOK
  PROVE  /\ message \in Seq(ClientEvent)
         /\ DOMAIN message = 1 .. Len(message) /\ Len(message) \in Nat
         /\ \A i \in DOMAIN message :
              message[i].kind = "attr" => message[i].attrs \in Seq(Attr)
<1>1. message \in Seq(ClientEvent)
  BY MessagesAssumption DEF TypeOK
<1> QED BY <1>1 DEF ClientEvent

\* The next attribute is heard after all others, and replaces what its id had.
LEMMA OneMoreHeard ==
  ASSUME TypeOK, AttrInv, decode_attribute, Event.attrs[sub + 1].ok
  PROVE  AttrInv'
<1> DEFINE attr == message[pos].attrs[sub + 1]
<1>1. /\ pos \in 1 .. Len(message) /\ pos \in Nat /\ sub \in Nat
      /\ callback = "decode_attributes" /\ message[pos].kind = "attr"
      /\ sub < Len(message[pos].attrs)
      /\ DOMAIN attrs = AttrIds
  BY AttrsType DEF TypeOK, decode_attribute, Decoding, get_msg_id, Event
<1>2. /\ attrs' = [attrs EXCEPT ![attr.id] = Values(attr)]
      /\ sub' = sub + 1
      /\ UNCHANGED <<message, callback, pos>>
  BY DEF decode_attribute, SetAttribute, Event
<1> HIDE DEF attr
<1>3. \A i \in DOMAIN message \ {pos} : Heard(i)' = Heard(i)
  BY <1>2 DEF Heard
<1>4. /\ \A i \in DOMAIN message : i = pos => /\ Heard(i) = 1 .. sub
                                           /\ Heard(i)' = 1 .. (sub + 1)
      /\ pos \in DOMAIN message
  BY <1>1, <1>2, AttrsType DEF Heard
<1>5. \A i \in DOMAIN message : i > pos => Heard(i) = {}
  BY <1>1, AttrsType DEF Heard
<1> SUFFICES ASSUME NEW id \in AttrIds PROVE HeardLast(id)'
  BY DEF AttrInv
<1>6. HeardLast(id)
  BY <1>1 DEF AttrInv
<1>7. PICK here \in DOMAIN message : here = pos /\ sub + 1 \in Heard(here)'
  BY <1>1, <1>4
<1>8. CASE id = attr.id
  <2>1. attrs'[id] = Values(attr)
    BY <1>1, <1>2, <1>8
  <2>2. ASSUME NEW k \in DOMAIN message, NEW l \in Heard(k)'
        PROVE  k < pos \/ (k = pos /\ l <= sub + 1)
    <3>1. CASE k = pos
      BY <1>1, <1>4, <2>2, <3>1
    <3>2. CASE k # pos
      BY <1>1, <1>3, <1>5, <2>2, <3>2, AttrsType
    <3> QED BY <3>1, <3>2
  <2>3. \A k \in DOMAIN message : \A l \in Heard(k)' :
          k < pos \/ (k = pos /\ l <= sub + 1)
    BY <2>2
  <2> QED BY <1>2, <1>7, <1>8, <2>1, <2>3 DEF HeardLast, attr
<1>9. CASE id # attr.id
  <2>1. attrs'[id] = attrs[id]
    BY <1>1, <1>2, <1>9
  <2>2. \A k \in DOMAIN message : \A l \in Heard(k)' :
          message[k].attrs[l].id = id => l \in Heard(k)
    <3>1. \A l \in Heard(here)' : l \in Heard(here) \/ l = sub + 1
      BY <1>1, <1>4, <1>7
    <3> QED BY <1>3, <1>7, <1>9, <3>1 DEF attr
  <2>3. \A k \in DOMAIN message : Heard(k) \subseteq Heard(k)'
    BY <1>1, <1>3, <1>4
  <2>4. CASE /\ attrs[id] = Nothing
             /\ \A i \in DOMAIN message : \A j \in Heard(i) :
                  message[i].attrs[j].id # id
    BY <1>2, <2>1, <2>2, <2>4 DEF HeardLast
  <2>5. CASE \E i \in DOMAIN message : \E j \in Heard(i) :
               /\ message[i].attrs[j].id = id
               /\ attrs[id] = Values(message[i].attrs[j])
               /\ \A k \in DOMAIN message : \A l \in Heard(k) :
                    message[k].attrs[l].id = id => k < i \/ (k = i /\ l <= j)
    <3> PICK i \in DOMAIN message : \E j \in Heard(i) :
          /\ message[i].attrs[j].id = id
          /\ attrs[id] = Values(message[i].attrs[j])
          /\ \A k \in DOMAIN message : \A l \in Heard(k) :
               message[k].attrs[l].id = id => k < i \/ (k = i /\ l <= j)
      BY <2>5
    <3>1. PICK j \in Heard(i) :
            /\ message[i].attrs[j].id = id
            /\ attrs[id] = Values(message[i].attrs[j])
            /\ \A k \in DOMAIN message : \A l \in Heard(k) :
                 message[k].attrs[l].id = id => k < i \/ (k = i /\ l <= j)
      OBVIOUS
    <3>2. j \in Heard(i)'
      BY <2>3
    <3>3. \A k \in DOMAIN message : \A l \in Heard(k)' :
            message[k].attrs[l].id = id => k < i \/ (k = i /\ l <= j)
      BY <2>2, <3>1
    <3> QED BY <1>2, <2>1, <3>1, <3>2, <3>3 DEF HeardLast
  <2> QED BY <1>6, <2>4, <2>5 DEF HeardLast
<1> QED BY <1>8, <1>9

LEMMA AttrNext == TypeOK /\ AttrInv /\ [Next]_vars => AttrInv'
<1> SUFFICES ASSUME TypeOK, AttrInv, [Next]_vars, callback = "decode_attributes"
             PROVE  AttrInv'
  BY SameCallback DEF AttrInv
<1>1. ASSUME UNCHANGED <<message, callback, pos, sub, attrs>> PROVE AttrInv'
  BY <1>1, NothingHeard DEF Heard
<1>2. /\ pos \in Nat \ {0} /\ Len(message) \in Nat /\ DOMAIN message = 1 .. Len(message)
      /\ sub \in Nat
  BY AttrsType DEF TypeOK
<1>3. CASE SkipEvent
  <2>1. /\ message[pos].kind # "attr" /\ pos' = pos + 1 /\ sub' = 0
        /\ UNCHANGED <<message, callback, attrs>>
    BY <1>3 DEF SkipEvent, get_msg_id, Wanted, NextEvent, Event
  <2>2. \A i \in DOMAIN message : Heard(i)' = Heard(i)
    BY <1>2, <2>1 DEF Heard
  <2> QED BY <2>1, <2>2, NothingHeard
<1>4. CASE decode_attribute
  <2>1. CASE Event.attrs[sub + 1].ok
    BY <1>4, <2>1, OneMoreHeard
  <2>2. CASE ~Event.attrs[sub + 1].ok
    BY <1>1, <1>4, <2>2 DEF decode_attribute, Fail
  <2> QED BY <2>1, <2>2
<1>5. CASE decode_attributes
  <2>1. /\ message[pos].kind = "attr" /\ pos \in DOMAIN message
        /\ sub = Len(message[pos].attrs)
        /\ UNCHANGED <<message, callback, attrs>>
    BY <1>2, <1>5 DEF decode_attributes, Decoding, get_msg_id, Event
  <2>2. CASE Event.ok
    <3>1. pos' = pos + 1 /\ sub' = 0
      BY <1>5, <2>2 DEF decode_attributes, NextEvent
    <3>2. DOMAIN message[pos].attrs = 1 .. sub
      BY <2>1, AttrsType
    <3>3. \A i \in DOMAIN message : Heard(i)' = Heard(i)
      BY <1>2, <2>1, <3>1, <3>2 DEF Heard
    <3> QED BY <2>1, <3>3, NothingHeard
  <2>3. CASE ~Event.ok
    BY <1>1, <1>5, <2>3 DEF decode_attributes, Fail
  <2> QED BY <2>2, <2>3
<1>6. CASE decode_suids
  BY <1>6 DEF decode_suids, Decoding
<1>7. CASE Finish \/ UNCHANGED vars
  BY <1>1, <1>7 DEF Finish, vars
<1> QED BY <1>3, <1>4, <1>5, <1>6, <1>7 DEF Next

\* The map has the values each attribute had last, and only those of it,
\* wherever the decoding breaks off (qshPb.cpp 282-298, 310-335).
THEOREM LastHeardCounts == Spec => []AttributesHeardLast
<1>1. Init => AttrInv
  <2> SUFFICES ASSUME Init PROVE \A id \in AttrIds : HeardLast(id)
    BY DEF AttrInv
  <2>1. /\ pos = 1 /\ sub = 0 /\ \A id \in AttrIds : attrs[id] = Nothing
        /\ DOMAIN message = 1 .. Len(message) /\ Len(message) \in Nat
    BY MessagesAssumption DEF Init
  <2>2. \A i \in DOMAIN message : Heard(i) = {}
    BY <2>1 DEF Heard
  <2> QED BY <2>1, <2>2 DEF HeardLast
<1>2. AttrInv => AttributesHeardLast
  BY DEF AttrInv, HeardLast, AttributesHeardLast
<1> QED BY <1>1, <1>2, InitType, NextType, AttrNext, PTL DEF Spec
=============================================================================
