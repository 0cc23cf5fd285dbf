----------------------------- MODULE PbDecodeMC -----------------------------
(* Messages of up to three events for TLC, whole and broken ones.          *)
EXTENDS PbDecode

Value(fields, data) == [fields |-> fields, data |-> data]
Attribute(id, values, ok) == [id |-> id, values |-> values, ok |-> ok]
SuidEvent(list, type, ok) == [kind |-> "suid", suids |-> list, type |-> type, ok |-> ok]
AttrEvent(list, ok) == [kind |-> "attr", attrs |-> list, ok |-> ok]

Name == Attribute(1, <<Value({"str"}, "lsm6dst")>>, TRUE)
NoName == Attribute(1, <<Value({"emptyStr"}, "empty"), Value({}, "none")>>, TRUE)
Rates == Attribute(2, <<Value({"flt"}, "52"), Value({"flt", "sint"}, "104")>>, TRUE)
Ranges == Attribute(2, <<Value({"subtype", "boolean"}, "range")>>, TRUE)
Broken == Attribute(2, <<Value({"flt"}, "13")>>, FALSE)

Events ==
  {SuidEvent(list, type, TRUE) : list \in {<<>>, <<"a">>, <<"b", "c">>},
                                 type \in {"accel", "gyro"}}
    \cup {SuidEvent(<<"d">>, "mag", FALSE)}
    \cup {AttrEvent(<<Name, Rates>>, TRUE), AttrEvent(<<Ranges, NoName>>, TRUE),
          AttrEvent(<<Rates, Broken, Name>>, TRUE), AttrEvent(<<Name>>, FALSE),
          AttrEvent(<<>>, TRUE)}
    \cup {[kind |-> "other"], [kind |-> "malformed"]}

SomeMessages == BoundedSeq(Events, 3)
=============================================================================
