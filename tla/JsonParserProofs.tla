-------------------------- MODULE JsonParserProofs --------------------------
(***************************************************************************)
(* Proofs about JsonParser, for any files, strings and number of loads:    *)
(* the maps keep their types, and no entry is put together from two files, *)
(* although what the parser collects is carried from item to item and      *)
(* loads break off anywhere.  If the files describe their hubs in full     *)
(* (FilesInFull), none is put together from two hubs either, and every hub *)
(* of a file that was read is found.                                       *)
(***************************************************************************)
EXTENDS JsonParser, SequenceTheorems, TLAPS

\* The two ways to put an entry into a map keep its type.
LEMMA MapTypes ==
  ASSUME NEW K, NEW V, NEW m, IsMap(m, K, V), NEW k \in K, NEW v \in V
  PROVE  IsMap(Insert(m, k, v), K, V) /\ IsMap(Put(m, k, v), K, V)
  BY DEF IsMap, Insert, Put

LEMMA AtoiType == ASSUME NEW s \in String PROVE Atoi(s) \in Int
  BY StringsAssumption DEF Atoi

\* The description of a hub stays one, whatever item comes.
LEMMA AssignType ==
  ASSUME NEW h \in Hub, NEW key \in Keys, NEW s \in String
  PROVE  Assign(h, key, s) \in Hub
<1>1. Atoi(s) \in Int
  BY AtoiType
<1>2. CASE key = "platform_id"
  BY <1>2 DEF Assign, Hub
<1>3. CASE key = "sensing_hub_id"
  BY <1>1, <1>3 DEF Assign, Hub
<1>4. CASE key = "client_comm_type"
  BY <1>4 DEF Assign, Hub
<1>5. CASE key = "service_id"
  BY <1>1, <1>5 DEF Assign, Hub, OtherEnd
<1>6. CASE key \in {"no_of_channels", "other"}
  BY <1>1, <1>6 DEF Assign, Hub, OtherEnd
<1>7. CASE key = "link_name"
  BY <1>7 DEF Assign, Hub, OtherEnd
<1> QED BY <1>2, <1>3, <1>4, <1>5, <1>6, <1>7 DEF Keys

LEMMA NoHubType == NoHub \in Hub
  BY StringsAssumption DEF NoHub, Hub, String

LEMMA InitType == Init => TypeOK
<1> SUFFICES ASSUME Init PROVE TypeOK
  OBVIOUS
<1>1. p \in Hub
  BY NoHubType DEF Init
<1>2. \A K, V : IsMap(EmptyMap, K, V)
  BY DEF IsMap, EmptyMap
<1>3. <<>> \in Seq(Int) /\ <<>> \in Seq(Entry) /\ 0 \in 0 .. MaxLoads
  BY MaxLoadsAssumption
<1> QED BY <1>1, <1>2, <1>3 DEF Init, TypeOK

\* An item of the file at hand.
LEMMA RestType ==
  ASSUME TypeOK, rest # <<>>
  PROVE  Head(rest) \in Entry /\ Tail(rest) \in Seq(Entry)
  BY HeadTailProperties DEF TypeOK

\* Taking in an item.
LEMMA UpdateType ==
  ASSUME TypeOK, NEW grp \in {".client_comm", "other"}, NEW key \in Keys,
         NEW s \in String, UpdateSensingHubInfo(grp, key, s)
  PROVE  /\ p' \in Hub
         /\ mHubIds' \in Seq(Int)
         /\ IsMap(mSensingHubNameIdMap', String \ {Empty}, Int \ {-1})
         /\ IsMap(mSensingHubCommMap', Int \ {-1},
                  [type : String \ {Empty}, value : Int \ {-1}])
         /\ IsMap(mSensingHubIdNameMap', Int, String \ {Apps})
<1> DEFINE h == Entered(p, grp)
           a == Assign(h, key, s)
           q == [a EXCEPT !.mSensingHubNameIdMapFilled = @ \/ Named(a),
                          !.mCommMapFilled = @ \/ Reachable(a)]
<1>1. h \in Hub
  BY DEF TypeOK, Entered, Hub
<1>2. a \in Hub
  BY <1>1, AssignType
<1>3. Named(a) \in BOOLEAN /\ Reachable(a) \in BOOLEAN
  BY DEF Named, Reachable
<1>4. q \in Hub
  <2>1. (a.mSensingHubNameIdMapFilled \/ Named(a)) \in BOOLEAN
    OBVIOUS
  <2>2. (a.mCommMapFilled \/ Reachable(a)) \in BOOLEAN
    OBVIOUS
  <2> HIDE DEF a
  <2> QED BY <1>2, <2>1, <2>2 DEF Hub
<1> HIDE DEF a
<1>5. /\ p' = IF q.mSensingHubNameIdMapFilled /\ q.mCommMapFilled THEN Forget(q) ELSE q
      /\ mHubIds' = IF key = "sensing_hub_id" THEN Append(mHubIds, Atoi(s)) ELSE mHubIds
      /\ mSensingHubIdNameMap' =
           IF NamesLink(h, key, s)
           THEN Put(mSensingHubIdNameMap, h.mSensingHubId, s)
           ELSE mSensingHubIdNameMap
      /\ mSensingHubNameIdMap' =
           IF Named(q)
           THEN Insert(mSensingHubNameIdMap, q.mPlatformId, q.mSensingHubId)
           ELSE mSensingHubNameIdMap
      /\ mSensingHubCommMap' =
           IF Reachable(q)
           THEN Insert(mSensingHubCommMap, q.mSensingHubId,
                       [type |-> q.mClientCommType, value |-> q.mClientCommValue])
           ELSE mSensingHubCommMap
  BY DEF UpdateSensingHubInfo, a
<1> HIDE DEF q, h
<1>6. p' \in Hub
  BY <1>4, <1>5, NoHubType DEF Forget, Hub
<1>7. mHubIds' \in Seq(Int)
  BY <1>5, AtoiType DEF TypeOK
<1>8. IsMap(mSensingHubIdNameMap', Int, String \ {Apps})
  <2>1. NamesLink(h, key, s) => s \in String \ {Apps}
    BY DEF NamesLink
  <2> QED BY <1>1, <1>5, <2>1, MapTypes DEF TypeOK, Hub
<1>9. IsMap(mSensingHubNameIdMap', String \ {Empty}, Int \ {-1})
  <2>1. Named(q) => q.mPlatformId \in String \ {Empty} /\ q.mSensingHubId \in Int \ {-1}
    BY <1>4 DEF Named, Hub
  <2> QED BY <1>5, <2>1, MapTypes DEF TypeOK
<1>10. IsMap(mSensingHubCommMap', Int \ {-1}, [type : String \ {Empty}, value : Int \ {-1}])
  <2> DEFINE link == [type |-> q.mClientCommType, value |-> q.mClientCommValue]
  <2>1. Reachable(q) => /\ link \in [type : String \ {Empty}, value : Int \ {-1}]
                        /\ q.mSensingHubId \in Int \ {-1}
    BY <1>4 DEF Reachable, Hub
  <2> HIDE DEF link
  <2>2. Reachable(q) => IsMap(Insert(mSensingHubCommMap, q.mSensingHubId, link), Int \ {-1},
                              [type : String \ {Empty}, value : Int \ {-1}])
    BY <2>1, MapTypes DEF TypeOK
  <2> QED BY <1>5, <2>2 DEF TypeOK, link
<1> QED BY <1>6, <1>7, <1>8, <1>9, <1>10

LEMMA LoadType == ASSUME TypeOK, NEW f \in Files, LoadFile(f) PROVE TypeOK'
<1>1. f \in Seq(Entry) /\ loads' \in 0 .. MaxLoads
  BY FilesAssumption, MaxLoadsAssumption DEF TypeOK, LoadFile
<1>2. p' \in Hub /\ mHubIds' \in Seq(Int) /\ mJsonSocIdList' \in Seq(Int)
  BY NoHubType DEF LoadFile, ResetParserState
<1>3. UNCHANGED <<mSensingHubNameIdMap, mSensingHubCommMap, mSensingHubIdNameMap,
                  mIsFileParsed>>
  BY DEF LoadFile, mapVars
<1>4. /\ file' \in Seq(Entry) /\ rest' \in Seq(Entry) /\ opened' \subseteq Files
      /\ outcome' \in {"none", "reading", "failed", "skipped", "abandoned", "read"}
  BY <1>1 DEF LoadFile, TypeOK
<1> QED BY <1>1, <1>2, <1>3, <1>4 DEF TypeOK

LEMMA ItemType == ASSUME TypeOK, ParseItem PROVE TypeOK'
<1>1. Head(rest) \in Entry /\ Head(rest).kind = "item" /\ Tail(rest) \in Seq(Entry)
  BY RestType DEF ParseItem, At
<1>2. /\ Head(rest).grp \in {".client_comm", "other"} /\ Head(rest).key \in Keys
      /\ Head(rest).data \in String \cup {NoData}
  BY <1>1 DEF Entry
<1>3. PICK s \in String : UpdateSensingHubInfo(Head(rest).grp, Head(rest).key, s)
  BY <1>2 DEF ParseItem
<1>4. /\ p' \in Hub
      /\ mHubIds' \in Seq(Int)
      /\ IsMap(mSensingHubNameIdMap', String \ {Empty}, Int \ {-1})
      /\ IsMap(mSensingHubCommMap', Int \ {-1},
               [type : String \ {Empty}, value : Int \ {-1}])
      /\ IsMap(mSensingHubIdNameMap', Int, String \ {Apps})
  BY <1>2, <1>3, UpdateType
<1>5. /\ rest' \in Seq(Entry)
      /\ UNCHANGED <<mJsonSocIdList, mIsFileParsed, file, outcome, loads, opened>>
  BY <1>1 DEF ParseItem
<1> QED BY <1>4, <1>5 DEF TypeOK

LEMMA ConfigType == ASSUME TypeOK, ParseConfig \/ ParseBadConfig PROVE TypeOK'
<1>1. /\ Head(rest) \in Entry /\ Tail(rest) \in Seq(Entry)
      /\ Head(rest).kind \in {"config", "badConfig"}
  BY RestType DEF ParseConfig, ParseBadConfig, At
<1>2. Head(rest).socIds \in Seq(Int)
  BY <1>1 DEF Entry
<1>3. mJsonSocIdList' \in Seq(Int)
  <2>1. mJsonSocIdList \in Seq(Int)
    BY DEF TypeOK
  <2>2. SocIds \in Seq(Int)
    BY <1>2, <2>1 DEF SocIds
  <2>3. mJsonSocIdList' \in {mJsonSocIdList, SocIds}
    BY DEF ParseConfig, ParseBadConfig
  <2> QED BY <2>1, <2>2, <2>3
<1>4. /\ UNCHANGED <<p, mHubIds, mapVars, file, loads, opened>>
      /\ mIsFileParsed' \in BOOLEAN /\ rest' \in Seq(Entry)
      /\ outcome' \in {"none", "reading", "failed", "skipped", "abandoned", "read"}
  BY <1>1 DEF ParseConfig, ParseBadConfig, Succeed, TypeOK
<1> QED BY <1>3, <1>4 DEF TypeOK, mapVars

LEMMA TypeStep == TypeOK /\ [Next]_vars => TypeOK'
<1> SUFFICES ASSUME TypeOK, [Next]_vars PROVE TypeOK'
  OBVIOUS
<1>1. CASE ParseMalformed \/ ParseEnd
  BY <1>1 DEF ParseMalformed, ParseEnd, Succeed, mapVars, TypeOK
<1>2. CASE UNCHANGED vars
  BY <1>2 DEF vars, mapVars, TypeOK
<1> QED BY <1>1, <1>2, LoadType, ItemType, ConfigType DEF Next, Done

\* What was found of the hubs, in whatever order files are loaded and break
\* off, is of the types its readers take it for (qshJsonParser.cpp).
THEOREM TypeCorrect == Spec => []TypeOK
<1> QED BY InitType, TypeStep, PTL DEF Spec

--------------------------------------------------------------------------------
(* Taking in an item.                                                      *)

\* What the parser knows after it has assigned an item, its flags updated.
Filled(a) ==
  [a EXCEPT !.mSensingHubNameIdMapFilled = @ \/ Named(a),
            !.mCommMapFilled = @ \/ Reachable(a)]
Taken(h, grp, key, s) == Filled(Assign(Entered(h, grp), key, s))

LEMMA TakenType ==
  ASSUME NEW h \in Hub, NEW grp, NEW key \in Keys, NEW s \in String
  PROVE  /\ Entered(h, grp) \in Hub
         /\ Taken(h, grp, key, s) \in Hub
         /\ LET a == Assign(Entered(h, grp), key, s)
                q == Taken(h, grp, key, s)
            IN /\ a \in Hub
               /\ q.mSensingHubId = a.mSensingHubId
               /\ q.mPlatformId = a.mPlatformId
               /\ q.mClientCommType = a.mClientCommType
               /\ q.mClientCommValue = a.mClientCommValue
               /\ q.mReadCommAttr = a.mReadCommAttr
               /\ q.mIsClientCommGrp = a.mIsClientCommGrp
               /\ q.mSensingHubNameIdMapFilled = (a.mSensingHubNameIdMapFilled \/ Named(a))
               /\ q.mCommMapFilled = (a.mCommMapFilled \/ Reachable(a))
<1> DEFINE a == Assign(Entered(h, grp), key, s)
<1>1. Entered(h, grp) \in Hub
  BY DEF Entered, Hub
<1>2. a \in Hub
  BY <1>1, AssignType
<1> HIDE DEF a
<1>3. Named(a) \in BOOLEAN /\ Reachable(a) \in BOOLEAN
  BY DEF Named, Reachable
<1>4. /\ (a.mSensingHubNameIdMapFilled \/ Named(a)) \in BOOLEAN
      /\ (a.mCommMapFilled \/ Reachable(a)) \in BOOLEAN
  OBVIOUS
<1>5. /\ Filled(a) \in Hub
      /\ Filled(a).mSensingHubId = a.mSensingHubId
      /\ Filled(a).mPlatformId = a.mPlatformId
      /\ Filled(a).mClientCommType = a.mClientCommType
      /\ Filled(a).mClientCommValue = a.mClientCommValue
      /\ Filled(a).mReadCommAttr = a.mReadCommAttr
      /\ Filled(a).mIsClientCommGrp = a.mIsClientCommGrp
      /\ Filled(a).mSensingHubNameIdMapFilled = (a.mSensingHubNameIdMapFilled \/ Named(a))
      /\ Filled(a).mCommMapFilled = (a.mCommMapFilled \/ Reachable(a))
  BY <1>2, <1>4 DEF Hub, Filled
<1> QED BY <1>1, <1>2, <1>5 DEF Taken, a

\* What a step of updateSensingHubInfo does, in terms of what is taken in.
LEMMA UpdateStep ==
  ASSUME NEW grp, NEW key, NEW s, UpdateSensingHubInfo(grp, key, s)
  PROVE  LET q == Taken(p, grp, key, s)
         IN /\ p' = IF q.mSensingHubNameIdMapFilled /\ q.mCommMapFilled
                    THEN Forget(q) ELSE q
            /\ mHubIds' = IF key = "sensing_hub_id" THEN Append(mHubIds, Atoi(s))
                                                    ELSE mHubIds
            /\ mSensingHubNameIdMap' =
                 IF Named(q)
                 THEN Insert(mSensingHubNameIdMap, q.mPlatformId, q.mSensingHubId)
                 ELSE mSensingHubNameIdMap
            /\ mSensingHubCommMap' =
                 IF Reachable(q)
                 THEN Insert(mSensingHubCommMap, q.mSensingHubId,
                             [type |-> q.mClientCommType, value |-> q.mClientCommValue])
                 ELSE mSensingHubCommMap
            /\ mSensingHubIdNameMap' =
                 IF NamesLink(Entered(p, grp), key, s)
                 THEN Put(mSensingHubIdNameMap, Entered(p, grp).mSensingHubId, s)
                 ELSE mSensingHubIdNameMap
  BY DEF UpdateSensingHubInfo, Taken, Filled

--------------------------------------------------------------------------------
(* What the parser collects was said, and so were its entries.             *)

Atois(strings) == {Atoi(s) : s \in strings}

\* The members that describe a hub are unset or what was said for their keys.
Collected(h, said) ==
  /\ h.mSensingHubId \in Atois(said["sensing_hub_id"]) \cup {-1}
  /\ h.mPlatformId \in said["platform_id"] \cup {Empty}
  /\ h.mClientCommType \in said["client_comm_type"] \cup {Empty}
  /\ h.mClientCommValue
       \in Atois(said["service_id"]) \cup Atois(said["no_of_channels"]) \cup {-1}

\* An entry of a map was said; the id of the hub of a link may not be known.
NameSaid(name, id, said) ==
  name \in said["platform_id"] /\ id \in Atois(said["sensing_hub_id"])
LinkSaid(id, link, said) ==
  /\ id \in Atois(said["sensing_hub_id"])
  /\ link.type \in said["client_comm_type"]
  /\ link.value \in Atois(said["service_id"]) \cup Atois(said["no_of_channels"])
EndSaid(id, name, said) ==
  name \in said["link_name"] /\ id \in Atois(said["sensing_hub_id"]) \cup {-1}

LEMMA AssignCollects ==
  ASSUME NEW h \in Hub, NEW said, Collected(h, said), NEW key \in Keys,
         NEW s \in String, s \in said[key]
  PROVE  Collected(Assign(h, key, s), said)
<1>1. CASE key = "platform_id"
  <2>1. Assign(h, key, s) = [h EXCEPT !.mPlatformId = s]
    BY <1>1 DEF Assign, OtherEnd
  <2> QED BY <1>1, <2>1 DEF Collected, Hub
<1>2. CASE key = "sensing_hub_id"
  <2>1. Assign(h, key, s) = [h EXCEPT !.mSensingHubId = Atoi(s)]
    BY <1>2 DEF Assign, OtherEnd
  <2>2. Atoi(s) \in Atois(said["sensing_hub_id"])
    BY <1>2 DEF Atois
  <2> QED BY <2>1, <2>2 DEF Collected, Hub
<1>3. CASE key = "client_comm_type"
  <2>1. Assign(h, key, s) = [h EXCEPT !.mClientCommType = s]
    BY <1>3 DEF Assign, OtherEnd
  <2> QED BY <1>3, <2>1 DEF Collected, Hub
<1>4. CASE key \in {"service_id", "no_of_channels"}
  <2>1. Atoi(s) \in Atois(said["service_id"]) \cup Atois(said["no_of_channels"])
    BY <1>4 DEF Atois
  <2>2. /\ Assign(h, key, s).mSensingHubId = h.mSensingHubId
        /\ Assign(h, key, s).mPlatformId = h.mPlatformId
        /\ Assign(h, key, s).mClientCommType = h.mClientCommType
        /\ Assign(h, key, s).mClientCommValue \in {h.mClientCommValue, Atoi(s)}
    BY <1>4 DEF Assign, Hub, OtherEnd
  <2> QED BY <2>1, <2>2 DEF Collected
<1>5. CASE key \in {"link_name", "other"}
  <2>1. /\ Assign(h, key, s).mSensingHubId = h.mSensingHubId
        /\ Assign(h, key, s).mPlatformId = h.mPlatformId
        /\ Assign(h, key, s).mClientCommType = h.mClientCommType
        /\ Assign(h, key, s).mClientCommValue = h.mClientCommValue
    BY <1>5 DEF Assign, Hub, OtherEnd
  <2> QED BY <2>1 DEF Collected
<1> QED BY <1>1, <1>2, <1>3, <1>4, <1>5 DEF Keys

\* Taking in what was said keeps what was collected, and adds said entries.
LEMMA UpdateCollects ==
  ASSUME TypeOK, NEW said, Collected(p, said), NEW grp, NEW key \in Keys,
         NEW s \in String, s \in said[key], UpdateSensingHubInfo(grp, key, s)
  PROVE  /\ Collected(p', said)
         /\ \A name \in DOMAIN mSensingHubNameIdMap' :
              \/ /\ name \in DOMAIN mSensingHubNameIdMap
                 /\ mSensingHubNameIdMap'[name] = mSensingHubNameIdMap[name]
              \/ NameSaid(name, mSensingHubNameIdMap'[name], said)
         /\ \A id \in DOMAIN mSensingHubCommMap' :
              \/ /\ id \in DOMAIN mSensingHubCommMap
                 /\ mSensingHubCommMap'[id] = mSensingHubCommMap[id]
              \/ LinkSaid(id, mSensingHubCommMap'[id], said)
         /\ \A id \in DOMAIN mSensingHubIdNameMap' :
              \/ /\ id \in DOMAIN mSensingHubIdNameMap
                 /\ mSensingHubIdNameMap'[id] = mSensingHubIdNameMap[id]
              \/ EndSaid(id, mSensingHubIdNameMap'[id], said)
<1> DEFINE h == Entered(p, grp)
           a == Assign(h, key, s)
           q == Taken(p, grp, key, s)
<1>1. h \in Hub /\ Collected(h, said)
  BY DEF TypeOK, Entered, Hub, Collected
<1>2. Collected(a, said)
  BY <1>1, AssignCollects
<1>3. /\ q.mSensingHubId = a.mSensingHubId /\ q.mPlatformId = a.mPlatformId
      /\ q.mClientCommType = a.mClientCommType /\ q.mClientCommValue = a.mClientCommValue
  BY TakenType DEF TypeOK
<1>4. /\ p' = IF q.mSensingHubNameIdMapFilled /\ q.mCommMapFilled THEN Forget(q) ELSE q
      /\ mSensingHubNameIdMap' =
           IF Named(q)
           THEN Insert(mSensingHubNameIdMap, q.mPlatformId, q.mSensingHubId)
           ELSE mSensingHubNameIdMap
      /\ mSensingHubCommMap' =
           IF Reachable(q)
           THEN Insert(mSensingHubCommMap, q.mSensingHubId,
                       [type |-> q.mClientCommType, value |-> q.mClientCommValue])
           ELSE mSensingHubCommMap
      /\ mSensingHubIdNameMap' =
           IF NamesLink(h, key, s)
           THEN Put(mSensingHubIdNameMap, h.mSensingHubId, s)
           ELSE mSensingHubIdNameMap
  BY UpdateStep
<1> HIDE DEF a, q, h
<1>5. Collected(q, said)
  BY <1>2, <1>3 DEF Collected
<1>6. Collected(p', said)
  BY <1>4, <1>5 DEF Forget, NoHub, Collected
<1>7. Named(q) => NameSaid(q.mPlatformId, q.mSensingHubId, said)
  BY <1>5 DEF Collected, Named, NameSaid
<1>8. ASSUME NEW link, link.type = q.mClientCommType, link.value = q.mClientCommValue
      PROVE  Reachable(q) => LinkSaid(q.mSensingHubId, link, said)
  BY <1>5, <1>8 DEF Collected, Reachable, LinkSaid
<1>9. \A name \in DOMAIN mSensingHubNameIdMap' :
        \/ /\ name \in DOMAIN mSensingHubNameIdMap
           /\ mSensingHubNameIdMap'[name] = mSensingHubNameIdMap[name]
        \/ NameSaid(name, mSensingHubNameIdMap'[name], said)
  BY <1>4, <1>7 DEF Insert
<1>10. \A id \in DOMAIN mSensingHubCommMap' :
         \/ /\ id \in DOMAIN mSensingHubCommMap
            /\ mSensingHubCommMap'[id] = mSensingHubCommMap[id]
         \/ LinkSaid(id, mSensingHubCommMap'[id], said)
  BY <1>4, <1>8 DEF Insert
<1>11. NamesLink(h, key, s) => EndSaid(h.mSensingHubId, s, said)
  BY <1>1 DEF NamesLink, Collected, EndSaid
<1>12. \A id \in DOMAIN mSensingHubIdNameMap' :
         \/ /\ id \in DOMAIN mSensingHubIdNameMap
            /\ mSensingHubIdNameMap'[id] = mSensingHubIdNameMap[id]
         \/ EndSaid(id, mSensingHubIdNameMap'[id], said)
  BY <1>4, <1>11 DEF Put
<1> QED BY <1>6, <1>9, <1>10, <1>12

\* What is read of an item: its data, or anything.
LEMMA ItemRead ==
  ASSUME TypeOK, ParseItem
  PROVE  /\ outcome = "reading" /\ rest # <<>> /\ rest' = Tail(rest)
         /\ UNCHANGED <<file, opened, outcome>>
         /\ Head(rest) \in Entry /\ Head(rest).kind = "item" /\ Head(rest).key \in Keys
         /\ \E s \in String : /\ Head(rest).data \in {s, NoData}
                              /\ UpdateSensingHubInfo(Head(rest).grp, Head(rest).key, s)
<1>1. /\ outcome = "reading" /\ rest # <<>> /\ Head(rest).kind = "item"
      /\ rest' = Tail(rest) /\ UNCHANGED <<file, opened, outcome>>
  BY DEF ParseItem, At
<1>2. Head(rest) \in Entry
  BY <1>1, RestType
<1>3. Head(rest).key \in Keys /\ Head(rest).data \in String \cup {NoData}
  BY <1>1, <1>2 DEF Entry
<1>4. PICK s \in IF Head(rest).data = NoData THEN String ELSE {Head(rest).data} :
         UpdateSensingHubInfo(Head(rest).grp, Head(rest).key, s)
  BY DEF ParseItem
<1>5. s \in String /\ Head(rest).data \in {s, NoData}
  BY <1>3, <1>4
<1> QED BY <1>1, <1>2, <1>3, <1>4, <1>5

--------------------------------------------------------------------------------
(* The entries of one file, for any files.                                 *)

\* What a file can be read to say for a key, an item without data anything.
MaySay(f, key) ==
  {s \in String : \E i \in DOMAIN f : /\ f[i].kind = "item" /\ f[i].key = key
                                      /\ f[i].data \in {s, NoData}}
SaidBy(f) == [key \in Keys |-> MaySay(f, key)]

\* Every entry of the maps is what one of the opened files says, no part of
\* it being left over from a load that broke off (qshJsonParser.cpp 68-85,
\* 299-321).
OneFile ==
  /\ \A name \in DOMAIN mSensingHubNameIdMap :
       \E f \in opened : NameSaid(name, mSensingHubNameIdMap[name], SaidBy(f))
  /\ \A id \in DOMAIN mSensingHubCommMap :
       \E f \in opened : LinkSaid(id, mSensingHubCommMap[id], SaidBy(f))
  /\ \A id \in DOMAIN mSensingHubIdNameMap :
       \E f \in opened : EndSaid(id, mSensingHubIdNameMap[id], SaidBy(f))

ReadingInv ==
  outcome = "reading" =>
    /\ file \in opened
    /\ Collected(p, SaidBy(file))
    /\ \A i \in DOMAIN rest : \E j \in DOMAIN file : file[j] = rest[i]

FileInv == TypeOK /\ ReadingInv /\ OneFile

LEMMA ItemCollects == ASSUME FileInv, ParseItem PROVE FileInv'
<1>1. /\ outcome = "reading" /\ rest # <<>> /\ rest' = Tail(rest)
      /\ UNCHANGED <<file, opened, outcome>>
      /\ Head(rest).kind = "item" /\ Head(rest).key \in Keys
  BY ItemRead DEF FileInv
<1>2. PICK s \in String : /\ Head(rest).data \in {s, NoData}
                          /\ UpdateSensingHubInfo(Head(rest).grp, Head(rest).key, s)
  BY ItemRead DEF FileInv
<1>3. rest \in Seq(Entry)
  BY DEF FileInv, TypeOK
<1>4. PICK j \in DOMAIN file : file[j] = Head(rest)
  BY <1>1, <1>3 DEF FileInv, ReadingInv
<1>5. s \in SaidBy(file)[Head(rest).key]
  BY <1>1, <1>2, <1>4 DEF SaidBy, MaySay
<1>6. Collected(p, SaidBy(file)) /\ TypeOK /\ file \in opened
  BY <1>1 DEF FileInv, ReadingInv
<1> DEFINE said == SaidBy(file)
<1>7. /\ Collected(p', said)
      /\ \A name \in DOMAIN mSensingHubNameIdMap' :
           \/ /\ name \in DOMAIN mSensingHubNameIdMap
              /\ mSensingHubNameIdMap'[name] = mSensingHubNameIdMap[name]
           \/ NameSaid(name, mSensingHubNameIdMap'[name], said)
      /\ \A id \in DOMAIN mSensingHubCommMap' :
           \/ /\ id \in DOMAIN mSensingHubCommMap
              /\ mSensingHubCommMap'[id] = mSensingHubCommMap[id]
           \/ LinkSaid(id, mSensingHubCommMap'[id], said)
      /\ \A id \in DOMAIN mSensingHubIdNameMap' :
           \/ /\ id \in DOMAIN mSensingHubIdNameMap
              /\ mSensingHubIdNameMap'[id] = mSensingHubIdNameMap[id]
           \/ EndSaid(id, mSensingHubIdNameMap'[id], said)
  <2> HIDE DEF said
  <2>1. Collected(p, said) /\ s \in said[Head(rest).key]
    BY <1>5, <1>6 DEF said
  <2> QED BY <1>1, <1>2, <1>6, <2>1, UpdateCollects
<1>8. OneFile'
  BY <1>1, <1>6, <1>7 DEF FileInv, OneFile
<1>9. \A i \in DOMAIN rest' : i + 1 \in DOMAIN rest /\ rest'[i] = rest[i + 1]
  BY <1>1, <1>3
<1>10. \A i \in DOMAIN rest' : \E k \in DOMAIN file : file[k] = rest'[i]
  BY <1>1, <1>9 DEF FileInv, ReadingInv
<1> QED BY <1>1, <1>6, <1>7, <1>8, <1>10, ItemType DEF FileInv, ReadingInv

\* No entry of the maps mixes two files, whatever files are loaded in
\* whatever order and wherever a load breaks off (qshJsonParser.cpp 534-576).
THEOREM EntriesOfOneFile == Spec => []OneFile
<1>1. Init => FileInv
  <2> SUFFICES ASSUME Init PROVE FileInv
    OBVIOUS
  <2>1. OneFile
    BY DEF Init, OneFile, EmptyMap
  <2> QED BY <2>1, InitType DEF Init, FileInv, ReadingInv
<1>2. FileInv /\ [Next]_vars => FileInv'
  <2> SUFFICES ASSUME FileInv, [Next]_vars PROVE FileInv'
    OBVIOUS
  <2>1. TypeOK'
    BY TypeStep DEF FileInv
  <2>2. CASE \E f \in Files : LoadFile(f)
    <3>1. opened \subseteq opened' /\ UNCHANGED mapVars
      BY <2>2 DEF LoadFile
    <3>2. OneFile'
      BY <3>1 DEF FileInv, OneFile, mapVars
    <3>3. ReadingInv'
      BY <2>2 DEF LoadFile, ResetParserState, ReadingInv, Collected, NoHub
    <3> QED BY <2>1, <3>2, <3>3 DEF FileInv
  <2>3. CASE ParseItem
    BY <2>3, ItemCollects
  <2>4. CASE ParseConfig \/ ParseBadConfig \/ ParseMalformed \/ ParseEnd \/ UNCHANGED vars
    <3>1. UNCHANGED <<p, mapVars, file, opened>>
      BY <2>4 DEF ParseConfig, ParseBadConfig, ParseMalformed, ParseEnd, Succeed, vars
    <3>2. OneFile'
      BY <3>1 DEF FileInv, OneFile, mapVars
    <3>3. outcome' = "reading" => outcome = "reading" /\ (rest' = rest \/ rest' = Tail(rest))
      BY <2>4 DEF ParseConfig, ParseBadConfig, ParseMalformed, ParseEnd, Succeed, At, vars
    <3>4. outcome' = "reading" /\ rest' = Tail(rest) => rest # <<>> \/ rest' = rest
      BY <2>4 DEF ParseConfig, ParseBadConfig, ParseMalformed, ParseEnd, Succeed, At, vars
    <3>5. outcome' = "reading" =>
            \A i \in DOMAIN rest' : \E j \in DOMAIN file : file[j] = rest'[i]
      <4>1. CASE rest' = rest
        BY <3>3, <4>1 DEF FileInv, ReadingInv
      <4>2. CASE rest # <<>> /\ rest' = Tail(rest)
        <5>1. rest \in Seq(Entry)
          BY DEF FileInv, TypeOK
        <5>2. \A i \in DOMAIN rest' : i + 1 \in DOMAIN rest /\ rest'[i] = rest[i + 1]
          BY <4>2, <5>1
        <5> QED BY <3>3, <5>2 DEF FileInv, ReadingInv
      <4> QED BY <3>3, <3>4, <4>1, <4>2
    <3> QED BY <2>1, <3>1, <3>2, <3>3, <3>5 DEF FileInv, ReadingInv
  <2> QED BY <2>2, <2>3, <2>4 DEF Next, Done
<1>3. FileInv => OneFile
  BY DEF FileInv
<1> QED BY <1>1, <1>2, <1>3, PTL DEF Spec

--------------------------------------------------------------------------------
(* How far the description of a hub has come.  Description and the two     *)
(* ways to reach a hub say where its items are; f[m] is the item taken in. *)

\* The members after the first n entries, while the hub is not done.
MembersAt(h, f, id, name, type, value, n) ==
  /\ h.mSensingHubId = IF id <= n THEN Atoi(f[id].data) ELSE -1
  /\ h.mPlatformId = IF name <= n THEN f[name].data ELSE Empty
  /\ h.mClientCommType = IF type <= n THEN f[type].data ELSE Empty
  /\ h.mClientCommValue = IF value <= n THEN Atoi(f[value].data) ELSE -1
  /\ h.mSensingHubNameIdMapFilled = (id <= n /\ name <= n)
  /\ h.mCommMapFilled = (id <= n /\ value <= n)

\* The service ends the group of the link.
ServiceAt(h, value, n) == h.mIsClientCommGrp => n < value

\* The other end of the link has not been read, or has ended the group.
ChannelsAt(h, f, hub, end, n) ==
  IF n < end
  THEN /\ ~h.mReadCommAttr
       /\ h.mIsClientCommGrp =>
            \E k \in Items(f, hub) : f[k].grp = ".client_comm" /\ k <= n
  ELSE h.mReadCommAttr /\ ~h.mIsClientCommGrp

Progress(h, f, hub, n) ==
  \A id, name, type, value \in Items(f, hub) :
    Description(f, hub, id, name, type, value) =>
      /\ MembersAt(h, f, id, name, type, value, n)
      /\ OverService(f, hub, type, value) => ServiceAt(h, value, n)
      /\ \A end \in Items(f, hub) :
           OverChannels(f, hub, type, value, end) => ChannelsAt(h, f, hub, end, n)

\* The item at hand is one of the file, and is read as its data.
ItemAt(f, hub, m, s) ==
  /\ f \in Seq(Entry)
  /\ m \in Items(f, hub)
  /\ s \in String
  /\ f[m].data \in {s, NoData}

LEMMA ItemsType ==
  ASSUME NEW f \in Seq(Entry), NEW hub
  PROVE  /\ Items(f, hub) \subseteq Nat \ {0}
         /\ \A i \in Items(f, hub) : /\ f[i].key \in Keys
                                     /\ f[i].grp \in {".client_comm", "other"}
                                     /\ f[i].data \in String \cup {NoData}
<1> SUFFICES ASSUME NEW i \in Items(f, hub)
             PROVE  /\ i \in Nat \ {0}
                    /\ f[i].key \in Keys
                    /\ f[i].grp \in {".client_comm", "other"}
                    /\ f[i].data \in String \cup {NoData}
  OBVIOUS
<1>1. i \in 1 .. Len(f) /\ f[i] \in Entry /\ f[i].kind = "item"
  BY DEF Items
<1> QED BY <1>1 DEF Entry

\* The two kinds of link are numbers, which neither an unset one nor this end
\* of the link is.
LEMMA LinkKinds ==
  /\ QMI # GLINK /\ QMI # Empty /\ GLINK # Empty
  /\ NoData \notin String
  BY StringsAssumption DEF QMI, GLINK, String

\* The members an item changes, by its key.
LEMMA AssignMembers ==
  ASSUME NEW h \in Hub, NEW key \in Keys, NEW s
  PROVE  LET a == Assign(h, key, s)
         IN /\ a.mSensingHubId = IF key = "sensing_hub_id" THEN Atoi(s) ELSE h.mSensingHubId
            /\ a.mPlatformId = IF key = "platform_id" THEN s ELSE h.mPlatformId
            /\ a.mClientCommType = IF key = "client_comm_type" THEN s ELSE h.mClientCommType
            /\ a.mSensingHubNameIdMapFilled = h.mSensingHubNameIdMapFilled
            /\ a.mCommMapFilled = h.mCommMapFilled
            /\ a.mClientCommValue =
                 IF \/ key = "service_id" /\ h.mIsClientCommGrp /\ h.mClientCommType = QMI
                    \/ /\ key = "no_of_channels" /\ ~OtherEnd(h, key, s)
                       /\ h.mReadCommAttr /\ h.mClientCommType = GLINK
                 THEN Atoi(s) ELSE h.mClientCommValue
            /\ a.mReadCommAttr = (h.mReadCommAttr \/ OtherEnd(h, key, s))
            /\ a.mIsClientCommGrp =
                 (h.mIsClientCommGrp /\ key # "service_id" /\ ~OtherEnd(h, key, s))
<1> DEFINE a == Assign(h, key, s)
<1>1. CASE key = "platform_id"
  BY <1>1 DEF Assign, Hub, OtherEnd
<1>2. CASE key = "sensing_hub_id"
  BY <1>2 DEF Assign, Hub, OtherEnd
<1>3. CASE key = "client_comm_type"
  BY <1>3 DEF Assign, Hub, OtherEnd
<1>4. CASE key = "service_id"
  BY <1>4 DEF Assign, Hub, OtherEnd
<1>5. CASE key = "no_of_channels"
  <2>1. CASE OtherEnd(h, key, s)
    BY <1>5, <2>1 DEF Assign, Hub
  <2>2. CASE ~OtherEnd(h, key, s)
    BY <1>5, <2>2 DEF Assign, Hub
  <2> QED BY <2>1, <2>2
<1>6. CASE key = "other"
  <2>1. CASE OtherEnd(h, key, s)
    BY <1>6, <2>1 DEF Assign, Hub
  <2>2. CASE ~OtherEnd(h, key, s)
    BY <1>6, <2>2 DEF Assign, Hub
  <2> QED BY <2>1, <2>2
<1>7. CASE key = "link_name"
  BY <1>7 DEF Assign, Hub, OtherEnd
<1> QED BY <1>1, <1>2, <1>3, <1>4, <1>5, <1>6, <1>7 DEF Keys

\* The group of the link is entered by its items only.
LEMMA EnteredMembers ==
  ASSUME NEW h \in Hub, NEW grp
  PROVE  LET e == Entered(h, grp)
         IN /\ e \in Hub
            /\ e.mSensingHubId = h.mSensingHubId
            /\ e.mPlatformId = h.mPlatformId
            /\ e.mClientCommType = h.mClientCommType
            /\ e.mClientCommValue = h.mClientCommValue
            /\ e.mReadCommAttr = h.mReadCommAttr
            /\ e.mSensingHubNameIdMapFilled = h.mSensingHubNameIdMapFilled
            /\ e.mCommMapFilled = h.mCommMapFilled
            /\ e.mIsClientCommGrp = (h.mIsClientCommGrp \/ grp = ".client_comm")
  BY DEF Entered, Hub

\* The one item of its key is read when an item of the key is.
LEMMA OnlyItem ==
  ASSUME NEW f, NEW hub, NEW key, NEW i, Keyed(f, hub, key) = {i}, NEW m \in Items(f, hub)
  PROVE  f[m].key = key <=> m = i
  BY DEF Keyed

\* The value is taken from its item and from no other: over QMI.
LEMMA ServiceTaken ==
  ASSUME NEW f, NEW hub, NEW m, NEW s, ItemAt(f, hub, m, s), NEW h \in Hub,
         NEW type \in Items(f, hub), NEW value \in Items(f, hub), type < value,
         OverService(f, hub, type, value), ServiceAt(h, value, m - 1),
         h.mClientCommType = IF type <= m - 1 THEN f[type].data ELSE Empty,
         f[value].data # NoData
  PROVE  LET a == Assign(Entered(h, f[m].grp), f[m].key, s)
         IN /\ a.mClientCommValue = IF m = value THEN Atoi(f[value].data) ELSE h.mClientCommValue
            /\ ServiceAt(a, value, m)
<1> DEFINE e == Entered(h, f[m].grp)
           a == Assign(e, f[m].key, s)
<1>1. /\ f \in Seq(Entry) /\ m \in Items(f, hub) /\ m \in Nat /\ value \in Nat /\ type \in Nat
      /\ f[m].key \in Keys /\ f[m].data \in {s, NoData}
  BY ItemsType DEF ItemAt
<1>2. /\ e \in Hub /\ e.mClientCommType = h.mClientCommType
      /\ e.mClientCommValue = h.mClientCommValue
      /\ e.mIsClientCommGrp = (h.mIsClientCommGrp \/ f[m].grp = ".client_comm")
  BY EnteredMembers
<1>3. h.mClientCommType # GLINK /\ (type <= m - 1 => h.mClientCommType = QMI)
  BY LinkKinds DEF OverService
<1>4. f[m].key = "service_id" <=> m = value
  BY <1>1 DEF OverService, Keyed
<1> HIDE DEF e
<1>5. /\ a.mClientCommValue =
           IF \/ f[m].key = "service_id" /\ e.mIsClientCommGrp /\ e.mClientCommType = QMI
              \/ /\ f[m].key = "no_of_channels" /\ ~OtherEnd(e, f[m].key, s)
                 /\ e.mReadCommAttr /\ e.mClientCommType = GLINK
           THEN Atoi(s) ELSE e.mClientCommValue
      /\ a.mIsClientCommGrp =
           (e.mIsClientCommGrp /\ f[m].key # "service_id" /\ ~OtherEnd(e, f[m].key, s))
  BY <1>1, <1>2, AssignMembers
<1> HIDE DEF a
<1>6. a.mClientCommValue = IF m = value THEN Atoi(f[value].data) ELSE h.mClientCommValue
  <2>1. CASE m = value
    <3>1. f[m].grp = ".client_comm" /\ type <= m - 1
      BY <1>1, <2>1 DEF OverService
    <3>2. a.mClientCommValue = Atoi(s)
      BY <1>2, <1>3, <1>4, <1>5, <2>1, <3>1
    <3> QED BY <1>1, <2>1, <3>2
  <2>2. CASE m # value
    BY <1>2, <1>3, <1>4, <1>5, <2>2
  <2> QED BY <2>1, <2>2
<1>7. a.mIsClientCommGrp => m < value
  <2>1. CASE m = value
    BY <1>4, <1>5, <2>1
  <2>2. CASE m > value
    <3>1. f[m].grp # ".client_comm"
      BY <1>1, <2>2 DEF OverService
    <3>2. ~h.mIsClientCommGrp
      BY <1>1, <2>2 DEF ServiceAt
    <3> QED BY <1>2, <1>5, <3>1, <3>2
  <2>3. CASE m < value
    BY <2>3
  <2> QED BY <1>1, <2>1, <2>2, <2>3
<1> QED BY <1>6, <1>7 DEF ServiceAt, a, e

\* The value is taken from its item and from no other: over GLINK.
LEMMA ChannelsTaken ==
  ASSUME NEW f, NEW hub, NEW m, NEW s, ItemAt(f, hub, m, s), NEW h \in Hub,
         NEW type \in Items(f, hub), NEW value \in Items(f, hub), type < value,
         NEW end \in Items(f, hub),
         OverChannels(f, hub, type, value, end), ChannelsAt(h, f, hub, end, m - 1),
         h.mClientCommType = IF type <= m - 1 THEN f[type].data ELSE Empty,
         f[value].data # NoData
  PROVE  LET a == Assign(Entered(h, f[m].grp), f[m].key, s)
         IN /\ a.mClientCommValue = IF m = value THEN Atoi(f[value].data) ELSE h.mClientCommValue
            /\ ChannelsAt(a, f, hub, end, m)
<1> DEFINE e == Entered(h, f[m].grp)
           a == Assign(e, f[m].key, s)
<1>1. /\ f \in Seq(Entry) /\ m \in Items(f, hub) /\ m \in Nat /\ value \in Nat
      /\ type \in Nat /\ end \in Nat /\ Items(f, hub) \subseteq Nat
      /\ f[m].key \in Keys /\ f[m].data \in {s, NoData}
  BY ItemsType DEF ItemAt
<1>2. /\ e \in Hub /\ e.mClientCommType = h.mClientCommType
      /\ e.mClientCommValue = h.mClientCommValue /\ e.mReadCommAttr = h.mReadCommAttr
      /\ e.mIsClientCommGrp = (h.mIsClientCommGrp \/ f[m].grp = ".client_comm")
  BY EnteredMembers
<1>3. h.mClientCommType # QMI /\ (type <= m - 1 => h.mClientCommType = GLINK)
  BY LinkKinds DEF OverChannels
<1>4. OtherEnd(e, f[m].key, s) <=>
        /\ e.mIsClientCommGrp /\ f[m].key \in {"no_of_channels", "other"} /\ s # Apps
  BY DEF OtherEnd
<1> HIDE DEF e
<1>5. /\ a.mClientCommValue =
           IF \/ f[m].key = "service_id" /\ e.mIsClientCommGrp /\ e.mClientCommType = QMI
              \/ /\ f[m].key = "no_of_channels" /\ ~OtherEnd(e, f[m].key, s)
                 /\ e.mReadCommAttr /\ e.mClientCommType = GLINK
           THEN Atoi(s) ELSE e.mClientCommValue
      /\ a.mReadCommAttr = (e.mReadCommAttr \/ OtherEnd(e, f[m].key, s))
      /\ a.mIsClientCommGrp =
           (e.mIsClientCommGrp /\ f[m].key # "service_id" /\ ~OtherEnd(e, f[m].key, s))
  BY <1>1, <1>2, AssignMembers
<1> HIDE DEF a
<1>6. f[m].key = "no_of_channels" /\ m # value => m < end /\ s = Apps
  <2>1. f[m].key = "no_of_channels" /\ m # value => m < end /\ f[m].data = Apps
    BY <1>1 DEF OverChannels, Keyed
  <2>2. Apps # NoData
    BY StringsAssumption
  <2> QED BY <1>1, <2>1, <2>2
<1>7. f[value].key = "no_of_channels" /\ f[end].key = "other" /\ end < value
  BY DEF OverChannels
<1>8. CASE m < end
  <2>1. /\ ~h.mReadCommAttr
        /\ h.mIsClientCommGrp =>
             \E k \in Items(f, hub) : f[k].grp = ".client_comm" /\ k <= m - 1
    BY <1>1, <1>8 DEF ChannelsAt
  <2>2. ~OtherEnd(e, f[m].key, s)
    <3>1. CASE f[m].key = "no_of_channels"
      BY <1>1, <1>4, <1>6, <1>7, <1>8, <3>1
    <3>2. CASE f[m].key = "other"
      <4>1. \/ f[m].data = Apps
            \/ \A k \in Items(f, hub) : f[k].grp = ".client_comm" => m < k
        BY <1>1, <1>8, <3>2 DEF OverChannels, Keyed
      <4>2. CASE f[m].data = Apps
        <5>1. s = Apps
          BY <1>1, <4>2, StringsAssumption
        <5> QED BY <1>4, <5>1
      <4>3. CASE \A k \in Items(f, hub) : f[k].grp = ".client_comm" => m < k
        <5>1. ~h.mIsClientCommGrp /\ f[m].grp # ".client_comm"
          BY <1>1, <2>1, <4>3
        <5> QED BY <1>2, <1>4, <5>1
      <4> QED BY <4>1, <4>2, <4>3
    <3> QED BY <1>4, <3>1, <3>2
  <2>3. m # value
    BY <1>1, <1>7, <1>8
  <2>4. a.mClientCommValue = h.mClientCommValue /\ ~a.mReadCommAttr
    BY <1>2, <1>3, <1>5, <2>1, <2>2
  <2>5. a.mIsClientCommGrp => \E k \in Items(f, hub) : f[k].grp = ".client_comm" /\ k <= m
    <3>1. a.mIsClientCommGrp => h.mIsClientCommGrp \/ f[m].grp = ".client_comm"
      BY <1>2, <1>5
    <3>2. \A k \in Items(f, hub) : k <= m - 1 => k <= m
      BY <1>1
    <3>3. m <= m
      BY <1>1
    <3> QED BY <1>1, <2>1, <3>1, <3>2, <3>3
  <2> QED BY <1>8, <2>3, <2>4, <2>5 DEF ChannelsAt, a, e
<1>9. CASE m = end
  <2>1. e.mIsClientCommGrp /\ s # Apps /\ f[m].key = "other"
    BY <1>1, <1>2, <1>9 DEF OverChannels
  <2>2. OtherEnd(e, f[m].key, s) /\ m # value
    BY <1>4, <1>7, <1>9, <2>1
  <2>3. /\ a.mClientCommValue = h.mClientCommValue
        /\ a.mReadCommAttr /\ ~a.mIsClientCommGrp
    BY <1>2, <1>5, <2>1, <2>2
  <2> QED BY <1>1, <1>9, <2>2, <2>3 DEF ChannelsAt, a, e
<1>10. CASE m > end
  <2>1. h.mReadCommAttr /\ ~h.mIsClientCommGrp
    BY <1>1, <1>10 DEF ChannelsAt
  <2>2. f[m].grp # ".client_comm"
    BY <1>1, <1>10 DEF OverChannels
  <2>3. ~e.mIsClientCommGrp /\ ~OtherEnd(e, f[m].key, s)
    BY <1>2, <1>4, <2>1, <2>2
  <2>4. a.mReadCommAttr /\ ~a.mIsClientCommGrp
    BY <1>2, <1>5, <2>1, <2>3
  <2>5. CASE m = value
    <3>1. h.mClientCommType = GLINK
      BY <1>1, <1>3, <2>5
    <3>2. a.mClientCommValue = Atoi(s)
      BY <1>2, <1>5, <1>7, <2>1, <2>3, <2>5, <3>1
    <3> QED BY <1>1, <1>10, <2>4, <2>5, <3>2 DEF ChannelsAt, a, e
  <2>6. CASE m # value
    <3>1. f[m].key # "no_of_channels"
      BY <1>1, <1>6, <1>10, <2>6
    <3>2. a.mClientCommValue = h.mClientCommValue
      BY <1>2, <1>3, <1>5, <3>1
    <3> QED BY <1>1, <1>10, <2>4, <2>6, <3>2 DEF ChannelsAt, a, e
  <2> QED BY <2>5, <2>6
<1> QED BY <1>1, <1>8, <1>9, <1>10

\* Taking in an item takes the description one item further.
LEMMA TakenProgress ==
  ASSUME NEW f, NEW hub, NEW m, NEW s, ItemAt(f, hub, m, s), NEW h \in Hub,
         Progress(h, f, hub, m - 1)
  PROVE  Progress(Taken(h, f[m].grp, f[m].key, s), f, hub, m)
<1> DEFINE e == Entered(h, f[m].grp)
           a == Assign(e, f[m].key, s)
           q == Taken(h, f[m].grp, f[m].key, s)
<1>1. /\ f \in Seq(Entry) /\ m \in Items(f, hub) /\ s \in String /\ m \in Nat
      /\ f[m].key \in Keys /\ f[m].data \in {s, NoData} /\ Items(f, hub) \subseteq Nat
  BY ItemsType DEF ItemAt
<1> SUFFICES ASSUME NEW id \in Items(f, hub), NEW name \in Items(f, hub),
                    NEW type \in Items(f, hub), NEW value \in Items(f, hub),
                    Description(f, hub, id, name, type, value)
             PROVE  /\ MembersAt(q, f, id, name, type, value, m)
                    /\ OverService(f, hub, type, value) => ServiceAt(q, value, m)
                    /\ \A end \in Items(f, hub) :
                         OverChannels(f, hub, type, value, end) => ChannelsAt(q, f, hub, end, m)
  BY DEF Progress
<1>2. /\ MembersAt(h, f, id, name, type, value, m - 1)
      /\ OverService(f, hub, type, value) => ServiceAt(h, value, m - 1)
      /\ \A end \in Items(f, hub) :
           OverChannels(f, hub, type, value, end) => ChannelsAt(h, f, hub, end, m - 1)
  BY DEF Progress
<1>3. /\ q.mSensingHubId = a.mSensingHubId
      /\ q.mPlatformId = a.mPlatformId
      /\ q.mClientCommType = a.mClientCommType
      /\ q.mClientCommValue = a.mClientCommValue
      /\ q.mReadCommAttr = a.mReadCommAttr
      /\ q.mIsClientCommGrp = a.mIsClientCommGrp
      /\ q.mSensingHubNameIdMapFilled = (a.mSensingHubNameIdMapFilled \/ Named(a))
      /\ q.mCommMapFilled = (a.mCommMapFilled \/ Reachable(a))
  BY <1>1, TakenType
<1>4. /\ type < value /\ f[value].data # NoData
      /\ f[id].data # NoData /\ Atoi(f[id].data) # -1
      /\ f[name].data \notin {NoData, Empty} /\ Atoi(f[value].data) # -1
      /\ OverService(f, hub, type, value)
           \/ \E end \in Items(f, hub) : OverChannels(f, hub, type, value, end)
  BY DEF Description
<1>5. h.mClientCommType = IF type <= m - 1 THEN f[type].data ELSE Empty
  BY <1>2 DEF MembersAt
<1>6. OverService(f, hub, type, value) =>
        /\ a.mClientCommValue = IF m = value THEN Atoi(f[value].data) ELSE h.mClientCommValue
        /\ ServiceAt(a, value, m)
  BY <1>2, <1>4, <1>5, ServiceTaken
<1>7. \A end \in Items(f, hub) : OverChannels(f, hub, type, value, end) =>
        /\ a.mClientCommValue = IF m = value THEN Atoi(f[value].data) ELSE h.mClientCommValue
        /\ ChannelsAt(a, f, hub, end, m)
  BY <1>2, <1>4, <1>5, ChannelsTaken
<1>8. OverService(f, hub, type, value) => ServiceAt(q, value, m)
  BY <1>3, <1>6 DEF ServiceAt
<1>9. \A end \in Items(f, hub) :
        OverChannels(f, hub, type, value, end) => ChannelsAt(q, f, hub, end, m)
  BY <1>3, <1>7 DEF ChannelsAt
<1>10. a.mClientCommValue = IF m = value THEN Atoi(f[value].data) ELSE h.mClientCommValue
  BY <1>4, <1>6, <1>7
<1>11. /\ f[m].key = "sensing_hub_id" <=> m = id
       /\ f[m].key = "platform_id" <=> m = name
       /\ f[m].key = "client_comm_type" <=> m = type
  BY <1>1 DEF Description, Keyed
<1>12. e \in Hub /\ e.mSensingHubId = h.mSensingHubId /\ e.mPlatformId = h.mPlatformId
       /\ e.mClientCommType = h.mClientCommType
       /\ e.mSensingHubNameIdMapFilled = h.mSensingHubNameIdMapFilled
       /\ e.mCommMapFilled = h.mCommMapFilled
  BY EnteredMembers
<1> HIDE DEF e, q
<1>13. /\ a.mSensingHubId = IF m = id THEN Atoi(s) ELSE h.mSensingHubId
       /\ a.mPlatformId = IF m = name THEN s ELSE h.mPlatformId
       /\ a.mClientCommType = IF m = type THEN s ELSE h.mClientCommType
       /\ a.mSensingHubNameIdMapFilled = h.mSensingHubNameIdMapFilled
       /\ a.mCommMapFilled = h.mCommMapFilled
  BY <1>1, <1>11, <1>12, AssignMembers
<1> HIDE DEF a
<1>14. \A i \in Items(f, hub) : /\ i <= m <=> i <= m - 1 \/ m = i
                                /\ m = i => ~(i <= m - 1)
  BY <1>1
<1>15. f[type].data \in {QMI, GLINK} /\ f[type].data # NoData /\ f[type].data # Empty
  <2>1. f[type].data \in {QMI, GLINK}
    BY <1>4 DEF OverService, OverChannels
  <2> QED BY <2>1, LinkKinds, StringsAssumption DEF QMI, GLINK
<1>16. /\ a.mSensingHubId = IF id <= m THEN Atoi(f[id].data) ELSE -1
       /\ a.mPlatformId = IF name <= m THEN f[name].data ELSE Empty
       /\ a.mClientCommType = IF type <= m THEN f[type].data ELSE Empty
       /\ a.mClientCommValue = IF value <= m THEN Atoi(f[value].data) ELSE -1
  BY <1>1, <1>2, <1>4, <1>10, <1>13, <1>14, <1>15 DEF MembersAt
<1>17. Named(a) <=> id <= m /\ name <= m
  BY <1>4, <1>16 DEF Named
<1>18. Reachable(a) <=> id <= m /\ value <= m
  <2>1. value <= m => type <= m
    BY <1>1, <1>4
  <2> QED BY <1>4, <1>15, <1>16, <2>1 DEF Reachable
<1>19. /\ h.mSensingHubNameIdMapFilled => id <= m /\ name <= m
       /\ h.mCommMapFilled => id <= m /\ value <= m
  BY <1>2, <1>14 DEF MembersAt
<1>20. /\ q.mSensingHubNameIdMapFilled = (id <= m /\ name <= m)
       /\ q.mCommMapFilled = (id <= m /\ value <= m)
  <2>1. h.mSensingHubNameIdMapFilled \in BOOLEAN /\ h.mCommMapFilled \in BOOLEAN
    BY DEF Hub
  <2>2. (h.mSensingHubNameIdMapFilled \/ Named(a)) = (id <= m /\ name <= m)
    BY <1>17, <1>19
  <2>3. (h.mCommMapFilled \/ Reachable(a)) = (id <= m /\ value <= m)
    BY <1>18, <1>19
  <2> QED BY <1>3, <1>13, <2>2, <2>3
<1>21. MembersAt(q, f, id, name, type, value, m)
  BY <1>3, <1>16, <1>20 DEF MembersAt
<1> QED BY <1>8, <1>9, <1>21

\* A hub that has not begun.
LEMMA NoProgress ==
  ASSUME NEW f \in Seq(Entry), NEW hub, NEW n \in Nat, \A i \in Items(f, hub) : i > n
  PROVE  Progress(NoHub, f, hub, n)
<1>1. \A i \in Items(f, hub) : i \in Nat /\ ~(i <= n)
  BY ItemsType
<1> SUFFICES ASSUME NEW id \in Items(f, hub), NEW name \in Items(f, hub),
                    NEW type \in Items(f, hub), NEW value \in Items(f, hub)
             PROVE  /\ MembersAt(NoHub, f, id, name, type, value, n)
                    /\ ServiceAt(NoHub, value, n)
                    /\ \A end \in Items(f, hub) : ChannelsAt(NoHub, f, hub, end, n)
  BY DEF Progress
<1>2. MembersAt(NoHub, f, id, name, type, value, n)
  BY <1>1 DEF MembersAt, NoHub
<1>3. ServiceAt(NoHub, value, n)
  BY DEF ServiceAt, NoHub
<1>4. \A end \in Items(f, hub) : ChannelsAt(NoHub, f, hub, end, n)
  BY <1>1 DEF ChannelsAt, NoHub
<1> QED BY <1>2, <1>3, <1>4

\* A hub in full has one id and one name.
LEMMA OneIdOneName ==
  ASSUME NEW f \in Seq(Entry), NEW hub, NEW id \in Items(f, hub), NEW name \in Items(f, hub),
         NEW type, NEW value, Description(f, hub, id, name, type, value)
  PROVE  /\ Says(f, hub, "platform_id") = {f[name].data}
         /\ Counts(f, hub, "sensing_hub_id") = {Atoi(f[id].data)}
<1>1. f[id].data \in String /\ f[name].data \in String
  BY ItemsType DEF Description
<1>2. /\ Keyed(f, hub, "sensing_hub_id") = {id} /\ Keyed(f, hub, "platform_id") = {name}
      /\ f[id].data # NoData /\ f[name].data # NoData
  BY DEF Description
<1>3. Says(f, hub, "platform_id") = {f[name].data}
  BY <1>1, <1>2 DEF Says
<1>4. Says(f, hub, "sensing_hub_id") = {f[id].data}
  BY <1>1, <1>2 DEF Says
<1> QED BY <1>3, <1>4 DEF Counts

\* After the last item of a hub in full both maps get its entry, and the
\* parser forgets the hub.
LEMMA LastItem ==
  ASSUME NEW f \in Seq(Entry), NEW hub, InFull(f, hub), NEW m \in Items(f, hub),
         \A i \in Items(f, hub) : i <= m, NEW q \in Hub, Progress(q, f, hub, m)
  PROVE  /\ q.mSensingHubNameIdMapFilled /\ q.mCommMapFilled
         /\ Forget(q) = NoHub
         /\ Named(q) /\ Reachable(q)
         /\ Says(f, hub, "platform_id") = {q.mPlatformId}
         /\ Counts(f, hub, "sensing_hub_id") = {q.mSensingHubId}
<1>1. PICK id \in Items(f, hub), name \in Items(f, hub), type \in Items(f, hub),
           value \in Items(f, hub) : Description(f, hub, id, name, type, value)
  BY DEF InFull
<1>2. /\ MembersAt(q, f, id, name, type, value, m)
      /\ OverService(f, hub, type, value) => ServiceAt(q, value, m)
      /\ \A end \in Items(f, hub) :
           OverChannels(f, hub, type, value, end) => ChannelsAt(q, f, hub, end, m)
  BY <1>1 DEF Progress
<1>3. Items(f, hub) \subseteq Nat
  BY ItemsType
<1>4. /\ q.mSensingHubId = Atoi(f[id].data) /\ q.mPlatformId = f[name].data
      /\ q.mClientCommType = f[type].data /\ q.mClientCommValue = Atoi(f[value].data)
      /\ q.mSensingHubNameIdMapFilled /\ q.mCommMapFilled
  BY <1>2 DEF MembersAt
<1>5. f[type].data # Empty
  BY <1>1, LinkKinds DEF Description, OverService, OverChannels
<1>6. Named(q) /\ Reachable(q)
  BY <1>1, <1>4, <1>5 DEF Named, Reachable, Description
<1>7. ~q.mIsClientCommGrp
  <2>1. CASE OverService(f, hub, type, value)
    BY <1>2, <1>3, <2>1 DEF ServiceAt
  <2>2. CASE \E end \in Items(f, hub) : OverChannels(f, hub, type, value, end)
    <3>1. PICK end \in Items(f, hub) : OverChannels(f, hub, type, value, end)
      BY <2>2
    <3>2. ~(m < end)
      BY <1>3
    <3>3. ChannelsAt(q, f, hub, end, m)
      BY <1>2, <3>1
    <3> QED BY <3>2, <3>3 DEF ChannelsAt
  <2> QED BY <1>1, <2>1, <2>2 DEF Description
<1>8. Forget(q) = NoHub
  <2>1. q.mIsClientCommGrp \in BOOLEAN
    BY DEF Hub
  <2>2. q.mIsClientCommGrp = FALSE
    BY <1>7, <2>1
  <2>3. ASSUME NEW S, NEW T, NEW g \in [S -> T], NEW x \in S
        PROVE  [g EXCEPT ![x] = g[x]] = g
    OBVIOUS
  <2>4. /\ NoHub \in [DOMAIN NoHub -> {NoHub[x] : x \in DOMAIN NoHub}]
        /\ "mIsClientCommGrp" \in DOMAIN NoHub /\ NoHub.mIsClientCommGrp = FALSE
    BY DEF NoHub
  <2>5. [NoHub EXCEPT !.mIsClientCommGrp = NoHub.mIsClientCommGrp] = NoHub
    BY <2>3, <2>4
  <2> QED BY <2>2, <2>4, <2>5 DEF Forget
<1> QED BY <1>1, <1>4, <1>6, <1>8, OneIdOneName

\* Before it, one of the two entries is missing.
LEMMA NotLastItem ==
  ASSUME NEW f \in Seq(Entry), NEW hub, InFull(f, hub), NEW m \in Nat,
         NEW i \in Items(f, hub), i > m, NEW q, Progress(q, f, hub, m)
  PROVE  ~(q.mSensingHubNameIdMapFilled /\ q.mCommMapFilled)
<1>1. PICK id \in Items(f, hub), name \in Items(f, hub), type \in Items(f, hub),
           value \in Items(f, hub) : Description(f, hub, id, name, type, value)
  BY DEF InFull
<1>2. /\ q.mSensingHubNameIdMapFilled = (id <= m /\ name <= m)
      /\ q.mCommMapFilled = (id <= m /\ value <= m)
  <2>1. MembersAt(q, f, id, name, type, value, m)
    BY <1>1 DEF Progress
  <2> QED BY <2>1 DEF MembersAt
<1>3. i \in Nat /\ id \in Nat /\ name \in Nat /\ value \in Nat
  BY ItemsType
<1>4. i <= id \/ i <= name \/ i <= value
  BY <1>1 DEF Description
<1>5. ~(id <= m /\ name <= m /\ value <= m)
  BY <1>3, <1>4
<1> QED BY <1>2, <1>5

\* What is no item of the hub takes its description no further.
LEMMA SkipProgress ==
  ASSUME NEW f \in Seq(Entry), NEW hub, NEW m \in Nat, m \notin Items(f, hub),
         NEW h, Progress(h, f, hub, m - 1)
  PROVE  Progress(h, f, hub, m)
<1>1. \A i \in Items(f, hub) : i \in Nat /\ (i <= m <=> i <= m - 1) /\ (m < i <=> m - 1 < i)
  BY ItemsType
<1> SUFFICES ASSUME NEW id \in Items(f, hub), NEW name \in Items(f, hub),
                    NEW type \in Items(f, hub), NEW value \in Items(f, hub),
                    Description(f, hub, id, name, type, value)
             PROVE  /\ MembersAt(h, f, id, name, type, value, m)
                    /\ OverService(f, hub, type, value) => ServiceAt(h, value, m)
                    /\ \A end \in Items(f, hub) :
                         OverChannels(f, hub, type, value, end) => ChannelsAt(h, f, hub, end, m)
  BY DEF Progress
<1>2. /\ MembersAt(h, f, id, name, type, value, m - 1)
      /\ OverService(f, hub, type, value) => ServiceAt(h, value, m - 1)
      /\ \A end \in Items(f, hub) :
           OverChannels(f, hub, type, value, end) => ChannelsAt(h, f, hub, end, m - 1)
  BY DEF Progress
<1>3. MembersAt(h, f, id, name, type, value, m)
  BY <1>1, <1>2 DEF MembersAt
<1>4. OverService(f, hub, type, value) => ServiceAt(h, value, m)
  BY <1>1, <1>2 DEF ServiceAt
<1>5. ASSUME NEW end \in Items(f, hub), OverChannels(f, hub, type, value, end)
      PROVE  ChannelsAt(h, f, hub, end, m)
  <2>1. ChannelsAt(h, f, hub, end, m - 1)
    BY <1>2, <1>5
  <2> QED BY <1>1, <2>1 DEF ChannelsAt
<1> QED BY <1>3, <1>4, <1>5

--------------------------------------------------------------------------------
(* The hubs of files that describe them in full.                           *)

\* The entries of the file that were read.
Read == Len(file) - Len(rest)
Untouched(hub) == \A i \in Items(file, hub) : i > Read
Finished(hub) == \A i \in Items(file, hub) : i <= Read
Begun(hub) == ~Untouched(hub) /\ ~Finished(hub)

SaidOf(f, hub) == [key \in Keys |-> Says(f, hub, key)]

RestInv ==
  /\ file \in opened
  /\ Len(rest) <= Len(file)
  /\ \A k \in 1 .. Len(rest) : rest[k] = file[Read + k]
  /\ \A i \in 1 .. Read : file[i].kind \in {"item", "config"}

\* Nothing is left of a hub when the next begins.
BeginsClean ==
  (\A hub \in HubsOf(file) : ~Begun(hub)) /\ (\E hub \in HubsOf(file) : Untouched(hub))
    => p = NoHub

BegunInv ==
  \A hub \in HubsOf(file) : Begun(hub) =>
    Collected(p, SaidOf(file, hub)) /\ Progress(p, file, hub, Read)

FoundInv ==
  \A hub \in HubsOf(file) : InFull(file, hub) /\ Finished(hub) =>
    /\ Says(file, hub, "platform_id") \subseteq DOMAIN mSensingHubNameIdMap
    /\ Counts(file, hub, "sensing_hub_id") \subseteq DOMAIN mSensingHubCommMap

IdsRead ==
  {i \in DOMAIN file : file[i].kind = "item" /\ file[i].key = "sensing_hub_id" /\ i <= Read}
HubIdsInv ==
  WellFormed(file) =>
    {mHubIds[i] : i \in DOMAIN mHubIds} = {Atoi(file[i].data) : i \in IdsRead}

HubInv ==
  /\ FilesInFull
  /\ TypeOK
  /\ OwnEntries
  /\ outcome = "reading" => RestInv /\ BeginsClean /\ BegunInv
  /\ outcome \in {"reading", "read"} => FoundInv /\ HubIdsInv
  /\ outcome = "read" => rest = <<>> /\ WellFormed(file) /\ file \in opened

\* The next entry of the file.
LEMMA NextEntry ==
  ASSUME TypeOK, RestInv, rest # <<>>, rest' = Tail(rest), file' = file, opened' = opened,
         Head(rest).kind \in {"item", "config"}
  PROVE  /\ Read \in Nat
         /\ Read + 1 \in DOMAIN file
         /\ file[Read + 1] = Head(rest)
         /\ Read' = Read + 1
         /\ RestInv'
<1>1. /\ file \in Seq(Entry) /\ rest \in Seq(Entry)
      /\ Len(file) \in Nat /\ Len(rest) \in Nat \ {0} /\ DOMAIN file = 1 .. Len(file)
  BY DEF TypeOK
<1>2. /\ Len(rest') = Len(rest) - 1 /\ Head(rest) = rest[1]
      /\ \A k \in 1 .. Len(rest') : k + 1 \in 1 .. Len(rest) /\ rest'[k] = rest[k + 1]
  BY <1>1
<1>3. Read \in Nat /\ Read + 1 \in DOMAIN file /\ Read' = Read + 1
  BY <1>1, <1>2 DEF RestInv, Read
<1>4. file[Read + 1] = Head(rest)
  BY <1>1, <1>2 DEF RestInv
<1>5. ASSUME NEW k \in 1 .. Len(rest') PROVE rest'[k] = file[(Read + 1) + k]
  <2>1. rest[k + 1] = file[Read + (k + 1)]
    BY <1>2 DEF RestInv
  <2>2. Read + (k + 1) = (Read + 1) + k
    BY <1>3
  <2> QED BY <1>2, <2>1, <2>2
<1>6. \A i \in 1 .. (Read + 1) : file[i].kind \in {"item", "config"}
  BY <1>3, <1>4 DEF RestInv
<1>7. file' \in opened' /\ Len(rest') <= Len(file')
  BY <1>1, <1>2 DEF RestInv
<1>8. RestInv'
  BY <1>3, <1>5, <1>6, <1>7 DEF RestInv
<1> QED BY <1>3, <1>4, <1>8

\* An item of the file lies after those of the hubs that have begun, so its
\* own hub is the only one with items on both sides of it.
LEMMA OneHubAtATime ==
  ASSUME NEW f \in Seq(Entry), FileInFull(f), NEW m \in DOMAIN f, f[m].kind = "item",
         NEW hub \in HubsOf(f), hub # f[m].hub,
         NEW i \in Items(f, hub), NEW k \in Items(f, hub)
  PROVE  ~(i < m /\ m < k)
  BY DEF FileInFull

\* The hub of an item can be taken in where the parser stands.
LEMMA HubAtHand ==
  ASSUME NEW m, NEW hub, FileInFull(file), TypeOK, RestInv, BeginsClean, BegunInv,
         m = Read + 1, Read \in Nat, m \in Items(file, hub)
  PROVE  Collected(p, SaidOf(file, hub)) /\ Progress(p, file, hub, m - 1)
<1>1. /\ file \in Seq(Entry) /\ hub \in HubsOf(file) /\ m \in DOMAIN file
      /\ file[m].kind = "item" /\ file[m].hub = hub /\ m - 1 = Read /\ m \in Nat
  BY DEF TypeOK, Items, HubsOf
<1>2. CASE Untouched(hub)
  <2>1. ASSUME NEW other \in HubsOf(file), Begun(other) PROVE FALSE
    <3>1. PICK i \in Items(file, other) : ~(i > Read)
      BY <2>1 DEF Begun, Untouched
    <3>2. PICK k \in Items(file, other) : ~(k <= Read)
      BY <2>1 DEF Begun, Finished
    <3>3. other # hub
      BY <1>2, <2>1 DEF Begun
    <3>4. i \in Nat /\ k \in Nat /\ k # m
      BY <1>1, <3>3, ItemsType DEF Items
    <3>5. i < m /\ m < k
      BY <1>1, <3>1, <3>2, <3>4
    <3> QED BY <1>1, <3>3, <3>5, OneHubAtATime
  <2>2. p = NoHub
    BY <1>1, <1>2, <2>1 DEF BeginsClean
  <2>3. Progress(p, file, hub, Read)
    BY <1>1, <1>2, <2>2, NoProgress DEF Untouched
  <2> QED BY <1>1, <2>2, <2>3 DEF Collected, NoHub
<1>3. CASE ~Untouched(hub)
  <2>1. Begun(hub)
    BY <1>1, <1>3 DEF Begun, Finished
  <2> QED BY <1>1, <2>1 DEF BegunInv
<1> QED BY <1>2, <1>3

\* Taking in an item of a hub, with all that is known of it.
LEMMA ItemTaken ==
  ASSUME NEW m, NEW hub, HubInv, ParseItem, m = Read + 1, hub = file[m].hub
  PROVE  /\ RestInv /\ RestInv' /\ Read' = m /\ m \in Nat \ {0} /\ m \in Items(file, hub)
         /\ hub \in HubsOf(file) /\ FileInFull(file) /\ file \in Seq(Entry)
         /\ file[m] = Head(rest)
         /\ outcome = "reading" /\ UNCHANGED <<file, opened, outcome>>
         /\ \E s \in String :
              /\ ItemAt(file, hub, m, s)
              /\ s \in SaidOf(file, hub)[file[m].key]
              /\ UpdateSensingHubInfo(file[m].grp, file[m].key, s)
<1>1. /\ outcome = "reading" /\ rest # <<>> /\ rest' = Tail(rest)
      /\ UNCHANGED <<file, opened, outcome>>
      /\ Head(rest).kind = "item" /\ Head(rest).key \in Keys
  BY ItemRead DEF HubInv
<1>2. TypeOK /\ RestInv /\ file \in Seq(Entry)
  BY <1>1 DEF HubInv, TypeOK
<1>3. /\ Read \in Nat /\ m \in DOMAIN file /\ file[m] = Head(rest)
      /\ Read' = m /\ RestInv'
  BY <1>1, <1>2, NextEntry
<1>4. FileInFull(file)
  BY <1>2 DEF HubInv, FilesInFull, RestInv, TypeOK
<1>5. m \in Items(file, hub) /\ hub \in HubsOf(file)
  BY <1>1, <1>3 DEF Items, HubsOf
<1>6. PICK s \in String : /\ Head(rest).data \in {s, NoData}
                          /\ UpdateSensingHubInfo(Head(rest).grp, Head(rest).key, s)
  BY <1>2, ItemRead DEF HubInv
<1>7. s \in SaidOf(file, hub)[file[m].key]
  BY <1>1, <1>3, <1>5, <1>6 DEF SaidOf, Says, Keyed
<1>8. ItemAt(file, hub, m, s)
  BY <1>2, <1>3, <1>5, <1>6 DEF ItemAt
<1> QED BY <1>1, <1>2, <1>3, <1>4, <1>5, <1>6, <1>7, <1>8

\* The entries an item adds are of its hub.
LEMMA OwnStep == ASSUME HubInv, ParseItem PROVE OwnEntries'
<1> DEFINE m == Read + 1
           hub == file[m].hub
           said == SaidOf(file, hub)
<1>1. /\ RestInv /\ m \in Items(file, hub) /\ hub \in HubsOf(file)
      /\ FileInFull(file) /\ file \in Seq(Entry)
      /\ outcome = "reading" /\ UNCHANGED <<file, opened>> /\ Read \in Nat
  BY ItemTaken, NextEntry, ItemRead DEF HubInv
<1>2. PICK s \in String :
        /\ ItemAt(file, hub, m, s)
        /\ s \in said[file[m].key]
        /\ UpdateSensingHubInfo(file[m].grp, file[m].key, s)
  BY ItemTaken
<1>3. TypeOK /\ Collected(p, said)
  BY <1>1, HubAtHand DEF HubInv
<1>4. file[m].key \in Keys
  BY <1>1, ItemsType
<1> HIDE DEF said
<1>5. /\ \A name \in DOMAIN mSensingHubNameIdMap' :
           \/ /\ name \in DOMAIN mSensingHubNameIdMap
              /\ mSensingHubNameIdMap'[name] = mSensingHubNameIdMap[name]
           \/ NameSaid(name, mSensingHubNameIdMap'[name], said)
      /\ \A id \in DOMAIN mSensingHubCommMap' :
           \/ /\ id \in DOMAIN mSensingHubCommMap
              /\ mSensingHubCommMap'[id] = mSensingHubCommMap[id]
           \/ LinkSaid(id, mSensingHubCommMap'[id], said)
      /\ \A id \in DOMAIN mSensingHubIdNameMap' :
           \/ /\ id \in DOMAIN mSensingHubIdNameMap
              /\ mSensingHubIdNameMap'[id] = mSensingHubIdNameMap[id]
           \/ EndSaid(id, mSensingHubIdNameMap'[id], said)
  BY <1>2, <1>3, <1>4, UpdateCollects
<1>6. file \in opened'
  BY <1>1 DEF RestInv
<1>7. OwnEntries
  BY DEF HubInv
<1>8. \A name, id : NameSaid(name, id, said) =>
        /\ name \in Says(file, hub, "platform_id")
        /\ id \in Counts(file, hub, "sensing_hub_id")
  BY DEF NameSaid, SaidOf, said, Keys, Atois, Counts
<1>9. \A id, link : LinkSaid(id, link, said) =>
        /\ id \in Counts(file, hub, "sensing_hub_id")
        /\ link.type \in Says(file, hub, "client_comm_type")
        /\ link.value \in Counts(file, hub, "service_id") \cup Counts(file, hub, "no_of_channels")
  BY DEF LinkSaid, SaidOf, said, Keys, Atois, Counts
<1>10. \A id, name : EndSaid(id, name, said) =>
        /\ name \in Says(file, hub, "link_name")
        /\ id \in Counts(file, hub, "sensing_hub_id") \cup {-1}
  BY DEF EndSaid, SaidOf, said, Keys, Atois, Counts
<1> HIDE DEF hub, m
<1>11. ASSUME NEW name \in DOMAIN mSensingHubNameIdMap'
       PROVE  \E f \in opened' : \E b \in HubsOf(f) :
                /\ name \in Says(f, b, "platform_id")
                /\ mSensingHubNameIdMap'[name] \in Counts(f, b, "sensing_hub_id")
  <2>1. CASE /\ name \in DOMAIN mSensingHubNameIdMap
             /\ mSensingHubNameIdMap'[name] = mSensingHubNameIdMap[name]
    BY <1>1, <1>7, <2>1 DEF OwnEntries
  <2>2. CASE NameSaid(name, mSensingHubNameIdMap'[name], said)
    BY <1>1, <1>6, <1>8, <2>2
  <2> QED BY <1>5, <2>1, <2>2
<1>12. ASSUME NEW id \in DOMAIN mSensingHubCommMap'
       PROVE  \E f \in opened' : \E b \in HubsOf(f) :
                /\ id \in Counts(f, b, "sensing_hub_id")
                /\ mSensingHubCommMap'[id].type \in Says(f, b, "client_comm_type")
                /\ mSensingHubCommMap'[id].value
                     \in Counts(f, b, "service_id") \cup Counts(f, b, "no_of_channels")
  <2>1. CASE /\ id \in DOMAIN mSensingHubCommMap
             /\ mSensingHubCommMap'[id] = mSensingHubCommMap[id]
    BY <1>1, <1>7, <2>1 DEF OwnEntries
  <2>2. CASE LinkSaid(id, mSensingHubCommMap'[id], said)
    BY <1>1, <1>6, <1>9, <2>2
  <2> QED BY <1>5, <2>1, <2>2
<1>13. ASSUME NEW id \in DOMAIN mSensingHubIdNameMap'
       PROVE  \E f \in opened' : \E b \in HubsOf(f) :
                /\ mSensingHubIdNameMap'[id] \in Says(f, b, "link_name")
                /\ id \in Counts(f, b, "sensing_hub_id") \cup {-1}
  <2>1. CASE /\ id \in DOMAIN mSensingHubIdNameMap
             /\ mSensingHubIdNameMap'[id] = mSensingHubIdNameMap[id]
    BY <1>1, <1>7, <2>1 DEF OwnEntries
  <2>2. CASE EndSaid(id, mSensingHubIdNameMap'[id], said)
    BY <1>1, <1>6, <1>10, <2>2
  <2> QED BY <1>5, <2>1, <2>2
<1> QED BY <1>11, <1>12, <1>13 DEF OwnEntries

\* What was found stays in the maps.
LEMMA MapsGrow ==
  ASSUME NEW grp, NEW key, NEW s, UpdateSensingHubInfo(grp, key, s)
  PROVE  /\ DOMAIN mSensingHubNameIdMap \subseteq DOMAIN mSensingHubNameIdMap'
         /\ DOMAIN mSensingHubCommMap \subseteq DOMAIN mSensingHubCommMap'
         /\ LET q == Taken(p, grp, key, s)
            IN /\ Named(q) => q.mPlatformId \in DOMAIN mSensingHubNameIdMap'
               /\ Reachable(q) => q.mSensingHubId \in DOMAIN mSensingHubCommMap'
<1> DEFINE q == Taken(p, grp, key, s)
<1>1. /\ mSensingHubNameIdMap' =
           IF Named(q)
           THEN Insert(mSensingHubNameIdMap, q.mPlatformId, q.mSensingHubId)
           ELSE mSensingHubNameIdMap
      /\ mSensingHubCommMap' =
           IF Reachable(q)
           THEN Insert(mSensingHubCommMap, q.mSensingHubId,
                       [type |-> q.mClientCommType, value |-> q.mClientCommValue])
           ELSE mSensingHubCommMap
  BY UpdateStep
<1> HIDE DEF q
<1> QED BY <1>1 DEF Insert, q

\* An item leaves no other hub begun.
LEMMA OneBegun ==
  ASSUME NEW m \in Nat, FileInFull(file), TypeOK, m \in DOMAIN file,
         file[m].kind = "item", Read' = m, file' = file,
         NEW other \in HubsOf(file), other # file[m].hub
  PROVE  ~Begun(other)'
<1> SUFFICES ASSUME Begun(other)' PROVE FALSE
  OBVIOUS
<1>1. PICK i \in Items(file, other) : ~(i > m)
  BY DEF Begun, Untouched
<1>2. PICK k \in Items(file, other) : ~(k <= m)
  BY DEF Begun, Finished
<1>3. file \in Seq(Entry) /\ i # m /\ i \in Nat /\ k \in Nat
  BY ItemsType DEF TypeOK, Items
<1>4. i < m /\ m < k
  BY <1>1, <1>2, <1>3
<1> QED BY <1>3, <1>4, OneHubAtATime

LEMMA ItemHubs ==
  ASSUME HubInv, ParseItem
  PROVE  (BeginsClean /\ BegunInv /\ FoundInv)'
<1> PICK m : m = Read + 1
  OBVIOUS
<1> PICK hub : hub = file[m].hub
  OBVIOUS
<1>1. /\ RestInv /\ Read' = m /\ m \in Nat \ {0} /\ m \in Items(file, hub)
      /\ hub \in HubsOf(file) /\ FileInFull(file) /\ file \in Seq(Entry)
      /\ outcome = "reading" /\ UNCHANGED <<file, opened, outcome>>
  BY ItemTaken
<1>2. PICK s \in String :
        /\ ItemAt(file, hub, m, s)
        /\ s \in SaidOf(file, hub)[file[m].key]
        /\ UpdateSensingHubInfo(file[m].grp, file[m].key, s)
  BY ItemTaken
<1>3. /\ TypeOK /\ p \in Hub /\ BeginsClean /\ BegunInv /\ FoundInv
      /\ file[m].key \in Keys /\ m \in DOMAIN file /\ file[m].kind = "item"
      /\ \A b \in HubsOf(file) : Items(file, b) \subseteq Nat /\ Items(file, b) # {}
  <2>1. \A b \in HubsOf(file) : Items(file, b) # {}
    BY DEF HubsOf, Items
  <2> QED BY <1>1, <2>1, ItemsType DEF HubInv, TypeOK, Items
<1>4. Read \in Nat
  BY <1>1, <1>3 DEF Read, TypeOK, RestInv
<1>5. Collected(p, SaidOf(file, hub)) /\ Progress(p, file, hub, m - 1)
  BY <1>1, <1>3, <1>4, HubAtHand
<1> DEFINE q == Taken(p, file[m].grp, file[m].key, s)
<1>6. q \in Hub /\ Progress(q, file, hub, m)
  BY <1>2, <1>3, <1>5, TakenProgress, TakenType
<1>7. Collected(p', SaidOf(file, hub))
  BY <1>2, <1>3, <1>5, UpdateCollects
<1>8. p' = IF q.mSensingHubNameIdMapFilled /\ q.mCommMapFilled THEN Forget(q) ELSE q
  BY <1>2, UpdateStep
<1>9. /\ DOMAIN mSensingHubNameIdMap \subseteq DOMAIN mSensingHubNameIdMap'
      /\ DOMAIN mSensingHubCommMap \subseteq DOMAIN mSensingHubCommMap'
      /\ Named(q) => q.mPlatformId \in DOMAIN mSensingHubNameIdMap'
      /\ Reachable(q) => q.mSensingHubId \in DOMAIN mSensingHubCommMap'
  BY <1>2, MapsGrow
<1> HIDE DEF q
<1>10. \A b \in HubsOf(file) : b # hub => ~Begun(b)'
  BY <1>1, <1>3, OneBegun
<1>11. InFull(file, hub) /\ (\A i \in Items(file, hub) : i <= m) =>
         /\ p' = NoHub
         /\ Says(file, hub, "platform_id") \subseteq DOMAIN mSensingHubNameIdMap'
         /\ Counts(file, hub, "sensing_hub_id") \subseteq DOMAIN mSensingHubCommMap'
  BY <1>1, <1>6, <1>8, <1>9, LastItem
<1>12. BegunInv'
  <2> SUFFICES ASSUME NEW b \in HubsOf(file), Begun(b)'
               PROVE  Collected(p', SaidOf(file, b)) /\ Progress(p', file, b, m)
    BY <1>1 DEF BegunInv
  <2>1. b = hub
    BY <1>10
  <2>2. PICK i \in Items(file, hub) : ~(i <= m)
    BY <1>1, <2>1 DEF Begun, Finished
  <2>3. i > m
    BY <1>1, <1>3, <2>2
  <2>4. CASE InFull(file, hub)
    <3>1. ~(q.mSensingHubNameIdMapFilled /\ q.mCommMapFilled)
      BY <1>1, <1>6, <2>3, <2>4, NotLastItem
    <3> QED BY <1>6, <1>7, <1>8, <2>1, <3>1
  <2>5. CASE ~InFull(file, hub)
    <3>1. Progress(p', file, hub, m)
      BY <2>5 DEF Progress, InFull
    <3> QED BY <1>7, <2>1, <3>1
  <2> QED BY <2>4, <2>5
<1>13. BeginsClean'
  <2> SUFFICES ASSUME ~Begun(hub)', NEW b \in HubsOf(file), Untouched(b)'
               PROVE  p' = NoHub
    BY <1>1 DEF BeginsClean
  <2>1. ~Untouched(hub)'
    BY <1>1, <1>3 DEF Untouched
  <2>2. b # hub /\ \A i \in Items(file, hub) : i <= m
    BY <1>1, <2>1 DEF Begun, Finished
  <2>3. PICK j \in Items(file, b) : j > m
    BY <1>1, <1>3 DEF Untouched
  <2>4. InFull(file, hub)
    BY <1>1, <2>2, <2>3 DEF FileInFull
  <2> QED BY <1>11, <2>2, <2>4
<1>14. FoundInv'
  <2> SUFFICES ASSUME NEW b \in HubsOf(file), InFull(file, b), Finished(b)'
               PROVE  /\ Says(file, b, "platform_id") \subseteq DOMAIN mSensingHubNameIdMap'
                      /\ Counts(file, b, "sensing_hub_id") \subseteq DOMAIN mSensingHubCommMap'
    BY <1>1 DEF FoundInv
  <2>1. CASE b = hub
    BY <1>1, <1>11, <2>1 DEF Finished
  <2>2. CASE b # hub
    <3>1. \A i \in Items(file, b) : i <= m /\ i # m /\ i \in Nat
      BY <1>1, <1>3, <2>2 DEF Finished, Items
    <3>2. Finished(b)
      BY <1>4, <3>1 DEF Finished
    <3> QED BY <1>3, <1>9, <3>2 DEF FoundInv
  <2> QED BY <2>1, <2>2
<1> QED BY <1>12, <1>13, <1>14

\* The list of hubs is that of the ids that were read.
LEMMA ItemHubIds == ASSUME HubInv, ParseItem PROVE HubIdsInv'
<1> PICK m : m = Read + 1
  OBVIOUS
<1> PICK hub : hub = file[m].hub
  OBVIOUS
<1>1. /\ Read' = m /\ m \in Nat \ {0} /\ m \in Items(file, hub) /\ RestInv
      /\ hub \in HubsOf(file) /\ FileInFull(file) /\ file \in Seq(Entry)
      /\ outcome = "reading" /\ UNCHANGED <<file, opened, outcome>>
  BY ItemTaken
<1>2. PICK s \in String :
        /\ ItemAt(file, hub, m, s)
        /\ UpdateSensingHubInfo(file[m].grp, file[m].key, s)
  BY ItemTaken
<1>3. HubIdsInv /\ mHubIds \in Seq(Int) /\ DOMAIN file \subseteq Nat /\ Read \in Nat
  BY <1>1 DEF HubInv, TypeOK, Read, RestInv
<1> SUFFICES ASSUME WellFormed(file)
             PROVE  {mHubIds'[i] : i \in DOMAIN mHubIds'} = {Atoi(file[i].data) : i \in IdsRead'}
  BY <1>1 DEF HubIdsInv
<1>4. {mHubIds[i] : i \in DOMAIN mHubIds} = {Atoi(file[i].data) : i \in IdsRead}
  BY <1>3 DEF HubIdsInv
<1>5. \A i \in Nat : i <= m <=> i <= Read \/ i = m
  BY <1>1, <1>3
<1>6. m \in DOMAIN file /\ file[m].kind = "item"
  BY <1>1 DEF Items
<1>7. mHubIds' = IF file[m].key = "sensing_hub_id" THEN Append(mHubIds, Atoi(s)) ELSE mHubIds
  BY <1>2, UpdateStep
<1>8. CASE file[m].key = "sensing_hub_id"
  <2>1. PICK id \in Items(file, hub), name \in Items(file, hub), type \in Items(file, hub),
             value \in Items(file, hub) : Description(file, hub, id, name, type, value)
    BY <1>1 DEF FileInFull, InFull
  <2>2. m = id /\ file[m].data # NoData
    BY <1>1, <1>8, <2>1 DEF Description, Keyed
  <2>3. s = file[m].data
    BY <1>2, <2>2 DEF ItemAt
  <2>4. IdsRead' = IdsRead \cup {m}
    BY <1>1, <1>3, <1>5, <1>6, <1>8 DEF IdsRead
  <2>5. /\ DOMAIN mHubIds' = DOMAIN mHubIds \cup {Len(mHubIds) + 1}
        /\ \A i \in DOMAIN mHubIds : mHubIds'[i] = mHubIds[i]
        /\ mHubIds'[Len(mHubIds) + 1] = Atoi(file[m].data)
    <3>1. Atoi(s) \in Int
      BY AtoiType
    <3>2. mHubIds' = Append(mHubIds, Atoi(s))
      BY <1>7, <1>8
    <3>3. Len(mHubIds) \in Nat /\ DOMAIN mHubIds = 1 .. Len(mHubIds)
      BY <1>3
    <3>4. /\ DOMAIN mHubIds' = 1 .. (Len(mHubIds) + 1)
          /\ \A i \in 1 .. Len(mHubIds) : mHubIds'[i] = mHubIds[i]
          /\ mHubIds'[Len(mHubIds) + 1] = Atoi(s)
      BY <1>3, <3>1, <3>2
    <3> QED BY <2>3, <3>3, <3>4
  <2>6. {mHubIds'[i] : i \in DOMAIN mHubIds'} =
          {mHubIds[i] : i \in DOMAIN mHubIds} \cup {Atoi(file[m].data)}
    BY <2>5
  <2> QED BY <1>4, <2>4, <2>6
<1>9. CASE file[m].key # "sensing_hub_id"
  <2>1. IdsRead' = IdsRead
    BY <1>1, <1>3, <1>5, <1>9 DEF IdsRead
  <2> QED BY <1>4, <1>7, <1>9, <2>1
<1> QED BY <1>8, <1>9

\* An entry that is no item leaves the hubs where they are.
LEMMA ConfigHubs ==
  ASSUME HubInv, ParseConfig, outcome' = "reading"
  PROVE  (RestInv /\ BeginsClean /\ BegunInv /\ FoundInv /\ HubIdsInv)'
<1> PICK m : m = Read + 1
  OBVIOUS
<1>1. /\ outcome = "reading" /\ rest # <<>> /\ Head(rest).kind = "config"
      /\ rest' = Tail(rest)
      /\ UNCHANGED <<p, mHubIds, mSensingHubNameIdMap, mSensingHubCommMap, file, opened>>
  BY DEF ParseConfig, At, Succeed, mapVars
<1>2. TypeOK /\ RestInv /\ BeginsClean /\ BegunInv /\ FoundInv /\ HubIdsInv
  BY <1>1 DEF HubInv
<1>3. Read \in Nat /\ m \in DOMAIN file /\ file[m] = Head(rest) /\ Read' = m /\ RestInv'
  BY <1>1, <1>2, NextEntry
<1>4. file \in Seq(Entry) /\ m \in Nat /\ m - 1 = Read
  BY <1>2, <1>3 DEF TypeOK
<1>5. \A hub : /\ m \notin Items(file, hub)
               /\ \A i \in Items(file, hub) : /\ i \in Nat
                                              /\ i > m <=> i > Read
                                              /\ i <= m <=> i <= Read
  <2> TAKE hub
  <2>1. m \notin Items(file, hub)
    BY <1>1, <1>3 DEF Items
  <2> QED BY <1>3, <1>4, <2>1, ItemsType
<1>6. \A hub \in HubsOf(file) : /\ Untouched(hub)' <=> Untouched(hub)
                                /\ Finished(hub)' <=> Finished(hub)
  BY <1>1, <1>3, <1>5 DEF Untouched, Finished
<1>7. \A hub \in HubsOf(file) : Begun(hub)' <=> Begun(hub)
  BY <1>6 DEF Begun
<1>8. BeginsClean'
  BY <1>1, <1>2, <1>6, <1>7 DEF BeginsClean
<1>9. BegunInv'
  <2> SUFFICES ASSUME NEW hub \in HubsOf(file), Begun(hub)
               PROVE  Collected(p, SaidOf(file, hub)) /\ Progress(p, file, hub, m)
    BY <1>1, <1>3, <1>7 DEF BegunInv
  <2>1. Collected(p, SaidOf(file, hub)) /\ Progress(p, file, hub, m - 1)
    BY <1>2, <1>4 DEF BegunInv
  <2> QED BY <1>4, <1>5, <2>1, SkipProgress
<1>10. FoundInv'
  BY <1>1, <1>2, <1>6 DEF FoundInv
<1>11. HubIdsInv'
  <2>1. IdsRead' = IdsRead
    <3>1. \A i \in DOMAIN file : file[i].kind = "item" => (i <= m <=> i <= Read)
      BY <1>5 DEF Items
    <3> QED BY <1>1, <1>3, <3>1 DEF IdsRead
  <2> QED BY <1>1, <1>2, <2>1 DEF HubIdsInv
<1> QED BY <1>3, <1>8, <1>9, <1>10, <1>11

\* A file that is opened begins with nothing.
LEMMA LoadHubs ==
  ASSUME HubInv, NEW f \in Files, LoadFile(f), outcome' = "reading"
  PROVE  (RestInv /\ BeginsClean /\ BegunInv /\ FoundInv /\ HubIdsInv)'
<1>1. file' = f /\ rest' = f /\ opened' = opened \cup {f} /\ p' = NoHub /\ mHubIds' = <<>>
  BY DEF LoadFile, ResetParserState
<1>2. f \in Seq(Entry) /\ Len(f) \in Nat
  BY FilesAssumption
<1>3. Read' = 0
  BY <1>1, <1>2 DEF Read
<1>4. \A hub \in HubsOf(f) : /\ Items(f, hub) # {}
                             /\ \A i \in Items(f, hub) : i > 0 /\ ~(i <= 0)
  BY <1>2, ItemsType DEF HubsOf, Items
<1>5. \A hub \in HubsOf(f) : Untouched(hub)' /\ ~Finished(hub)'
  BY <1>1, <1>3, <1>4 DEF Untouched, Finished
<1>6. RestInv'
  BY <1>1, <1>2, <1>3 DEF RestInv
<1>7. BeginsClean' /\ BegunInv' /\ FoundInv'
  BY <1>1, <1>5 DEF BeginsClean, BegunInv, FoundInv, Begun
<1>8. HubIdsInv'
  <2>1. IdsRead' = {}
    BY <1>1, <1>2, <1>3 DEF IdsRead
  <2> QED BY <1>1, <2>1 DEF HubIdsInv
<1> QED BY <1>6, <1>7, <1>8

LEMMA HubInit == FilesInFull /\ Init => HubInv
<1> SUFFICES ASSUME FilesInFull, Init PROVE HubInv
  OBVIOUS
<1>1. OwnEntries
  BY DEF Init, OwnEntries, EmptyMap
<1> QED BY <1>1, InitType DEF Init, HubInv

LEMMA HubStep == HubInv /\ [Next]_vars => HubInv'
<1> SUFFICES ASSUME HubInv, [Next]_vars PROVE HubInv'
  OBVIOUS
<1>1. TypeOK' /\ FilesInFull
  BY TypeStep DEF HubInv
<1>2. ASSUME UNCHANGED mapVars, opened \subseteq opened'
      PROVE  OwnEntries'
  BY <1>2 DEF HubInv, OwnEntries, mapVars
<1>3. CASE \E f \in Files : LoadFile(f)
  <2>1. PICK f \in Files : LoadFile(f)
    BY <1>3
  <2>2. OwnEntries'
    BY <1>2, <2>1 DEF LoadFile, mapVars
  <2>3. outcome' \in {"reading", "failed"}
    BY <2>1 DEF LoadFile
  <2> QED BY <1>1, <2>1, <2>2, <2>3, LoadHubs DEF HubInv
<1>4. CASE ParseItem
  <2>1. outcome' = "reading" /\ RestInv'
    BY <1>4, ItemTaken
  <2> QED BY <1>1, <1>4, <2>1, OwnStep, ItemHubs, ItemHubIds DEF HubInv
<1>5. CASE ParseConfig
  <2>1. OwnEntries'
    BY <1>2, <1>5 DEF ParseConfig, Succeed, mapVars
  <2>2. outcome' \in {"reading", "skipped"}
    BY <1>5 DEF ParseConfig, Succeed, At
  <2> QED BY <1>1, <1>5, <2>1, <2>2, ConfigHubs DEF HubInv
<1>6. CASE ParseBadConfig \/ ParseMalformed
  <2>1. OwnEntries'
    BY <1>2, <1>6 DEF ParseBadConfig, ParseMalformed, Succeed, mapVars
  <2>2. outcome' \in {"skipped", "abandoned", "failed"}
    BY <1>6 DEF ParseBadConfig, ParseMalformed, Succeed
  <2> QED BY <1>1, <2>1, <2>2 DEF HubInv
<1>7. CASE ParseEnd
  <2>1. /\ outcome = "reading" /\ outcome' = "read" /\ rest = <<>>
        /\ UNCHANGED <<mHubIds, mSensingHubNameIdMap, mSensingHubCommMap, file, rest, opened>>
    BY <1>7 DEF ParseEnd, Succeed, mapVars
  <2>2. OwnEntries'
    BY <1>2, <1>7 DEF ParseEnd, Succeed
  <2>3. FoundInv' /\ HubIdsInv'
    BY <2>1 DEF HubInv, FoundInv, HubIdsInv, IdsRead, Finished, Read
  <2>4. WellFormed(file) /\ file \in opened
    <3>1. file \in Seq(Entry) /\ Read = Len(file)
      BY <2>1 DEF HubInv, TypeOK, Read
    <3> QED BY <2>1, <3>1 DEF HubInv, RestInv, WellFormed
  <2> QED BY <1>1, <2>1, <2>2, <2>3, <2>4 DEF HubInv
<1>8. CASE UNCHANGED vars
  <2>1. /\ UNCHANGED <<p, mHubIds, file, rest, outcome, opened>>
        /\ UNCHANGED <<mSensingHubNameIdMap, mSensingHubCommMap>>
    BY <1>8 DEF vars, mapVars
  <2>2. OwnEntries'
    BY <1>2, <1>8 DEF vars
  <2>3. Read' = Read
    BY <2>1 DEF Read
  <2>4. RestInv => RestInv'
    BY <2>1, <2>3 DEF RestInv
  <2>5. \A hub : Begun(hub)' = Begun(hub) /\ Untouched(hub)' = Untouched(hub)
                /\ Finished(hub)' = Finished(hub)
    BY <2>1, <2>3 DEF Begun, Untouched, Finished
  <2>6. BeginsClean => BeginsClean'
    BY <2>1, <2>5 DEF BeginsClean
  <2>7. BegunInv => BegunInv'
    BY <2>1, <2>3, <2>5 DEF BegunInv
  <2>8. FoundInv => FoundInv'
    BY <2>1, <2>5 DEF FoundInv
  <2>9. HubIdsInv => HubIdsInv'
    BY <2>1, <2>3 DEF HubIdsInv, IdsRead
  <2> QED BY <1>1, <2>1, <2>2, <2>4, <2>6, <2>7, <2>8, <2>9 DEF HubInv
<1> QED BY <1>3, <1>4, <1>5, <1>6, <1>7, <1>8 DEF Next, Done

LEMMA AllFound == HubInv => EveryHubFound
<1> SUFFICES ASSUME HubInv, outcome = "read" PROVE EveryHubFound
  BY DEF EveryHubFound
<1>1. /\ rest = <<>> /\ WellFormed(file) /\ file \in Seq(Entry) /\ FileInFull(file)
      /\ FoundInv /\ HubIdsInv
  BY DEF HubInv, TypeOK, FilesInFull
<1>2. Read = Len(file) /\ DOMAIN file = 1 .. Len(file) /\ Len(file) \in Nat
  BY <1>1 DEF Read
<1>3. \A hub \in HubsOf(file) : InFull(file, hub) /\ Finished(hub)
  <2>1. \A hub : Finished(hub)
    BY <1>2 DEF Finished, Items
  <2> QED BY <1>1, <2>1 DEF FileInFull
<1>4. \A hub \in HubsOf(file) :
        /\ Says(file, hub, "platform_id") \subseteq DOMAIN mSensingHubNameIdMap
        /\ Counts(file, hub, "sensing_hub_id") \subseteq DOMAIN mSensingHubCommMap
  BY <1>1, <1>3 DEF FoundInv
<1>5. {mHubIds[i] : i \in DOMAIN mHubIds} = {Atoi(file[i].data) : i \in IdsRead}
  BY <1>1 DEF HubIdsInv
<1>6. ASSUME NEW hub \in HubsOf(file)
      PROVE  Counts(file, hub, "sensing_hub_id") =
               {Atoi(file[i].data) : i \in Keyed(file, hub, "sensing_hub_id")}
  <2>1. PICK id \in Items(file, hub), name \in Items(file, hub), type \in Items(file, hub),
             value \in Items(file, hub) : Description(file, hub, id, name, type, value)
    BY <1>3 DEF InFull
  <2>2. Counts(file, hub, "sensing_hub_id") = {Atoi(file[id].data)}
    BY <1>1, <2>1, OneIdOneName
  <2>3. Keyed(file, hub, "sensing_hub_id") = {id}
    BY <2>1 DEF Description
  <2> QED BY <2>2, <2>3
<1>7. \A i \in IdsRead : /\ file[i].hub \in HubsOf(file)
                         /\ i \in Keyed(file, file[i].hub, "sensing_hub_id")
  BY DEF IdsRead, HubsOf, Keyed, Items
<1>8. \A hub \in HubsOf(file) : Keyed(file, hub, "sensing_hub_id") \subseteq IdsRead
  BY <1>2 DEF IdsRead, Keyed, Items
<1>9. {Atoi(file[i].data) : i \in IdsRead} =
        UNION {Counts(file, hub, "sensing_hub_id") : hub \in HubsOf(file)}
  BY <1>6, <1>7, <1>8
<1>10. \A i \in DOMAIN mHubIds : mHubIds[i] \in DOMAIN mSensingHubCommMap
  BY <1>4, <1>5, <1>9
<1> QED BY <1>4, <1>5, <1>9, <1>10 DEF EveryHubFound

\* In files that describe their hubs in full no entry of the maps mixes two
\* hubs, whichever loads broke off before (qshJsonParser.cpp 68-85, 299-321).
THEOREM EntriesOfOneHub == FilesInFull /\ Spec => []OwnEntries
<1>1. HubInv => OwnEntries
  BY DEF HubInv
<1> QED BY <1>1, HubInit, HubStep, PTL DEF Spec

\* After such a file was read to its end, the list of hubs is the one of this
\* file, and each can be found by its name and has a way to reach it
\* (qshJsonParser.cpp 299-321, 534-576).
THEOREM HubsFound == FilesInFull /\ Spec => []EveryHubFound
<1> QED BY HubInit, HubStep, AllFound, PTL DEF Spec
=============================================================================
