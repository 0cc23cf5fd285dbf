---------------------------- MODULE JsonParser ----------------------------
(***************************************************************************)
(* utils/src/qshJsonParser.cpp: the parser of the file that describes the  *)
(* sensing hubs of a platform.  The members it collects the description of *)
(* a hub in live on from item to item, across the groups of a file, and    *)
(* what it found lives on from one loadFile to the next.                   *)
(*                                                                         *)
(* A file is the sequence of what stands in its groups, in the order of    *)
(* the text; groups in groups are flattened, since entering and leaving a  *)
(* group changes no state.  A string is a number or a name.                *)
(***************************************************************************)
EXTENDS Integers, Sequences

CONSTANTS Numbers,    \* the strings atoi reads as themselves
          Names,      \* the others, which atoi reads as 0
          Apps,       \* "apps"
          Empty,      \* the empty string
          NoData,     \* an item without a pair "data"
          DeviceSocId, \* what the device says, -1 when it cannot be read
          Files,      \* the files there are: sequences of Entry
          MaxLoads    \* bound: calls of loadFile

ASSUME StringsAssumption ==
    /\ Numbers \subseteq Int
    /\ {0, 1} \subseteq Numbers
    /\ {Apps, Empty} \subseteq Names
    /\ Names \cap Numbers = {}
    /\ DeviceSocId \in Int
    /\ NoData \notin Names \cup Numbers
ASSUME MaxLoadsAssumption == MaxLoads \in Nat

String == Numbers \cup Names
Keys == {"platform_id", "sensing_hub_id", "client_comm_type", "service_id",
         "link_name", "no_of_channels", "other"}

\* An item; the SoCs the file is for, in a well-formed "config" or in one
\* that parseConfig gives up on; a place where the file is malformed.
Entry ==
    [kind : {"item"}, hub : Nat, grp : {".client_comm", "other"}, key : Keys,
     data : String \cup {NoData}]
      \cup [kind : {"config", "badConfig"}, socIds : Seq(Int)]
      \cup [kind : {"malformed"}]

ASSUME FilesAssumption == Files \subseteq Seq(Entry)

VARIABLES p,               \* the members that describe the hub being read
          mHubIds,
          mJsonSocIdList,
          mSensingHubNameIdMap,
          mSensingHubCommMap,
          mSensingHubIdNameMap,
          mIsFileParsed,
          file,            \* the file being read, or read last
          rest,            \* what is left of it
          outcome,         \* of the last loadFile, or "reading"
          loads,           \* calls of loadFile so far
          opened           \* history: the files opened

mapVars == <<mSensingHubNameIdMap, mSensingHubCommMap, mSensingHubIdNameMap>>
vars == <<p, mHubIds, mJsonSocIdList, mapVars, mIsFileParsed, file, rest,
          outcome, loads, opened>>

Hub == [mSensingHubId : Int, mPlatformId : String, mClientCommType : String,
        mClientCommValue : Int, mReadCommAttr : BOOLEAN,
        mIsClientCommGrp : BOOLEAN, mSensingHubNameIdMapFilled : BOOLEAN,
        mCommMapFilled : BOOLEAN]

NoHub == [mSensingHubId |-> -1, mPlatformId |-> Empty, mClientCommType |-> Empty,
          mClientCommValue |-> -1, mReadCommAttr |-> FALSE,
          mIsClientCommGrp |-> FALSE, mSensingHubNameIdMapFilled |-> FALSE,
          mCommMapFilled |-> FALSE]

\* A map from K to V.
IsMap(m, K, V) == DOMAIN m \subseteq K /\ \A k \in DOMAIN m : m[k] \in V

EmptyMap == [k \in {} |-> 0]

\* The maps hold no mark of a member that is not set; a link that is named
\* before the id of its hub is under -1.
TypeOK ==
    /\ p \in Hub
    /\ mHubIds \in Seq(Int)
    /\ mJsonSocIdList \in Seq(Int)
    /\ IsMap(mSensingHubNameIdMap, String \ {Empty}, Int \ {-1})
    /\ IsMap(mSensingHubCommMap, Int \ {-1},
             [type : String \ {Empty}, value : Int \ {-1}])
    /\ IsMap(mSensingHubIdNameMap, Int, String \ {Apps})
    /\ mIsFileParsed \in BOOLEAN
    /\ file \in Seq(Entry)
    /\ rest \in Seq(Entry)
    /\ outcome \in {"none", "reading", "failed", "skipped", "abandoned", "read"}
    /\ loads \in 0..MaxLoads
    /\ opened \subseteq Files

Init ==
    /\ p = NoHub
    /\ mHubIds = <<>>
    /\ mJsonSocIdList = <<>>
    /\ mSensingHubNameIdMap = EmptyMap
    /\ mSensingHubCommMap = EmptyMap
    /\ mSensingHubIdNameMap = EmptyMap
    /\ mIsFileParsed = FALSE
    /\ file = <<>>
    /\ rest = <<>>
    /\ outcome = "none"
    /\ loads = 0
    /\ opened = {}

------------------------------------------------------------------------
(* updateSensingHubInfo                                                   *)

Atoi(s) == IF s \in Numbers THEN s ELSE 0

\* unordered_map::insert keeps an entry that is there; operator[] does not.
Insert(m, k, v) ==
    [x \in DOMAIN m \cup {k} |-> IF x \in DOMAIN m THEN m[x] ELSE v]
Put(m, k, v) == [x \in DOMAIN m \cup {k} |-> IF x = k THEN v ELSE m[x]]

\* The flag stays set when the group is left, until an item clears it.
Entered(h, grp) ==
    IF grp = ".client_comm" THEN [h EXCEPT !.mIsClientCommGrp = TRUE] ELSE h

NamesLink(h, key, s) == h.mIsClientCommGrp /\ key = "link_name" /\ s # Apps

\* An item of the group that says nothing by itself: the number of channels,
\* which may follow, is the one of the other end of the link.
OtherEnd(h, key, s) ==
    /\ h.mIsClientCommGrp
    /\ key \in {"no_of_channels", "other"}
    /\ s # Apps

QMI == 0
GLINK == 1

Assign(h, key, s) ==
    CASE key = "platform_id" -> [h EXCEPT !.mPlatformId = s]
      [] key = "sensing_hub_id" -> [h EXCEPT !.mSensingHubId = Atoi(s)]
      [] key = "client_comm_type" -> [h EXCEPT !.mClientCommType = s]
      [] key = "service_id" /\ h.mIsClientCommGrp ->
            [h EXCEPT !.mClientCommValue = IF h.mClientCommType = QMI THEN Atoi(s) ELSE @,
                      !.mIsClientCommGrp = FALSE]
      [] OtherEnd(h, key, s) ->
            [h EXCEPT !.mReadCommAttr = TRUE, !.mIsClientCommGrp = FALSE]
      [] key = "no_of_channels" /\ ~OtherEnd(h, key, s) /\ h.mReadCommAttr ->
            [h EXCEPT !.mClientCommValue = IF h.mClientCommType = GLINK THEN Atoi(s) ELSE @]
      [] OTHER -> h

\* Slip: the id is taken for enough.
NamedById(h) == h.mSensingHubId # -1

Named(h) == h.mSensingHubId # -1 /\ h.mPlatformId # Empty
Reachable(h) ==
    h.mSensingHubId # -1 /\ h.mClientCommType # Empty /\ h.mClientCommValue # -1

\* Both maps have their entry: the next hub can begin.
Forget(h) == [NoHub EXCEPT !.mIsClientCommGrp = h.mIsClientCommGrp]

UpdateSensingHubInfo(grp, key, s) ==
    LET h == Entered(p, grp)
        q == [Assign(h, key, s) EXCEPT
                !.mSensingHubNameIdMapFilled = @ \/ Named(Assign(h, key, s)),
                !.mCommMapFilled = @ \/ Reachable(Assign(h, key, s))]
    IN  /\ p' = IF q.mSensingHubNameIdMapFilled /\ q.mCommMapFilled THEN Forget(q) ELSE q
        /\ mHubIds' = IF key = "sensing_hub_id" THEN Append(mHubIds, Atoi(s)) ELSE mHubIds
        /\ mSensingHubIdNameMap' =
              IF NamesLink(h, key, s)
              THEN Put(mSensingHubIdNameMap, h.mSensingHubId, s)
              ELSE mSensingHubIdNameMap
        /\ mSensingHubNameIdMap' =
              IF Named(q)
              THEN Insert(mSensingHubNameIdMap, q.mPlatformId, q.mSensingHubId)
              ELSE mSensingHubNameIdMap
        /\ mSensingHubCommMap' =
              IF Reachable(q)
              THEN Insert(mSensingHubCommMap, q.mSensingHubId,
                          [type |-> q.mClientCommType, value |-> q.mClientCommValue])
              ELSE mSensingHubCommMap

------------------------------------------------------------------------
(* loadFile and parseFile                                                 *)

\* Slip: the list of hubs of the last file is kept.
ResetAllButHubs ==
    /\ p' = NoHub
    /\ mJsonSocIdList' = <<>>
    /\ UNCHANGED mHubIds

\* Slip: what an interrupted load has begun to collect is kept.
ResetLists ==
    /\ mHubIds' = <<>>
    /\ mJsonSocIdList' = <<>>
    /\ UNCHANGED p

\* The maps and mIsFileParsed are kept.
ResetParserState ==
    /\ p' = NoHub
    /\ mHubIds' = <<>>
    /\ mJsonSocIdList' = <<>>

LoadFile(f) ==
    /\ outcome # "reading"
    /\ loads < MaxLoads
    /\ loads' = loads + 1
    /\ ResetParserState
    /\ \/ outcome' = "reading" /\ file' = f /\ rest' = f /\ opened' = opened \cup {f}
       \/ outcome' = "failed" /\ UNCHANGED <<file, rest, opened>>
    /\ UNCHANGED <<mapVars, mIsFileParsed>>

At(kind) == outcome = "reading" /\ rest # <<>> /\ Head(rest).kind = kind

\* The buffer for the value of an item without data is not initialised.
ParseItem ==
    /\ At("item")
    /\ \E s \in IF Head(rest).data = NoData THEN String ELSE {Head(rest).data} :
          UpdateSensingHubInfo(Head(rest).grp, Head(rest).key, s)
    /\ rest' = Tail(rest)
    /\ UNCHANGED <<mJsonSocIdList, mIsFileParsed, file, outcome, loads, opened>>

\* parseFile returns 0 with so much of the file read.
Succeed(how) ==
    /\ outcome' = how
    /\ mIsFileParsed' = TRUE
    /\ UNCHANGED <<p, mHubIds, mapVars, file, rest, loads, opened>>

SocIds == mJsonSocIdList \o Head(rest).socIds
\* A device whose SoC could not be read, -1, is in no list.
ForThisDevice(ids) ==
    \/ ids = <<>>
    \/ DeviceSocId # -1 /\ \E i \in DOMAIN ids : ids[i] = DeviceSocId

ParseConfig ==
    /\ At("config")
    /\ mJsonSocIdList' = SocIds
    /\ IF ForThisDevice(SocIds)
       THEN /\ rest' = Tail(rest)
            /\ UNCHANGED <<p, mHubIds, mapVars, mIsFileParsed, file, outcome,
                           loads, opened>>
       ELSE Succeed("skipped")

\* parseConfig returns -1, and its caller tests for 0: it steps one character
\* back, finds no comma there, and ends as if the file were complete.
ParseBadConfig ==
    /\ At("badConfig")
    /\ mJsonSocIdList' = SocIds
    /\ Succeed(IF ForThisDevice(SocIds) THEN "abandoned" ELSE "skipped")

ParseMalformed ==
    /\ At("malformed")
    /\ outcome' = "failed"
    /\ UNCHANGED <<p, mHubIds, mJsonSocIdList, mapVars, mIsFileParsed, file, rest,
                   loads, opened>>

ParseEnd ==
    /\ outcome = "reading"
    /\ rest = <<>>
    /\ Succeed("read")
    /\ UNCHANGED mJsonSocIdList

Done == loads = MaxLoads /\ outcome # "reading" /\ UNCHANGED vars

Next ==
    \/ \E f \in Files : LoadFile(f)
    \/ ParseItem
    \/ ParseConfig
    \/ ParseBadConfig
    \/ ParseMalformed
    \/ ParseEnd
    \/ Done

Spec == Init /\ [][Next]_vars

------------------------------------------------------------------------
(* Properties                                                              *)

Items(f, hub) == {i \in DOMAIN f : f[i].kind = "item" /\ f[i].hub = hub}
HubsOf(f) == {f[i].hub : i \in {j \in DOMAIN f : f[j].kind = "item"}}
Keyed(f, hub, key) == {i \in Items(f, hub) : f[i].key = key}

\* What a file says of a hub for a key, an item without data anything.
Says(f, hub, key) ==
    {s \in String : \E i \in Keyed(f, hub, key) : f[i].data \in {s, NoData}}
Counts(f, hub, key) == {Atoi(s) : s \in Says(f, hub, key)}

\* An entry of a map is what one hub of one file says: nothing of one hub is
\* put together with something of another, whichever loads broke off before,
\* and a link that is named before the id of its hub is known is not given
\* to the hub before (qshJsonParser.cpp 68-85, 240-321).
OwnEntries ==
    /\ \A name \in DOMAIN mSensingHubNameIdMap :
          \E f \in opened : \E hub \in HubsOf(f) :
             /\ name \in Says(f, hub, "platform_id")
             /\ mSensingHubNameIdMap[name] \in Counts(f, hub, "sensing_hub_id")
    /\ \A id \in DOMAIN mSensingHubCommMap :
          \E f \in opened : \E hub \in HubsOf(f) :
             /\ id \in Counts(f, hub, "sensing_hub_id")
             /\ mSensingHubCommMap[id].type \in Says(f, hub, "client_comm_type")
             /\ mSensingHubCommMap[id].value \in Counts(f, hub, "service_id")
                                                 \cup Counts(f, hub, "no_of_channels")
    /\ \A id \in DOMAIN mSensingHubIdNameMap :
          \E f \in opened : \E hub \in HubsOf(f) :
             /\ mSensingHubIdNameMap[id] \in Says(f, hub, "link_name")
             /\ id \in Counts(f, hub, "sensing_hub_id") \cup {-1}

\* After a file was read to its end the list of hubs is the one of this
\* file, and each can be found by its name and has a way to reach it
\* (qshJsonParser.cpp 299-321, 534-576).
EveryHubFound ==
    outcome = "read" =>
        /\ {mHubIds[i] : i \in DOMAIN mHubIds} =
              UNION {Counts(file, hub, "sensing_hub_id") : hub \in HubsOf(file)}
        /\ \A i \in DOMAIN mHubIds : mHubIds[i] \in DOMAIN mSensingHubCommMap
        /\ \A hub \in HubsOf(file) :
              Says(file, hub, "platform_id") \subseteq DOMAIN mSensingHubNameIdMap

------------------------------------------------------------------------
(* The files OwnEntries and EveryHubFound are about.  A parser that knows   *)
(* of no groups can tell two hubs apart only if the first is described to   *)
(* its end when the second begins.                                         *)

\* Over QMI: the service is the one item of its kind, in the group of the
\* link, which it ends.
OverService(f, hub, type, value) ==
    /\ f[type].data = QMI
    /\ Keyed(f, hub, "service_id") = {value}
    /\ f[value].grp = ".client_comm"
    /\ \A i \in Items(f, hub) : f[i].grp = ".client_comm" => i <= value

\* Over GLINK: the channels are those after the other end of the link, which
\* is the first and ends the group; the channels of this end say so.
OverChannels(f, hub, type, value, end) ==
    /\ f[type].data = GLINK
    /\ f[value].key = "no_of_channels" /\ end < value
    /\ f[end].key = "other" /\ f[end].grp = ".client_comm"
    /\ f[end].data \notin {Apps, NoData}
    /\ \A i \in Items(f, hub) : f[i].grp = ".client_comm" => i <= end
    /\ \A i \in Keyed(f, hub, "no_of_channels") \ {value} : i < end /\ f[i].data = Apps
    /\ \A i \in Keyed(f, hub, "other") :
          i < end => \/ f[i].data = Apps
                     \/ \A k \in Items(f, hub) : f[k].grp = ".client_comm" => i < k

\* The four items a hub has to have, each once, the last of which is the last
\* of the hub.
Description(f, hub, id, name, type, value) ==
    /\ Keyed(f, hub, "sensing_hub_id") = {id}
    /\ Keyed(f, hub, "platform_id") = {name}
    /\ Keyed(f, hub, "client_comm_type") = {type}
    /\ f[id].data # NoData /\ Atoi(f[id].data) # -1
    /\ f[name].data \notin {NoData, Empty}
    /\ f[value].data # NoData /\ Atoi(f[value].data) # -1
    /\ type < value
    /\ \A i \in Items(f, hub) : i <= id \/ i <= name \/ i <= value
    /\ \/ OverService(f, hub, type, value)
       \/ \E end \in Items(f, hub) : OverChannels(f, hub, type, value, end)

InFull(f, hub) ==
    \E id, name, type, value \in Items(f, hub) : Description(f, hub, id, name, type, value)

WellFormed(f) == \A i \in DOMAIN f : f[i].kind \in {"item", "config"}

\* One hub after the other; one that another follows is described in full,
\* and in a file that can be read to its end every one.
FileInFull(f) ==
    /\ \A hub \in HubsOf(f) : \A i, k \in Items(f, hub) : \A j \in DOMAIN f :
          f[j].kind = "item" /\ i < j /\ j < k => f[j].hub = hub
    /\ \A hub, other \in HubsOf(f) :
          hub # other /\ (\E i \in Items(f, hub), j \in Items(f, other) : i < j)
             => InFull(f, hub)
    /\ WellFormed(f) => \A hub \in HubsOf(f) : InFull(f, hub)

FilesInFull == \A f \in Files : FileInFull(f)
=============================================================================
