--------------------------- MODULE JsonParserMC ---------------------------
(* Files with up to two hubs, whole and broken, for TLC. *)
EXTENDS JsonParser

CONSTANTS apps, empty, adsp, wpss, adspLink, wpssLink

SomeNames == {apps, empty, adsp, wpss, adspLink, wpssLink}

Item(hub, key, data) ==
    [kind |-> "item", hub |-> hub, grp |-> "other", key |-> key, data |-> data]
Comm(hub, key, data) ==
    [kind |-> "item", hub |-> hub, grp |-> ".client_comm", key |-> key, data |-> data]
Config(ids) == [kind |-> "config", socIds |-> ids]
BadConfig(ids) == [kind |-> "badConfig", socIds |-> ids]
Malformed == [kind |-> "malformed"]

\* A hub that is reached over QMI; its group of the link stands last or first.
OverQmi(hub, id, name, service) ==
    <<Item(hub, "sensing_hub_id", id), Item(hub, "platform_id", name),
      Comm(hub, "client_comm_type", 0), Comm(hub, "link_name", adspLink),
      Comm(hub, "service_id", service)>>
OverQmiFirst(hub, id, name, service) ==
    <<Comm(hub, "client_comm_type", 0), Comm(hub, "link_name", adspLink),
      Comm(hub, "service_id", service),
      Item(hub, "platform_id", name), Item(hub, "sensing_hub_id", id)>>

\* A hub that is reached over GLINK, with the two ends of the link.
OverGlink(hub, id, name, channels) ==
    <<Item(hub, "other", NoData), Item(hub, "platform_id", name),
      Item(hub, "sensing_hub_id", id), Comm(hub, "client_comm_type", 1),
      Comm(hub, "link_name", apps), Item(hub, "no_of_channels", apps),
      Comm(hub, "link_name", wpssLink), Comm(hub, "other", empty),
      Item(hub, "no_of_channels", channels)>>

Qmi == OverQmi(1, 2, adsp, 7)
QmiFirst == OverQmiFirst(1, 2, adsp, 8)
Glink == OverGlink(2, 3, wpss, 4)

SomeFiles ==
    {Qmi \o Glink, Glink \o QmiFirst, QmiFirst \o Glink}
        \cup {<<Config(ids)>> \o Qmi : ids \in {<<>>, <<5, 6>>, <<5>>}}
        \cup {<<BadConfig(ids)>> \o Qmi : ids \in {<<>>, <<5>>}}
        \cup {SubSeq(Qmi, 1, n) \o <<Malformed>> : n \in {1, 2, 4}}
        \cup {SubSeq(Glink, 1, n) \o <<Malformed>> : n \in {2, 8}}
        \cup {<<Item(1, "sensing_hub_id", NoData), Malformed>>}

\* The hypothesis of the theorems about whole hubs holds of these files.
ASSUME FilesInFullAssumption == FilesInFull
=============================================================================
