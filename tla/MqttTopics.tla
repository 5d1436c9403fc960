----------------------------- MODULE MqttTopics -----------------------------
(***************************************************************************)
(* What etc/wave.json becomes, and what is made of it: the topic an MQTT   *)
(* message is published on, the type an inbound message gets, and the PSID *)
(* an outbound one is packed with.                                         *)
(*                                                                         *)
(* The file is read twice.  handle_on_configure reads it into the node's   *)
(* wave_cfg_items_, which it appends to, every time.  Each client reads it *)
(* into its tables wave_cfg_dsrc_msg_ids_ and wave_cfg_psids_ when the     *)
(* first inbound message reaches IsValidMsgID() with the path known, on    *)
(* its loop (or io) thread, one entry of one table after the other;        *)
(* sendV2xMessage reads them on the executor.  A table is what has been    *)
(* pushed to it, so its length says all.  A PSID is the number that its    *)
(* text is in base 16; the prefix of a topic is left out.                  *)
(***************************************************************************)
EXTENDS Integers, Sequences

CONSTANTS
    WaveFile,   \* the entries of wave.json in order: [name, id, psid]
    Overrides,  \* kEttifosPsidOverrides as written: [psid, topic]
    Ids         \* DSRCmsgIDs of the messages that are sent and received

\* An entry of the file, with the texts of its id and PSID as numbers; its
\* priority and channel are left out.
Number == 0 .. 65535
Entry == [name : STRING, id : Number, psid : Number]

ASSUME TablesAssumption ==
    /\ WaveFile \in Seq(Entry)
    /\ Ids \subseteq Number

VARIABLES
    configured,             \* how far handle_on_configure is with the client
    wave_cfg_items,         \* wave_cfg_items_
    loader,                 \* the entry the loop thread is to push, 0 if none
    wave_cfg_dsrc_msg_ids,  \* wave_cfg_dsrc_msg_ids_
    wave_cfg_psids,         \* wave_cfg_psids_
    published,              \* the message published last and its topic
    received,               \* the last message to the handler and its type
    beyond,                 \* a read past the end of wave_cfg_psids_ happened
    kEttifosPsidOverrides   \* the map built from Overrides

tables == <<wave_cfg_dsrc_msg_ids, wave_cfg_psids>>
nodeVars == <<configured, wave_cfg_items, received>>
outVars == <<published, beyond, kEttifosPsidOverrides>>
vars == <<nodeVars, loader, tables, outVars>>

Nothing == [id |-> -1, topic |-> -1]
NoneReceived == [id |-> -1, type |-> "Unknown"]
Size == Len(WaveFile)

\* createRadioClient(), loadWaveConfig(), set_wave_file_path() and the slot on
\* onMessageReceived, in this order.
Steps == {"client", "list", "path", "slot"}
wave_file_path == configured \in {"path", "slot"}
OverrideSet == {Overrides[k] : k \in 1 .. Len(Overrides)}

\* A map holds one of the entries written with the same key; the standard does
\* not say which.
BuiltFrom(written, map) ==
    /\ \A o \in written : \E p \in map : p.psid = o.psid
    /\ \A o, p \in map : o.psid = p.psid => o = p

Init ==
    /\ configured = "client"
    /\ wave_cfg_items = <<>>
    /\ received = NoneReceived
    /\ loader = 0
    /\ wave_cfg_dsrc_msg_ids = <<>>
    /\ wave_cfg_psids = <<>>
    /\ published = Nothing
    /\ beyond = FALSE
    /\ kEttifosPsidOverrides \in {m \in SUBSET OverrideSet : BuiltFrom(OverrideSet, m)}

-----------------------------------------------------------------------------
(* handle_on_configure, on the executor *)

ConfigureMove(from, to) == configured = from /\ configured' = to

\* Node::loadWaveConfig(): the file is read and appended to what there is, or
\* is not there or not valid.
LoadWaveConfig ==
    /\ ConfigureMove("client", "list")
    /\ \/ wave_cfg_items' = wave_cfg_items \o WaveFile
       \/ UNCHANGED wave_cfg_items
    /\ UNCHANGED <<received, loader, tables, outVars>>

\* The tables may be needed before this.
SetWaveFilePath ==
    /\ ConfigureMove("list", "path")
    /\ UNCHANGED <<wave_cfg_items, received, loader, tables, outVars>>

ConnectSlot ==
    /\ ConfigureMove("path", "slot")
    /\ UNCHANGED <<wave_cfg_items, received, loader, tables, outVars>>

\* Configured again: the loop thread has been joined, and the next client is a
\* new one.  The node's list is the old one.  Bounded by the list's length.
Reconfigure ==
    /\ ConfigureMove("slot", "client")
    /\ loader = 0
    /\ Len(wave_cfg_items) <= Size
    /\ wave_cfg_dsrc_msg_ids' = <<>>
    /\ wave_cfg_psids' = <<>>
    /\ received' = NoneReceived
    /\ UNCHANGED <<wave_cfg_items, loader, outVars>>

ConfigureStep == LoadWaveConfig \/ SetWaveFilePath \/ ConnectSlot \/ Reconfigure

-----------------------------------------------------------------------------
(* The loop thread: IsValidMsgID() *)

\* Mutant: the tables are loaded anew by every inbound message.
InboundAlways ==
    /\ loader = 0
    /\ wave_file_path
    /\ loader' = 1
    /\ UNCHANGED <<nodeVars, tables, outVars>>

\* An inbound message; the tables are loaded if the first is empty.  (Then
\* isPossiblePSID(), which comes after it, never finds the second one empty.)
Inbound ==
    /\ loader = 0
    /\ wave_file_path
    /\ wave_cfg_dsrc_msg_ids = <<>>
    /\ loader' = 1
    /\ UNCHANGED <<nodeVars, tables, outVars>>

\* The file is not there or is not valid: the next message tries again.
LoadFails ==
    /\ loader = 1
    /\ wave_cfg_dsrc_msg_ids = <<>>
    /\ loader' = 0
    /\ UNCHANGED <<nodeVars, tables, outVars>>

\* loadWaveConfigIds(): an entry's id, then its PSID, to the end of the file.
PushId ==
    /\ loader \in 1 .. Size
    /\ Len(wave_cfg_dsrc_msg_ids) = Len(wave_cfg_psids)
    /\ wave_cfg_dsrc_msg_ids' = Append(wave_cfg_dsrc_msg_ids, WaveFile[loader].id)
    /\ UNCHANGED <<nodeVars, loader, wave_cfg_psids, outVars>>

PushPsid ==
    /\ Len(wave_cfg_dsrc_msg_ids) > Len(wave_cfg_psids)
    /\ wave_cfg_psids' = Append(wave_cfg_psids, WaveFile[loader].psid)
    /\ loader' = loader + 1
    /\ UNCHANGED <<nodeVars, wave_cfg_dsrc_msg_ids, outVars>>

LoadEnds ==
    /\ loader = Size + 1
    /\ loader' = 0
    /\ UNCHANGED <<nodeVars, tables, outVars>>

\* The first place where a table holds x, or 0.
Place(x, table) ==
    LET found == {k \in 1 .. Len(table) : table[k] = x}
    IN  IF found = {} THEN 0 ELSE CHOOSE k \in found : \A l \in found : k <= l

\* Mutant: the entry is looked up by its PSID.
TypeByPsid(id, items) ==
    LET k == Place(id, [n \in DOMAIN items |-> items[n].psid])
    IN  IF k = 0 THEN "Unknown" ELSE items[k].name

\* The name of the first entry with the id, if there is one.
TypeOf(id, items) ==
    LET k == Place(id, [n \in DOMAIN items |-> items[n].id])
    IN  IF k = 0 THEN "Unknown" ELSE items[k].name

\* process() finds a message of a known id, and the slot is connected:
\* onMessageReceivedHandler() publishes it with its type.
Receive(id) ==
    /\ configured = "slot"
    /\ loader = 0
    /\ Place(id, wave_cfg_dsrc_msg_ids) # 0
    /\ received' = [id |-> id, type |-> TypeOf(id, wave_cfg_items)]
    /\ UNCHANGED <<configured, wave_cfg_items, loader, tables, outVars>>

-----------------------------------------------------------------------------
(* The executor: sendV2xMessage() and packMessage() *)

\* std::stoi(s, nullptr, 16) on the decimal digits of n.
DecimalAsHex(n) ==
    LET Digit(p) == (n \div p) % 10
    IN  Digit(1) + 16 * Digit(10) + 256 * Digit(100) + 4096 * Digit(1000)
          + 65536 * Digit(10000)

\* packMessage(): the PSID of the first entry with the type's name, or else the
\* decimal text of the id that the message begins with.
PackedPsid(type, id) ==
    LET k == Place(type, [n \in DOMAIN wave_cfg_items |-> wave_cfg_items[n].name])
    IN  IF k = 0 THEN DecimalAsHex(id) ELSE wave_cfg_items[k].psid

\* Mutant: the PSID is published as it is, without the overrides.
TopicPlain(psid) == psid

\* buildPublishTopic() on a text of four digits, as all keys and the PSIDs in
\* the file have.
Topic(psid) ==
    IF \E o \in kEttifosPsidOverrides : o.psid = psid
      THEN (CHOOSE o \in kEttifosPsidOverrides : o.psid = psid).topic
      ELSE psid

\* buildPublishTopic() on the decimal text of an id.
RawTopic(id) ==
    IF id \in 1000 .. 9999 THEN Topic(DecimalAsHex(id)) ELSE DecimalAsHex(id)

Publish(id, topic) ==
    /\ published' = [id |-> id, topic |-> topic]
    /\ UNCHANGED <<nodeVars, loader, tables, beyond, kEttifosPsidOverrides>>

\* An id that is not in the table is itself taken for the text of a PSID.
PublishRaw(id) ==
    /\ Place(id, wave_cfg_dsrc_msg_ids) = 0
    /\ Publish(id, RawTopic(id))

PublishKnown(id) ==
    LET k == Place(id, wave_cfg_dsrc_msg_ids)
    IN  /\ k \in 1 .. Len(wave_cfg_psids)
        /\ Publish(id, Topic(wave_cfg_psids[k]))

\* The id is in its table, its PSID is not yet: the read is past the end.
PublishBeyond(id) ==
    /\ Place(id, wave_cfg_dsrc_msg_ids) > Len(wave_cfg_psids)
    /\ beyond' = TRUE
    /\ UNCHANGED <<nodeVars, loader, tables, published, kEttifosPsidOverrides>>

SendV2xMessage(id) == PublishRaw(id) \/ PublishKnown(id) \/ PublishBeyond(id)

Next ==
    \/ /\ ~beyond
       /\ \/ ConfigureStep
          \/ Inbound \/ LoadFails \/ PushId \/ PushPsid \/ LoadEnds
          \/ \E id \in Ids : SendV2xMessage(id) \/ Receive(id)
    \/ beyond /\ UNCHANGED vars

Spec == Init /\ [][Next]_vars

-----------------------------------------------------------------------------
(* Properties *)

\* A client's tables are loaded once, in the order of the file, and an id's PSID is
\* at the id's place, however often loading failed or was asked for.
TablesFollowFile ==
    /\ Len(wave_cfg_dsrc_msg_ids) <= Size
    /\ Len(wave_cfg_dsrc_msg_ids) - Len(wave_cfg_psids) \in {0, 1}
    /\ \A k \in 1 .. Len(wave_cfg_dsrc_msg_ids) : wave_cfg_dsrc_msg_ids[k] = WaveFile[k].id
    /\ \A k \in 1 .. Len(wave_cfg_psids) : wave_cfg_psids[k] = WaveFile[k].psid

\* The PSID of an id, and the topic its messages ought to have.
FileIds == [k \in 1 .. Size |-> WaveFile[k].id]
PsidOf(id) == WaveFile[Place(id, FileIds)].psid
OverridesOf(id) == {o \in OverrideSet : o.psid = PsidOf(id)}
RightTopic(id) ==
    IF OverridesOf(id) = {} THEN PsidOf(id) ELSE (CHOOSE o \in OverridesOf(id) : TRUE).topic

\* Entries of one name have one PSID, so that packMessage()'s look-up by name
\* finds the PSID of any of them.
NamesAgree ==
    \A k, l \in 1 .. Size :
        WaveFile[k].name = WaveFile[l].name => WaveFile[k].psid = WaveFile[l].psid

\* A message that is sent on with the type it was received with is packed with
\* the PSID that the file gives its id, if the node has the list: the handler's
\* look-up by id and packMessage()'s by name meet in the same entry, however
\* often the list was appended to itself and whenever the client read the file.
InboundTypeIsRight ==
    received # NoneReceived /\ wave_cfg_items # <<>>
        => PackedPsid(received.type, received.id) = PsidOf(received.id)

\* The id is in the file, and its PSID has at most one override.
Determined(id) ==
    /\ Place(id, FileIds) # 0
    /\ \A o, p \in OverridesOf(id) : o = p

\* Once its entry is in both tables a message is published on the topic of its
\* PSID, although the rest of the tables may still be loading.
LoadedTopicIsRight ==
    [][\A id \in Ids :
          /\ Place(id, wave_cfg_dsrc_msg_ids) \in 1 .. Len(wave_cfg_psids)
          /\ Determined(id)
          /\ published' # published
          /\ published'.id = id
          => published'.topic = RightTopic(id)]_vars

\* mqtt_radio_client.h:80-81 says that the message's id "is used to look up
\* the correct PSID and build the MQTT topic".  Then every message has the
\* topic of its PSID, once the file is known.
TopicIsRight ==
    [][\A id \in Ids :
          /\ wave_file_path
          /\ Determined(id)
          /\ published' # published
          /\ published'.id = id
          => published'.topic = RightTopic(id)]_vars

\* The comments of kEttifosPsidOverrides (mqtt_radio_client.cpp:283-284) give
\* MAP (id 18) the topic 2113687 and SPAT (id 19) the topic 130.
MapAndSpatTopics ==
    [][Place(published'.id, wave_cfg_dsrc_msg_ids) # 0 =>
          /\ published'.id = 18 => published'.topic = 2113687
          /\ published'.id = 19 => published'.topic = 130]_published

\* base_radio_client.h:125 says that psidForDsrcMsgId returns "PSID hex string,
\* or empty string if not found".  Then it never reads past its table.
LookupStaysInTable == ~beyond
=============================================================================
