-------------------------- MODULE MqttTopics_proofs --------------------------
(***************************************************************************)
(* Proofs about MqttTopics, for every wave.json, every table of overrides  *)
(* and every way the map may be built from it: the client's tables keep in *)
(* step with the file, and a message whose entry is loaded is published on *)
(* the topic of its PSID.                                                  *)
(*                                                                         *)
(* The inductive invariant IInv ties the lengths of the two tables to the  *)
(* place of the loader in the file.                                        *)
(***************************************************************************)
EXTENDS MqttTopics, WellFoundedInduction, TLAPS

USE TablesAssumption

\* Where the loader is, and how much of each table is there.
LoaderInv ==
    /\ wave_cfg_dsrc_msg_ids \in Seq(Number)
    /\ wave_cfg_psids \in Seq(Number)
    /\ loader \in 0 .. Size + 1
    /\ loader = 0 => /\ Len(wave_cfg_dsrc_msg_ids) = Len(wave_cfg_psids)
                     /\ Len(wave_cfg_psids) \in {0, Size}
    /\ loader # 0 => /\ Len(wave_cfg_psids) = loader - 1
                     /\ Len(wave_cfg_dsrc_msg_ids) \in {loader - 1, loader}

\* The map has one of the entries for each of its keys.
MapInv ==
    /\ kEttifosPsidOverrides \subseteq OverrideSet
    /\ BuiltFrom(OverrideSet, kEttifosPsidOverrides)

IInv == LoaderInv /\ TablesFollowFile /\ MapInv

-----------------------------------------------------------------------------
(* Look-ups *)

\* A set of numbers that is not empty has a least one.
LEMMA Least ==
    ASSUME NEW T, T \subseteq Nat, T # {}
    PROVE  \E k \in T : \A l \in T : k <= l
<1> DEFINE R == OpToRel(<, Nat)
<1>1. IsWellFoundedOn(R, Nat)
  BY NatLessThanWellFounded
<1>2. R = {ss \in Nat \X Nat : ss[1] < ss[2]}
  BY DEF OpToRel
<1> HIDE DEF R
<1>3. \E k \in T : \A l \in T : ~ (<<l, k>> \in R)
  BY <1>1, WFMin
<1>4. PICK k \in T : \A l \in T : ~ (<<l, k>> \in R)
  BY <1>3
<1>5. ASSUME NEW l \in T PROVE k <= l
  <2>1. k \in Nat /\ l \in Nat
    OBVIOUS
  <2>2. ~ (<<l, k>> \in {ss \in Nat \X Nat : ss[1] < ss[2]})
    BY <1>2, <1>4
  <2> QED  BY <2>1, <2>2
<1> QED  BY <1>5

\* What an entry of the file holds.
LEMMA EntryFields ==
    ASSUME NEW k \in 1 .. Size
    PROVE  WaveFile[k].id \in Number /\ WaveFile[k].psid \in Number
<1>1. WaveFile[k] \in Entry
  BY DEF Size
<1> QED  BY <1>1 DEF Entry

\* What a look-up finds: the first place that holds x.
LEMMA FirstPlace ==
    ASSUME NEW S, NEW table \in Seq(S), NEW x
    PROVE  /\ Place(x, table) \in 0 .. Len(table)
           /\ Place(x, table) = 0 => \A l \in 1 .. Len(table) : table[l] # x
           /\ Place(x, table) # 0
                => /\ table[Place(x, table)] = x
                   /\ \A l \in 1 .. Len(table) : table[l] = x => Place(x, table) <= l
<1> DEFINE found == {k \in 1 .. Len(table) : table[k] = x}
<1>1. CASE found = {}
  BY <1>1 DEF Place
<1>2. CASE found # {}
  <2>1. \E k \in found : \A l \in found : k <= l
    <3>1. found \subseteq Nat
      OBVIOUS
    <3> HIDE DEF found
    <3> QED  BY <1>2, <3>1, Least
  <2>2. Place(x, table) = CHOOSE k \in found : \A l \in found : k <= l
    BY <1>2 DEF Place
  <2>3. Place(x, table) \in found /\ \A l \in found : Place(x, table) <= l
    BY <2>1, <2>2
  <2> QED  BY <2>3
<1> QED  BY <1>1, <1>2

\* An id that is in the table already is at its place in the file.
LEMMA PlaceInFile ==
    ASSUME IInv, NEW id, Place(id, wave_cfg_dsrc_msg_ids) # 0
    PROVE  Place(id, FileIds) = Place(id, wave_cfg_dsrc_msg_ids)
<1> DEFINE k == Place(id, wave_cfg_dsrc_msg_ids)
           f == Place(id, FileIds)
<1>1. /\ wave_cfg_dsrc_msg_ids \in Seq(Number)
      /\ Len(wave_cfg_dsrc_msg_ids) <= Size
      /\ \A l \in 1 .. Len(wave_cfg_dsrc_msg_ids) : wave_cfg_dsrc_msg_ids[l] = WaveFile[l].id
  BY DEF IInv, LoaderInv, TablesFollowFile
<1>2. /\ FileIds \in Seq(Number) /\ Len(FileIds) = Size
      /\ \A l \in 1 .. Size : FileIds[l] = WaveFile[l].id
  BY EntryFields DEF FileIds, Size
<1>3. /\ k \in 1 .. Len(wave_cfg_dsrc_msg_ids) /\ wave_cfg_dsrc_msg_ids[k] = id
      /\ \A l \in 1 .. Len(wave_cfg_dsrc_msg_ids) : wave_cfg_dsrc_msg_ids[l] = id => k <= l
  BY <1>1, FirstPlace
<1>4. FileIds[k] = id /\ k \in 1 .. Size
  BY <1>1, <1>2, <1>3 DEF Size
<1>5. f \in 1 .. Size /\ FileIds[f] = id /\ f <= k
  BY <1>2, <1>4, FirstPlace
<1>6. wave_cfg_dsrc_msg_ids[f] = id /\ f \in 1 .. Len(wave_cfg_dsrc_msg_ids)
  BY <1>1, <1>2, <1>3, <1>5
<1> QED  BY <1>3, <1>5, <1>6

\* Whichever entries the map holds, a PSID with at most one override gets it.
LEMMA TopicOfDetermined ==
    ASSUME MapInv, NEW id, Determined(id)
    PROVE  Topic(PsidOf(id)) = RightTopic(id)
<1>1. CASE OverridesOf(id) = {}
  <2>1. ~ \E o \in kEttifosPsidOverrides : o.psid = PsidOf(id)
    BY <1>1 DEF MapInv, OverridesOf
  <2> QED  BY <1>1, <2>1 DEF Topic, RightTopic
<1>2. CASE OverridesOf(id) # {}
  <2>1. PICK o \in OverridesOf(id) : \A p \in OverridesOf(id) : p = o
    BY <1>2 DEF Determined
  <2>2. (CHOOSE p \in OverridesOf(id) : TRUE) = o
    BY <2>1
  <2>3. \E p \in kEttifosPsidOverrides : p.psid = PsidOf(id)
    BY <2>1 DEF MapInv, BuiltFrom, OverridesOf
  <2>4. (CHOOSE p \in kEttifosPsidOverrides : p.psid = PsidOf(id)) = o
    BY <2>1, <2>3 DEF MapInv, OverridesOf
  <2> QED  BY <1>2, <2>2, <2>3, <2>4 DEF Topic, RightTopic
<1> QED  BY <1>1, <1>2

-----------------------------------------------------------------------------
(* The invariant *)

\* A new client has empty tables.
LEMMA InitIInv == Init => IInv
<1> SUFFICES ASSUME Init PROVE IInv
  OBVIOUS
<1>1. Size \in Nat
  BY DEF Size
<1>2. LoaderInv
  BY <1>1 DEF Init, LoaderInv
<1>3. TablesFollowFile
  BY <1>1 DEF Init, TablesFollowFile
<1>4. MapInv
  BY DEF Init, MapInv
<1> QED  BY <1>2, <1>3, <1>4 DEF IInv

\* Pushing an entry's id.
LEMMA PushIdKeeps == ASSUME IInv, PushId PROVE LoaderInv' /\ TablesFollowFile'
<1>1. /\ loader \in 1 .. Size /\ Size \in Nat
      /\ Len(wave_cfg_dsrc_msg_ids) = loader - 1 /\ Len(wave_cfg_psids) = loader - 1
      /\ UNCHANGED <<loader, wave_cfg_psids>>
  BY DEF IInv, LoaderInv, PushId, Size
<1>2. WaveFile[loader].id \in Number
  BY <1>1, EntryFields
<1>3. /\ wave_cfg_dsrc_msg_ids \in Seq(Number)
      /\ wave_cfg_dsrc_msg_ids' = Append(wave_cfg_dsrc_msg_ids, WaveFile[loader].id)
  BY DEF IInv, LoaderInv, PushId
<1>4. /\ wave_cfg_dsrc_msg_ids' \in Seq(Number)
      /\ Len(wave_cfg_dsrc_msg_ids') = loader
      /\ \A k \in 1 .. loader - 1 : wave_cfg_dsrc_msg_ids'[k] = wave_cfg_dsrc_msg_ids[k]
      /\ wave_cfg_dsrc_msg_ids'[loader] = WaveFile[loader].id
  BY <1>1, <1>2, <1>3
<1>5. LoaderInv'
  BY <1>1, <1>4 DEF IInv, LoaderInv, Size
<1>6. TablesFollowFile'
  <2>1. Len(wave_cfg_dsrc_msg_ids') <= Size
        /\ Len(wave_cfg_dsrc_msg_ids') - Len(wave_cfg_psids') \in {0, 1}
    BY <1>1, <1>4
  <2>2. \A k \in 1 .. Len(wave_cfg_dsrc_msg_ids') :
           wave_cfg_dsrc_msg_ids'[k] = WaveFile[k].id
    BY <1>1, <1>4 DEF IInv, TablesFollowFile
  <2>3. \A k \in 1 .. Len(wave_cfg_psids') : wave_cfg_psids'[k] = WaveFile[k].psid
    BY <1>1 DEF IInv, TablesFollowFile
  <2> QED  BY <2>1, <2>2, <2>3 DEF TablesFollowFile, Size
<1> QED  BY <1>5, <1>6

\* Pushing its PSID.
LEMMA PushPsidKeeps == ASSUME IInv, PushPsid PROVE LoaderInv' /\ TablesFollowFile'
<1>1. /\ loader \in 1 .. Size /\ Size \in Nat
      /\ Len(wave_cfg_dsrc_msg_ids) = loader /\ Len(wave_cfg_psids) = loader - 1
      /\ loader' = loader + 1 /\ UNCHANGED wave_cfg_dsrc_msg_ids
  BY DEF IInv, LoaderInv, TablesFollowFile, PushPsid, Size
<1>2. WaveFile[loader].psid \in Number
  BY <1>1, EntryFields
<1>3. /\ wave_cfg_psids \in Seq(Number)
      /\ wave_cfg_psids' = Append(wave_cfg_psids, WaveFile[loader].psid)
  BY DEF IInv, LoaderInv, PushPsid
<1>4. /\ wave_cfg_psids' \in Seq(Number)
      /\ Len(wave_cfg_psids') = loader
      /\ \A k \in 1 .. loader - 1 : wave_cfg_psids'[k] = wave_cfg_psids[k]
      /\ wave_cfg_psids'[loader] = WaveFile[loader].psid
  BY <1>1, <1>2, <1>3
<1>5. LoaderInv'
  BY <1>1, <1>4 DEF IInv, LoaderInv, Size
<1>6. TablesFollowFile'
  BY <1>1, <1>4 DEF IInv, TablesFollowFile, Size
<1> QED  BY <1>5, <1>6

\* Every step keeps the invariant: an inbound message starts the loading only
\* of tables that are empty, and a failure leaves them so.
LEMMA StepKeeps == ASSUME IInv, [Next]_vars PROVE IInv'
<1> USE DEF tables, nodeVars, outVars, vars
<1>1. MapInv'
  <2>1. UNCHANGED kEttifosPsidOverrides
    BY DEF Next, ConfigureStep, LoadWaveConfig, SetWaveFilePath, ConnectSlot, Reconfigure, Inbound,
           LoadFails, PushId, PushPsid, LoadEnds, SendV2xMessage, PublishRaw, PublishKnown,
           PublishBeyond, Publish, Receive
  <2> QED  BY <2>1 DEF IInv, MapInv, BuiltFrom
<1>2. CASE PushId
  BY <1>1, <1>2, PushIdKeeps DEF IInv
<1>3. CASE PushPsid
  BY <1>1, <1>3, PushPsidKeeps DEF IInv
<1>4. CASE Inbound \/ LoadFails \/ LoadEnds \/ Reconfigure
  <2>1. Size \in Nat
    BY DEF Size
  <2>2. LoaderInv'
    <3>1. CASE Inbound    BY <2>1, <3>1 DEF Inbound, IInv, LoaderInv
    <3>2. CASE LoadFails  BY <2>1, <3>2 DEF LoadFails, IInv, LoaderInv
    <3>3. CASE LoadEnds
      <4>1. /\ loader = Size + 1 /\ loader # 0 /\ loader' = 0
            /\ Len(wave_cfg_psids) = Size /\ Len(wave_cfg_dsrc_msg_ids) = Size
            /\ UNCHANGED tables
        BY <2>1, <3>3 DEF LoadEnds, IInv, LoaderInv, TablesFollowFile
      <4> QED  BY <2>1, <4>1 DEF IInv, LoaderInv
    <3>4. CASE Reconfigure
      <4>1. <<>> \in Seq(Number)
        OBVIOUS
      <4> QED  BY <2>1, <3>4, <4>1 DEF Reconfigure, IInv, LoaderInv
    <3> QED  BY <1>4, <3>1, <3>2, <3>3, <3>4
  <2>3. TablesFollowFile'
    BY <1>4, <2>1 DEF Inbound, LoadFails, LoadEnds, Reconfigure, IInv, TablesFollowFile
  <2> QED  BY <1>1, <2>2, <2>3 DEF IInv
<1>5. CASE UNCHANGED <<loader, tables>>
  BY <1>1, <1>5 DEF IInv, LoaderInv, TablesFollowFile
<1>6. \/ PushId \/ PushPsid \/ Inbound \/ LoadFails \/ LoadEnds \/ Reconfigure
      \/ UNCHANGED <<loader, tables>>
  BY DEF Next, ConfigureStep, LoadWaveConfig, SetWaveFilePath, ConnectSlot, SendV2xMessage,
         PublishRaw, PublishKnown, PublishBeyond, Publish, Receive
<1> QED  BY <1>2, <1>3, <1>4, <1>5, <1>6

\* The discipline of the loader, in every reachable state.
THEOREM Discipline == Spec => []IInv
<1> QED  BY InitIInv, StepKeeps, PTL DEF Spec

\* The two tables keep in step with the file and with each other.
THEOREM InStepWithFile == Spec => []TablesFollowFile
<1>1. IInv => TablesFollowFile  BY DEF IInv
<1> QED  BY Discipline, <1>1, PTL

\* A message whose entry is loaded is published on the topic of its PSID.
THEOREM LoadedIsRight == Spec => LoadedTopicIsRight
<1>1. ASSUME IInv, Next, NEW id \in Ids,
             Place(id, wave_cfg_dsrc_msg_ids) \in 1 .. Len(wave_cfg_psids), Determined(id),
             published' # published, published'.id = id
      PROVE  published'.topic = RightTopic(id)
  <2>1. PICK sent \in Ids : SendV2xMessage(sent)
    BY <1>1 DEF Next, ConfigureStep, LoadWaveConfig, SetWaveFilePath, ConnectSlot, Reconfigure,
                Inbound, LoadFails, PushId, PushPsid, LoadEnds, Receive, outVars, vars
  <2>2. sent = id /\ PublishKnown(id)
    BY <1>1, <2>1 DEF SendV2xMessage, PublishRaw, PublishKnown, PublishBeyond, Publish
  <2> DEFINE k == Place(id, wave_cfg_dsrc_msg_ids)
  <2>3. published'.topic = Topic(wave_cfg_psids[k])
    BY <2>2 DEF PublishKnown, Publish
  <2>4. wave_cfg_psids[k] = PsidOf(id)
    BY <1>1, PlaceInFile DEF IInv, TablesFollowFile, PsidOf
  <2> QED  BY <1>1, <2>3, <2>4, TopicOfDetermined DEF IInv
<1>2. IInv /\ [Next]_vars
        => [\A id \in Ids :
               /\ Place(id, wave_cfg_dsrc_msg_ids) \in 1 .. Len(wave_cfg_psids)
               /\ Determined(id)
               /\ published' # published
               /\ published'.id = id
               => published'.topic = RightTopic(id)]_vars
  BY <1>1
<1> QED  BY Discipline, <1>2, PTL DEF Spec, LoadedTopicIsRight

-----------------------------------------------------------------------------
(* The type of a received message *)

\* The node's list is empty or begins with the whole file, whatever has been
\* appended to it; what was received was looked up in the present list.
ListInv ==
    /\ wave_cfg_items \in Seq(Entry)
    /\ wave_cfg_items # <<>>
         => /\ Len(wave_cfg_items) >= Size
            /\ \A k \in 1 .. Size : wave_cfg_items[k] = WaveFile[k]

ReceivedInv ==
    received # NoneReceived
        => /\ configured = "slot"
           /\ Place(received.id, FileIds) # 0
           /\ received.type = TypeOf(received.id, wave_cfg_items)

\* The list as the handler looks it up by id.
LEMMA FirstInList ==
    ASSUME ListInv, wave_cfg_items # <<>>, NEW id, Place(id, FileIds) # 0
    PROVE  TypeOf(id, wave_cfg_items) = WaveFile[Place(id, FileIds)].name
<1> DEFINE ids == [n \in DOMAIN wave_cfg_items |-> wave_cfg_items[n].id]
           k == Place(id, ids)
           f == Place(id, FileIds)
<1>1. /\ wave_cfg_items \in Seq(Entry) /\ Size \in Nat
      /\ Len(wave_cfg_items) >= Size
      /\ \A l \in 1 .. Size : wave_cfg_items[l] = WaveFile[l]
  BY DEF ListInv, Size
<1>2. /\ FileIds \in Seq(Number) /\ Len(FileIds) = Size
      /\ \A l \in 1 .. Size : FileIds[l] = WaveFile[l].id
  BY EntryFields DEF FileIds, Size
<1>3. /\ ids \in Seq(Number) /\ Len(ids) = Len(wave_cfg_items)
      /\ \A l \in 1 .. Len(wave_cfg_items) : ids[l] = wave_cfg_items[l].id
  <2>1. ASSUME NEW l \in 1 .. Len(wave_cfg_items) PROVE wave_cfg_items[l].id \in Number
    <3>1. wave_cfg_items[l] \in Entry  BY <1>1
    <3> QED  BY <3>1 DEF Entry
  <2> QED  BY <1>1, <2>1
<1> HIDE DEF ids
<1>4. /\ f \in 1 .. Size /\ FileIds[f] = id
      /\ \A l \in 1 .. Size : FileIds[l] = id => f <= l
  BY <1>2, FirstPlace
<1>5. ids[f] = id /\ f \in 1 .. Len(ids)
  BY <1>1, <1>2, <1>3, <1>4
<1>6. k \in 1 .. Len(ids) /\ ids[k] = id /\ k <= f
  BY <1>3, <1>5, FirstPlace
<1>7. k = f
  <2>1. k \in 1 .. Size /\ FileIds[k] = id
    BY <1>1, <1>2, <1>3, <1>4, <1>6
  <2> QED  BY <1>4, <1>6, <2>1
<1>8. TypeOf(id, wave_cfg_items) = wave_cfg_items[k].name
  BY <1>4, <1>7 DEF TypeOf, ids
<1> QED  BY <1>1, <1>4, <1>7, <1>8

\* The list as packMessage() looks it up by name.
LEMMA PackedByName ==
    ASSUME NamesAgree, ListInv, wave_cfg_items # <<>>, NEW f \in 1 .. Size, NEW id
    PROVE  PackedPsid(WaveFile[f].name, id) = WaveFile[f].psid
<1> DEFINE names == [n \in DOMAIN wave_cfg_items |-> wave_cfg_items[n].name]
           k == Place(WaveFile[f].name, names)
<1>1. /\ wave_cfg_items \in Seq(Entry) /\ Size \in Nat
      /\ Len(wave_cfg_items) >= Size
      /\ \A l \in 1 .. Size : wave_cfg_items[l] = WaveFile[l]
  BY DEF ListInv, Size
<1>2. /\ names \in Seq(STRING) /\ Len(names) = Len(wave_cfg_items)
      /\ \A l \in 1 .. Len(wave_cfg_items) : names[l] = wave_cfg_items[l].name
  <2>1. ASSUME NEW l \in 1 .. Len(wave_cfg_items) PROVE wave_cfg_items[l].name \in STRING
    <3>1. wave_cfg_items[l] \in Entry  BY <1>1
    <3> QED  BY <3>1 DEF Entry
  <2> QED  BY <1>1, <2>1
<1> HIDE DEF names
<1>3. names[f] = WaveFile[f].name /\ f \in 1 .. Len(names)
  BY <1>1, <1>2
<1>4. k \in 1 .. Len(names) /\ names[k] = WaveFile[f].name /\ k <= f
  BY <1>2, <1>3, FirstPlace
<1>5. k \in 1 .. Size /\ WaveFile[k].name = WaveFile[f].name
  BY <1>1, <1>2, <1>4
<1>6. PackedPsid(WaveFile[f].name, id) = wave_cfg_items[k].psid
  BY <1>4 DEF PackedPsid, names
<1> QED  BY <1>1, <1>5, <1>6 DEF NamesAgree

\* Only LoadWaveConfig changes the list, and nothing has been received from the
\* client that it configures.
LEMMA ListKept ==
    ASSUME IInv, ListInv, ReceivedInv, [Next]_vars
    PROVE  ListInv' /\ ReceivedInv'
<1> USE DEF tables, nodeVars, outVars, vars
<1>1. CASE LoadWaveConfig
  <2>1. received = NoneReceived /\ UNCHANGED received
    BY <1>1 DEF LoadWaveConfig, ConfigureMove, ReceivedInv
  <2>2. wave_cfg_items' = wave_cfg_items \o WaveFile \/ UNCHANGED wave_cfg_items
    BY <1>1 DEF LoadWaveConfig
  <2>3. CASE wave_cfg_items' = wave_cfg_items \o WaveFile
    <3>1. /\ wave_cfg_items \in Seq(Entry) /\ WaveFile \in Seq(Entry)
          /\ Size = Len(WaveFile) /\ Size \in Nat
      BY DEF ListInv, Size
    <3>2. /\ wave_cfg_items' \in Seq(Entry)
          /\ Len(wave_cfg_items') = Len(wave_cfg_items) + Size
          /\ \A k \in 1 .. Len(wave_cfg_items') : wave_cfg_items'[k] =
                IF k <= Len(wave_cfg_items) THEN wave_cfg_items[k]
                ELSE WaveFile[k - Len(wave_cfg_items)]
      BY <2>3, <3>1
    <3>3. ASSUME wave_cfg_items = <<>> PROVE ListInv'
      BY <2>3, <3>1, <3>2, <3>3 DEF ListInv, Size
    <3>4. ASSUME wave_cfg_items # <<>> PROVE ListInv'
      BY <3>1, <3>2, <3>4 DEF ListInv, Size
    <3>5. ListInv'
      BY <3>3, <3>4
    <3> QED  BY <2>1, <3>5 DEF ReceivedInv
  <2>4. CASE UNCHANGED wave_cfg_items
    BY <2>1, <2>4 DEF ListInv, ReceivedInv, Size
  <2> QED  BY <2>2, <2>3, <2>4
<1>2. ASSUME NEW id \in Ids, Receive(id) PROVE ListInv' /\ ReceivedInv'
  <2>1. Place(id, FileIds) # 0
    BY <1>2, PlaceInFile DEF Receive
  <2> QED  BY <1>2, <2>1 DEF Receive, ListInv, ReceivedInv, Size, TypeOf
<1>3. CASE Reconfigure
  BY <1>3 DEF Reconfigure, ListInv, ReceivedInv, Size
<1>4. CASE SetWaveFilePath \/ ConnectSlot
  BY <1>4 DEF SetWaveFilePath, ConnectSlot, ConfigureMove, ListInv, ReceivedInv, Size
<1>5. CASE UNCHANGED nodeVars
  BY <1>5 DEF ListInv, ReceivedInv, Size, TypeOf
<1>6. \/ LoadWaveConfig \/ Reconfigure \/ SetWaveFilePath \/ ConnectSlot
      \/ UNCHANGED nodeVars \/ \E id \in Ids : Receive(id)
  BY DEF Next, ConfigureStep, Inbound, LoadFails, PushId, PushPsid, LoadEnds, SendV2xMessage,
         PublishRaw, PublishKnown, PublishBeyond, Publish
<1> QED  BY <1>1, <1>2, <1>3, <1>4, <1>5, <1>6

\* Sent on with the type it was received with, a message is packed with the PSID
\* of its id, for every file whose entries of one name agree on the PSID.
THEOREM TypeLeadsBack == ASSUME NamesAgree PROVE Spec => []InboundTypeIsRight
<1>1. Init => ListInv /\ ReceivedInv
  BY DEF Init, ListInv, ReceivedInv
<1>2. ListInv /\ ReceivedInv => InboundTypeIsRight
  <2> SUFFICES ASSUME ListInv, ReceivedInv, received # NoneReceived, wave_cfg_items # <<>>
               PROVE  PackedPsid(received.type, received.id) = PsidOf(received.id)
    BY DEF InboundTypeIsRight
  <2> DEFINE f == Place(received.id, FileIds)
  <2>1. f \in 1 .. Size
    <3>1. FileIds \in Seq(Number) /\ Len(FileIds) = Size
      BY EntryFields DEF FileIds, Size
    <3> QED  BY <3>1, FirstPlace DEF ReceivedInv
  <2>2. received.type = WaveFile[f].name
    BY FirstInList DEF ReceivedInv
  <2> QED  BY <2>1, <2>2, PackedByName DEF PsidOf
<1> QED  BY Discipline, ListKept, <1>1, <1>2, PTL DEF Spec
=============================================================================
