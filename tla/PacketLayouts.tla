----------------------------- MODULE PacketLayouts -----------------------------
(***************************************************************************)
(* The packets of the game (include/protocol/packet): the id and header of  *)
(* each, and the fields that its Serialize writes and its Deserialize reads. *)
(* A packet without a structure of its own is RawPacket.                     *)
(***************************************************************************)
EXTENDS WireCodec

\* The ids of id.h that have a structure, and the others.
Login == 1
ResourcePackStack == 7
PlayStatus == 2
ResourcePackClientResponse == 8
ServerToClientHandshake == 3
StartGame == 11
ClientToServerHandshake == 4
SetLocalPlayerAsInitialised == 113
PacketDisconnect == 5
ClientCacheStatus == 129
ResourcePacksInfo == 6

PacketIDs == (1 .. 178) \ {16, 24, 37, 116, 120, 126, 134}

\* PacketPool registers a constructor for each of them, and NewPacket throws for
\* any other.
Registered == PacketIDs

\* PacketHeader: the two sub clients are 0 in every header the client writes.
WriteHeader(id) == Put("VarU32", <<id>>)
PacketId(header) == header[1] % 1024

\* Of resourcePack.h and experimentData.h.
BehaviourPackInfo == <<"String", "String", "U64LE", "String", "String", "String", "Bool">>
TexturePackInfo   == Append(BehaviourPackInfo, "Bool")
StackResourcePack == <<"String", "String", "String">>
ExperimentData    == <<"String", "Bool">>

PacksInfoFields(count) ==
    <<One("Bool"), One("Bool"), One("Bool"),
      Many(count, BehaviourPackInfo), Many(count, TexturePackInfo)>>

PackStackFields(count) ==
    <<One("Bool"), Many("VarU32", StackResourcePack), Many("VarU32", StackResourcePack),
      One("String"), Many(count, ExperimentData), One("Bool")>>

\* Of gameRule.h, item.h, block.h, player.h and educationSharedResourceUri.h.  The value
\* of a rule <<name, by the player, type, value>> is that of its type.
RuleValues == <<"Bool", "VarU32", "Float">>
WriteGameRule(rule) ==
    Put("String", rule[1]) \o Put("Bool", rule[2]) \o Put("VarU32", <<rule[3]>>)
      \o Put(RuleValues[rule[3] + 1], rule[4])
ItemEntry  == <<"String", "I16BE", "Bool">>
BlockEntry == <<"String", "Raw">>
PlayerMovementSettings     == <<"VarU32", "VarU32", "Bool">>
EducationSharedResourceURI == <<"String", "String">>

Bools(n) == [i \in 1 .. n |-> "Bool"]
VarInts(n) == [i \in 1 .. n |-> "VarI32"]
Floats(n) == [i \in 1 .. n |-> "Float"]

\* startGame.h.  The rules are as WriteGameRule leaves them.  The three numbers of the
\* world's spawn are whatever is behind a copy of their names (writer.h), and
\* ForceExperimentalGameplay is written once again when it is true.
BlocksField == 31
StartGameFields ==
    <<Group(<<"VarI64", "VarU64", "VarI32">>), Group(Floats(5)), Group(<<"U64BE", "I16BE">>),
      One("String"), Group(VarInts(4)), Group(VarInts(3)), One("Bool"), Group(VarInts(2)),
      One("Bool"), One("String"), Group(Floats(2)), Group(Bools(3)), Group(VarInts(2)),
      Group(Bools(2)), Many("VarU32", <<"Raw">>), Many("VarU32", ExperimentData),
      Group(Bools(3)), One("VarI32"), One("I32BE"), Group(Bools(7)), One("String"),
      Group(<<"I32BE", "I32BE">>), One("Bool"), Group(EducationSharedResourceURI), One("Raw"),
      Group(<<"String", "String", "String">>), One("Bool"), Group(PlayerMovementSettings),
      One("I64BE"), One("VarI32"), Many("VarU32", BlockEntry), Many("VarU32", ItemEntry),
      Group(<<"String", "Bool", "String">>), One("U64BE")>>

LoginFields      == <<One("I32BE"), One("Bytes")>>
PlayStatusFields == <<One("I32BE")>>
HandshakeFields  == <<One("Bytes")>>
ResponseFields   == <<One("U8"), Many("U16LE", <<"String">>)>>
InitialisedFields == <<One("VarU64")>>
CacheStatusFields == <<One("Bool")>>

\* Fields as read and written; a StartGame is read as a RawPacket.
\* The two lists whose length is not read as it was written: the packs as a signed
\* number, the experiments as one of half the width (a size_t is written).
Fields(id, packs, experiments) ==
    CASE id = Login -> LoginFields
      [] id = PlayStatus -> PlayStatusFields
      [] id = ServerToClientHandshake -> HandshakeFields
      [] id = ClientToServerHandshake -> <<>>
      [] id = ResourcePacksInfo -> PacksInfoFields(packs)
      [] id = ResourcePackStack -> PackStackFields(experiments)
      [] id = ResourcePackClientResponse -> ResponseFields
      [] id = SetLocalPlayerAsInitialised -> InitialisedFields
      [] id = ClientCacheStatus -> CacheStatusFields
      [] OTHER -> <<One("Raw")>>

Serialized(id)   == IF id = StartGame THEN StartGameFields ELSE Fields(id, "U16LE", "U64LE")
Deserialized(id) == Fields(id, "I16LE", "U32LE")

SerializePacket(id, v) == WriteHeader(id) \o Write(Serialized(id), v)

\* BlockEntry::Serialize ends with an Exception ("IMPLEMENT NBT").
Serializes(id, v) == id = StartGame => v[BlocksField] = <<>>

\* A field is read as it is written when its length takes the same bytes.
SameWidth(a, b) ==
    \/ ~IsList(a) \/ a.count = b.count
    \/ {a.count, b.count} \cap Varints = {} /\ Width(a.count) = Width(b.count)

\* Deserialize into an object that held old: lists and the payload of a RawPacket
\* are added to, everything else is replaced.
DeserializeInto(id, old, v) ==
    LET layout == Deserialized(id)
    IN  [i \in DOMAIN layout |->
            CASE old = <<>> -> v[i]
              [] IsList(layout[i]) -> old[i] \o v[i]
              [] layout[i] = One("Raw") -> <<<<old[i][1][1] \o v[i][1][1]>>>>
              [] OTHER -> v[i]]
================================================================================
