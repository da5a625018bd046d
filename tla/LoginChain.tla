------------------------------- MODULE LoginChain -------------------------------
(***************************************************************************)
(* What a Login packet carries (login.cpp, clientData.cpp, identityData.h,  *)
(* json.cpp, crypto.cpp, base64.h): a chain of signed tokens and the raw    *)
(* token of the client's own data, written by Encode or EncodeOffline and   *)
(* read by Parse, which the client applies to its own request.              *)
(*                                                                          *)
(* A signature is the name of the key it was made with.  Bytes are numbers  *)
(* below 256 and Base64 is computed; a public key is three bytes of DER, the *)
(* 120 of a P-384 key being a multiple of three as well.  A text is "", or   *)
(* the name of what it holds.                                               *)
(***************************************************************************)
EXTENDS Integers, Sequences, FiniteSets, SequencesExt

Keys == {"client", "signer", "mojang"}

--------------------------------------------------------------------------------
(* Base64: val and valb of the loops are a window that moves over the bits.   *)

PaddingSign == 64                  \* '=', which CharMap maps to -1

At(s, i) == IF i \in DOMAIN s THEN s[i] ELSE 0

\* Six bits a sign; the bits of the last one are filled with zeros, the signs up to
\* a multiple of four.
Base64_Encode(in) ==
    LET signs   == (8 * Len(in) + 5) \div 6
        Sign(i) == LET byte == (6 * i) \div 8 + 1 IN
                   ((At(in, byte) * 256 + At(in, byte + 1)) \div 2^(10 - ((6 * i) % 8))) % 64
    IN [i \in 1 .. signs |-> Sign(i - 1)] \o
       [i \in 1 .. (4 - (signs % 4)) % 4 |-> PaddingSign]

\* Eight bits a byte of the signs before the padding; what is left over is dropped.
DecodeSigns(signs) ==
    LET Byte(j) == LET sign == (8 * j) \div 6 + 1 IN
                   ((At(signs, sign) * 4096 + At(signs, sign + 1) * 64 + At(signs, sign + 2))
                        \div 2^(10 - ((8 * j) % 6))) % 256
    IN [j \in 1 .. (6 * Len(signs)) \div 8 |-> Byte(j - 1)]

Base64_Decode(in) ==
    DecodeSigns(IF Contains(in, PaddingSign)
                THEN SubSeq(in, 1, SelectInSeq(in, LAMBDA s : s = PaddingSign) - 1) ELSE in)

--------------------------------------------------------------------------------
(* Keys: DER as i2d_EC_PUBKEY writes it, or PEM, which wraps its Base64.     *)

PKIXPublicKey(key) ==
    CASE key = "client" -> <<48, 118, 255>> [] key = "signer" -> <<48, 118, 1>>
      [] key = "mojang" -> <<48, 118, 0>>

PemHeader == <<65>>
PublicToPEM(key) == PemHeader \o Base64_Encode(PKIXPublicKey(key))

KeyOr(keys) == IF keys = {} THEN "none" ELSE CHOOSE k \in keys : TRUE

\* A buffer is read as PEM, then as DER.
LoadPublicKey(bytes) == KeyOr({k \in Keys : bytes \in {PublicToPEM(k), PKIXPublicKey(k)}})

\* The algorithm of a token takes PEM only.
Es384(bytes) == KeyOr({k \in Keys : bytes = PublicToPEM(k)})

--------------------------------------------------------------------------------
(* JSON: the kinds of value that jsoncpp and picojson know.                  *)

Value(kind, of) == [kind |-> kind, of |-> of]

\* Every number becomes a double; a value that is nothing else is an object.
BuildPicoValue(v) ==
    Value(CASE v.kind = "number" -> "double"
            [] v.kind \in {"bool", "string", "array"} -> v.kind
            [] OTHER -> "object", v.of)

\* The text of a token: a whole double is printed, and read back, as an integer.
TokenText(v) == IF v.kind = "double" THEN Value("int64", v.of) ELSE v

\* An object builds its members and then falls through to the throw.
BuildsJsonValue(v) == v.kind # "object" /\ (v.kind = "array" => v.of = <<>>)
BuildJsonValue(v)  == IF v.kind \in {"int64", "double"} THEN Value("number", v.of) ELSE v

AddClaims(json)   == [k \in DOMAIN json |-> TokenText(BuildPicoValue(json[k]))]
FromClaims(claims) == [k \in DOMAIN claims |-> BuildJsonValue(claims[k])]

--------------------------------------------------------------------------------
(* ClientData and IdentityData.                                              *)

Strings == {"CapeData", "CapeId", "DeviceModel", "DeviceId", "GameVersion", "LanguageCode",
            "PlatformOfflineId", "PlatformOnlineId", "PlatformUserId", "SelfSignedId",
            "ServerAddress", "SkinAnimationData", "SkinData", "SkinGeometry",
            "SkinGeometryVersion", "SkinId", "PlayFabId", "SkinResourcePatch", "SkinColor",
            "ArmSize", "ThirdPartyName"}
Numbers == {"ClientRandomId", "CapeImageHeight", "CapeImageWidth", "CurrentInputMode",
            "DefaultInputMode", "OS", "GuiScale", "SkinImageHeight", "SkinImageWidth",
            "UIProfile"}
Flags == {"CapeOnClassicSkin", "PersonaSkin", "PremiumSkin", "ThirdPartyNameOnly"}
Lists == {"AnimatedImageData", "PersonaPieces", "PieceTintColors"}
Members == Strings \cup Numbers \cup Flags \cup Lists

Kind(member) ==
    CASE member \in Strings -> "string" [] member \in Numbers -> "number"
      [] member \in Flags -> "bool" [] member \in Lists -> "array"
Empty(member) ==
    CASE member \in Strings -> "" [] member \in Numbers -> 0
      [] member \in Flags -> FALSE [] member \in Lists -> <<>>

DeviceAndroid == 1

\* The client data of a Client, which no member of it changes afterwards.
ClientData ==
    [member \in Members |->
        CASE member = "OS" -> DeviceAndroid [] member = "GameVersion" -> "1.18.12"
          [] member \in {"DeviceId", "SelfSignedId", "SkinId"} -> "uuid"
          [] member = "LanguageCode" -> "en_US" [] member = "SkinData" -> "emptySkin"
          [] member = "SkinImageHeight" -> 32 [] member = "SkinImageWidth" -> 64
          [] member = "SkinResourcePatch" -> "patch" [] member = "SkinGeometry" -> "geometry"
          [] OTHER -> Empty(member)]

\* The name a member has in JSON.
WrittenAs(member) ==
    CASE member = "OS" -> "DeviceOS" [] member = "SkinGeometry" -> "SkinGeometryData"
      [] member = "SkinGeometryVersion" -> "SkinGeometryDataEngineVersion"
      [] OTHER -> member

\* Mutant of ReadAs: the name of the member is taken for its name in JSON.
ReadAs_Member(member) == IF member = "PersonaPieces" THEN "PersonaPiece" ELSE member

ReadAs(member) == IF member = "PersonaPieces" THEN "PersonaPiece" ELSE WrittenAs(member)

\* A list is written one element at a time: an empty one is not written.
Serialize(data) ==
    LET written == {m \in Members : m \notin Lists \/ data[m] # <<>>} IN
    [key \in {WrittenAs(m) : m \in written} |->
        LET member == CHOOSE m \in written : WrittenAs(m) = key
        IN Value(Kind(member), data[member])]

Deserialize(json) ==
    [m \in Members |->
        IF ReadAs(m) \in DOMAIN json THEN json[ReadAs(m)].of
        ELSE IF m = "OS" THEN DeviceAndroid ELSE Empty(m)]

IsUUID(text) == text = "uuid"
\* The pattern "[0-9.]" matches one character.
IsVersion(text) == text \in {"0", "1", "2", "3", "4", "5", "6", "7", "8", "9", "."}
IsNumber(text) == text \in {"0", "1", "2", "3", "4", "5", "6", "7", "8", "9"}
DecodedSize(text) == IF text = "emptySkin" THEN 32 * 64 * 4 ELSE 0
\* An error when the size is the one that was asked for.
WrongSize(text, size) == DecodedSize(text) = size
Resolves(address) == address # ""

\* Resolving an address that nothing has throws; every other check returns an Error.
Validate(data) ==
    CASE \/ data["OS"] \notin 1 .. 13 \/ ~IsUUID(data["DeviceId"])
         \/ ~IsVersion(data["GameVersion"])
         \/ (data["PlatformOfflineId"] # "" /\ ~IsUUID(data["PlatformOnlineId"]))
         \/ (data["PlatformOnlineId"] # "" /\ ~IsNumber(data["PlatformOnlineId"]))
         \/ ~IsUUID(data["SelfSignedId"])            -> "errored"
      [] ~Resolves(data["ServerAddress"])            -> "throws"
      [] \/ WrongSize(data["SkinData"], data["SkinImageHeight"] * data["SkinImageWidth"] * 4)
         \/ WrongSize(data["CapeData"], data["CapeImageHeight"] * data["CapeImageWidth"] * 4)
         \/ data["SkinGeometry"] = "" \/ data["SkinResourcePatch"] = ""
         \/ data["SkinId"] = "" \/ data["UIProfile"] \notin {0, 1} -> "errored"
      [] OTHER                                       -> "valid"

IdentityKeys == {"XUID", "identity", "displayName", "titleId"}
NoIdentity   == [k \in {} |-> ""]

\* IdentityData's constructor, and what the account's own identity is.
SelfMadeIdentity == [k \in IdentityKeys |-> CASE k = "identity" -> "random"
                                               [] k = "displayName" -> "Steve" [] OTHER -> ""]
AccountIdentity  == [k \in IdentityKeys |-> k]

Identity_Serialize(identity) == [k \in IdentityKeys |-> Value("string", identity[k])]
Identity_Deserialize(json) ==
    [k \in IdentityKeys |-> IF k \in DOMAIN json THEN json[k].of ELSE ""]

--------------------------------------------------------------------------------
(* Tokens, and the request made of them.                                     *)

Token(key, identityPublicKey, extraData) ==
    [x5u |-> Base64_Encode(PKIXPublicKey(key)), signedBy |-> key,
     identityPublicKey |-> identityPublicKey, extraData |-> extraData]

\* The raw token carries the client data, and nothing else.
ClientClaims == AddClaims(Serialize(ClientData))
RawToken(key) ==
    [x5u |-> Base64_Encode(PKIXPublicKey(key)), signedBy |-> key, claims |-> ClientClaims]

NoToken == Token("client", <<>>, NoIdentity)

\* The key of the header, by way of Base64, a key and its PEM, made the signature.
Verifies(token) ==
    LET key == LoadPublicKey(Base64_Decode(token.x5u))
    IN key # "none" /\ Es384(PublicToPEM(key)) = token.signedBy

\* The chain the account service gives for a key: Mojang's key signs the signer's,
\* which signs the client's together with the identity.
MinecraftChain(key) ==
    <<Token("mojang", Base64_Encode(PKIXPublicKey("signer")), NoIdentity),
      Token("signer", Base64_Encode(PKIXPublicKey(key)), Identity_Serialize(AccountIdentity))>>

\* "The token needs to be first in the chain, so we shift everything": the third
\* place takes the second token, the second the first.
ShiftChain(chain, token) == <<token, chain[1], chain[2]>> \o SubSeq(chain, 4, Len(chain))

\* A chain of fewer tokens than two cannot be decoded, or not be parsed afterwards.
Encodes(chain) == Len(chain) >= 2

\* The x5u of the token that was first is what the new first token vouches for.
Login_Encode(chain, key) ==
    [chain |-> ShiftChain(chain, Token(key, chain[1].x5u, NoIdentity)),
     rawToken |-> RawToken(key)]

EncodeOffline(identity, key) ==
    [chain |-> <<Token(key, Base64_Encode(PKIXPublicKey(key)),
                       AddClaims(Identity_Serialize(identity)))>>,
     rawToken |-> RawToken(key)]

\* The first token vouches for Mojang's key.
Authenticated(chain) ==
    LoadPublicKey(Base64_Decode(chain[1].identityPublicKey)) = LoadPublicKey(PublicToPEM("mojang"))

\* Parse returns, and does not throw.  A chain of one token gives the Base64 of its
\* header where PEM is needed.
Parses(request) ==
    LET chain == request.chain
        identity == Identity_Deserialize(Last(chain).extraData)
    IN /\ \/ Len(chain) = 1 /\ Es384(chain[1].x5u) = chain[1].signedBy
          \/ /\ Len(chain) = 3 /\ \A i \in 1 .. 3 : Verifies(chain[i])
             /\ LoadPublicKey(Base64_Decode(chain[1].identityPublicKey)) # "none"
             /\ DOMAIN chain[3].extraData # {}
             /\ Authenticated(chain) \/ (identity["XUID"] = "" /\ identity["titleId"] = "")
       /\ \A k \in DOMAIN request.rawToken.claims : BuildsJsonValue(request.rawToken.claims[k])
       /\ Validate(Deserialize(FromClaims(request.rawToken.claims))) # "throws"

ParsedLogin(request) ==
    [identity |-> Identity_Deserialize(Last(request.chain).extraData),
     data |-> Deserialize(FromClaims(request.rawToken.claims)),
     publicKey |-> Base64_Decode(request.chain[1].x5u),
     authenticated |-> Len(request.chain) = 3 /\ Authenticated(request.chain)]
================================================================================
