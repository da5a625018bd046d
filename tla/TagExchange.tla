------------------------------ MODULE TagExchange ------------------------------
(***************************************************************************)
(* NBT tags (protocol/nbt/tag.h, tag.cpp) written one after the other into a *)
(* buffer and read back from it, into new tags or into tags read before.     *)
(*                                                                          *)
(* A tag on the wire has neither its name nor its type: the reader knows     *)
(* what comes, and a list says once what all of its tags are.                *)
(***************************************************************************)
EXTENDS WireCodec

CONSTANTS
    Tags,               \* the tags that may be written
    MaxTags,            \* bound on how many are
    Junk                \* four bytes that may lie behind a float in memory

ASSUME TagAssumption == MaxTags \in Nat /\ Junk # {}

VARIABLES
    tags,               \* history: the tags written
    tagBytes,           \* the buffer
    tagsRead,           \* tags as they were when they had been read, and whether each was new
    tagError            \* why the last read failed

tagVars == <<tags, tagBytes, tagsRead, tagError>>

\* TagType.  No tag has the type Struct: there is no class for it.
TagEnd == 0
TagFloat == 5
TagDouble == 6
TagByteArray == 7
TagList == 9
TagStruct == 10
Simple == 1 :> "U8" @@ 2 :> "U16LE" @@ 3 :> "VarI32" @@ 4 :> "VarI64" @@ TagFloat :> "Float"
            @@ TagByteArray :> "Bytes" @@ 8 :> "String"
Arrays == 11 :> "VarI32" @@ 12 :> "VarI64"

\* createTag throws for what it has no class for.
Creatable == (TagEnd .. 12) \ {TagStruct}

\* A tag with a leaf of bytes or numbers, and a list.
Tag(type, leaf) == [type |-> type, leaf |-> leaf, content |-> TagEnd, of |-> <<>>]
List(content, of) == [type |-> TagList, leaf |-> <<>>, content |-> content, of |-> of]

TagInit == tags = <<>> /\ tagBytes = <<>> /\ tagsRead = <<>> /\ tagError = ""

--------------------------------------------------------------------------------
(* Serialize and Deserialize of each type.                                  *)

\* WriteDouble takes a float, and eight bytes from where that is: four of them are
\* its neighbours'.
RECURSIVE WriteTag(_, _)
WriteTag(t, junk) ==
    CASE t.type = TagEnd -> <<>>
      [] t.type \in DOMAIN Simple -> Put(Simple[t.type], t.leaf)
      [] t.type = TagDouble -> Reverse(t.leaf) \o junk
      [] t.type = TagList ->
           <<t.content>> \o Put("VarU32", <<Len(t.of)>>)
             \o FlattenSeq([i \in DOMAIN t.of |-> WriteTag(t.of[i], junk)])
      [] t.type \in DOMAIN Arrays ->
           WriteField(Many("VarU32", <<Arrays[t.type]>>), [i \in DOMAIN t.leaf |-> <<<<t.leaf[i]>>>>])

RECURSIVE ReadTag(_, _)

\* Mutant of ReadTags: the loop ends one tag early.
ReadTags_Short(type, n, s) ==
    InTurn(IF n = 0 THEN 0 ELSE n - 1, LAMBDA i, r : ReadTag(type, r), s)

\* The loop of TagList::Deserialize.
ReadTags(type, n, s) == InTurn(n, LAMBDA i, r : ReadTag(type, r), s)

ReadTag(type, s) ==
    CASE type \notin Creatable -> Refused
      [] type = TagEnd -> Done(Tag(TagEnd, <<>>), s)
      [] type \in DOMAIN Simple -> Map(Get(Simple[type], s), LAMBDA v : Tag(type, v))
      [] type = TagDouble -> Map(Take(8, s), LAMBDA b : Tag(TagDouble, Reverse(b)))
      [] type = TagList ->
           Then(Take(1, s), LAMBDA content, r :
             Then(ReadInt(r), LAMBDA n, rest :
               Map(ReadTags(content[1], n[1], rest), LAMBDA of : List(content[1], of))))
      [] type \in DOMAIN Arrays ->
           Map(ReadField(Many("VarU32", <<Arrays[type]>>), s),
               LAMBDA v : Tag(type, [i \in DOMAIN v |-> v[i][1][1]]))

\* Deserialize of a list or an array adds to what the tag has.
DeserializeTag(old, t) ==
    CASE t.type = TagList -> [t EXCEPT !.of = old.of \o @]
      [] t.type \in DOMAIN Arrays -> [t EXCEPT !.leaf = old.leaf \o @]
      [] OTHER -> t

--------------------------------------------------------------------------------
SerializeTag(t, junk) ==
    /\ Len(tags) < MaxTags
    /\ tags' = Append(tags, t) /\ tagBytes' = tagBytes \o WriteTag(t, junk)
    /\ UNCHANGED <<tagsRead, tagError>>

\* The next tag, into a new one of its type or into the last one read, if it is of it.
ReadNext(reuse) ==
    /\ tagError = "" /\ Len(tagsRead) < Len(tags)
    /\ LET type == tags[Len(tagsRead) + 1].type
           r == ReadTag(type, tagBytes)
       IN  /\ reuse => tagsRead # <<>> /\ Last(tagsRead).tag.type = type
           /\ tagError' = r.error /\ tagBytes' = r.rest
           /\ tagsRead' = IF r.error # "" THEN tagsRead
                          ELSE Append(tagsRead, [fresh |-> ~reuse, tag |->
                                 IF reuse THEN DeserializeTag(Last(tagsRead).tag, r.value)
                                 ELSE r.value])
    /\ UNCHANGED tags

TagNext ==
    \/ \E t \in Tags, junk \in Junk : SerializeTag(t, junk)
    \/ \E reuse \in BOOLEAN : ReadNext(reuse)

TagSpec == TagInit /\ [][TagNext]_tagVars

--------------------------------------------------------------------------------
\* The parts keep their types; nothing is read that was not written.
TagTypeOK ==
    /\ tags \in Seq(Tags) /\ Len(tags) <= MaxTags /\ Len(tagsRead) <= Len(tags)
    /\ tagBytes \in Seq(0 .. 255) /\ tagError \in {"", "short", "refused"}

RECURSIVE SameTag(_, _)
SameTag(t, r) ==
    /\ r.type = t.type
    /\ t.type \in DOMAIN Simple /\ Survives(Simple[t.type], t.leaf) => r.leaf = t.leaf
    /\ t.type \in DOMAIN Arrays =>
         /\ Len(r.leaf) = Len(t.leaf)
         /\ \A i \in DOMAIN t.leaf :
               Survives(Arrays[t.type], <<t.leaf[i]>>) => r.leaf[i] = t.leaf[i]
    /\ t.type = TagList =>
         /\ r.content = t.content /\ Len(r.of) = Len(t.of)
         /\ \A i \in DOMAIN t.of : SameTag(t.of[i], r.of[i])

\* The part of a tag that its last reading added.
Added(t, r) ==
    [r EXCEPT !.of = SubSeq(@, Len(@) - Len(t.of) + 1, Len(@)),
              !.leaf = IF t.type \in DOMAIN Arrays
                       THEN SubSeq(@, Len(@) - Len(t.leaf) + 1, Len(@)) ELSE @]

RECURSIVE LongString(_)
LongString(t) ==
    \/ t.type = 8 /\ Len(t.leaf) > MaxString
    \/ \E i \in DOMAIN t.of : LongString(t.of[i])

\* Serialize and Deserialize of every tag: a reader that knows the types stays in
\* step with the writer through lists of lists, empty lists and doubles; it gets the
\* tags that were written, but for doubles and negative numbers, behind what a reused
\* list already held; and nothing but a string that is too long stops it.
TagsUnderstood ==
    /\ \A k \in DOMAIN tagsRead :
          SameTag(tags[k], IF tagsRead[k].fresh THEN tagsRead[k].tag
                           ELSE Added(tags[k], tagsRead[k].tag))
    /\ tagError # "" => tagError = "refused" /\ LongString(tags[Len(tagsRead) + 1])
    /\ Len(tagsRead) = Len(tags) => tagBytes = <<>>
================================================================================
