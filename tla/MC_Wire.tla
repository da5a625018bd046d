-------------------------------- MODULE MC_Wire --------------------------------
(* What goes through the PacketBuff, for TLC: TagExchange and then             *)
(* DatagramExchange, which share their codec and no state.  Neither takes a    *)
(* step while the other is under way, so their states add up.                  *)
EXTENDS DatagramExchange, TagExchange

MCEndpoints == {<<4, 127, 0, 200, 255, 74, 188>>,
                <<6, 32, 1, 13, 184, 0, 0, 0, 0, 0, 0, 0, 0, 0, 0, 0, 1, 74, 188>>}
MCMtus == {60, 400, 1492}
MCNumbers == {0, 2, 4, 6, 8, 9}

Letters(n) == [i \in 1 .. n |-> 96 + i]
Numbers32 == Tag(11, <<5, -70, 300>>)
MCTags == {
    Tag(TagEnd, <<>>), Tag(1, <<255>>), Tag(2, <<1, 2>>), Tag(3, <<300>>), Tag(3, <<-300>>),
    Tag(4, <<70000>>), Tag(TagFloat, <<63, 128, 0, 0>>), Tag(TagDouble, <<64, 73, 15, 219>>),
    Tag(TagByteArray, Letters(7)), Tag(8, Letters(6)), Tag(8, Letters(7)), Tag(8, <<>>),
    Numbers32, Tag(12, <<>>), Tag(12, <<-1, 100000>>),
    List(TagEnd, <<>>), List(TagStruct, <<>>), List(TagEnd, <<Tag(TagEnd, <<>>), Tag(TagEnd, <<>>)>>),
    List(8, <<Tag(8, Letters(3)), Tag(8, Letters(1))>>),
    List(TagDouble, <<Tag(TagDouble, <<64, 73, 15, 219>>)>>), List(11, <<Numbers32, Numbers32>>),
    List(TagList, <<List(1, <<Tag(1, <<4>>)>>), List(TagEnd, <<>>), List(8, <<Tag(8, Letters(2))>>)>>)}
MCJunk == {<<0, 0, 0, 0>>, <<7, 0, 9, 200>>}

WireInit == TagInit /\ ExchangeInit
WireNext ==
    \/ TagNext /\ turn = 1 /\ bytes = <<>> /\ UNCHANGED exchangeVars
    \/ ExchangeNext /\ tags = <<>> /\ UNCHANGED tagVars
WireSpec == WireInit /\ [][WireNext]_<<exchangeVars, tagVars>>
================================================================================
