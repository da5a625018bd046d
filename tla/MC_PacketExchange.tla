--------------------------- MODULE MC_PacketExchange ---------------------------
(* PacketExchange for TLC: a packet or two of every structure.               *)
EXTENDS PacketExchange

Text == 9
Unknown == 200
Packet(id, value) == [id |-> id, value |-> value]
Leaf(bytes) == <<<<bytes>>>>
Code(n) == Leaf(<<0, 0, 0, n>>)
Same(b, n) == [i \in 1 .. n |-> b]
Pack(n) == <<<<n, n>>, <<n>>, <<1, 0, 0, 0, 0, 0, 2, n>>, <<>>, <<n>>, <<>>, <<1>>>>
Entry(n) == <<<<n, n>>, <<n>>, <<>>>>
Stack(experiments) ==
    <<Leaf(<<1>>), <<>>, <<Entry(7), Entry(8)>>, Leaf(<<49>>), experiments, Leaf(<<1>>)>>

Rule(type, value) == <<WriteGameRule(<<<<114>>, <<1>>, type, value>>)>>
Names(n) == [i \in 1 .. n |-> <<>>]
Start(blocks) ==
    <<<<<<<<-1>>, <<1>>, <<5>>>>>>, <<[i \in 1 .. 5 |-> Same(0, 4)]>>, <<<<Same(7, 8), <<0, 1>>>>>>,
      Leaf(<<>>), <<<<<<0>>, <<1>>, <<0>>, <<3>>>>>>, <<<<<<70000>>, <<-3>>, <<0>>>>>>, Leaf(<<0>>),
      <<<<<<0>>, <<0>>>>>>, Leaf(<<0>>), Leaf(<<>>), <<[i \in 1 .. 2 |-> Same(0, 4)]>>,
      <<[i \in 1 .. 3 |-> <<1>>]>>, <<<<<<4>>, <<4>>>>>>, <<<<<<1>>, <<0>>>>>>,
      <<Rule(0, <<1>>), Rule(1, <<300>>), Rule(2, <<63, 128, 0, 0>>)>>, <<<<<<101>>, <<1>>>>>>,
      <<[i \in 1 .. 3 |-> <<0>>]>>, Leaf(<<1>>), Leaf(<<0, 0, 0, 4>>), <<[i \in 1 .. 7 |-> <<0>>]>>,
      Leaf(<<42>>), <<<<Same(0, 4), Same(0, 4)>>>>, Leaf(<<1>>), <<Names(2)>>, Leaf(<<1, 1>>),
      <<<<<<119>>, <<>>, <<>>>>>>, Leaf(<<0>>), <<<<<<0>>, <<0>>, <<0>>>>>>, Leaf(Same(0, 8)),
      Leaf(<<12>>), blocks, <<<<<<105, 105>>, <<0, 9>>, <<0>>>>>>, <<<<<<>>, <<1>>, <<49>>>>>>,
      Leaf(Same(0, 8))>>

MCSamples == {
    Packet(Login, <<Code(200), Leaf([i \in 1 .. 40 |-> i])>>),
    Packet(PlayStatus, <<Code(0)>>), Packet(PlayStatus, <<Code(1)>>),
    Packet(ClientToServerHandshake, <<>>),
    Packet(ResourcePacksInfo, <<Leaf(<<0>>), Leaf(<<1>>), Leaf(<<0>>), <<Pack(5)>>,
                                <<Append(Pack(6), <<0>>)>>>>),
    Packet(ResourcePackStack, Stack(<<>>)),
    Packet(ResourcePackStack, Stack(<<<<<<101>>, <<1>>>>>>)),
    Packet(ResourcePackClientResponse, <<Leaf(<<2>>), <<<<[i \in 1 .. 7 |-> i]>>>>>>),
    Packet(SetLocalPlayerAsInitialised, <<Leaf(<<300>>)>>),
    Packet(ClientCacheStatus, <<Leaf(<<1>>)>>),
    Packet(Text, <<Leaf(Same(7, 52))>>),
    Packet(StartGame, Start(<<>>)), Packet(StartGame, Start(<<<<<<98>>, <<>>>>>>)),
    Packet(PacketDisconnect, <<Leaf(<<1>>)>>),
    Packet(Unknown, <<Leaf(<<1>>)>>)}
================================================================================
