---------------------------- MODULE MCDataStream ----------------------------
EXTENDS DataStream, TLC

CONSTANTS s1, s2

MCSymmetry == Permutations(Streams)

One(type, e) == [kind |-> [counted |-> FALSE, row |-> <<type>>], data |-> <<e>>]
Many(row, d) == [kind |-> [counted |-> TRUE, row |-> row], data |-> d]

MCItems == {One("byte", <<3>>), One("bool", <<1>>), One("int16", <<1, 0>>), One("int32", <<2, 0, 0, 0>>),
            One("text", <<>>), One("text", <<65, 3>>),
            Many(<<"int16">>, <<<<1, 2>>, <<0, 3>>>>), Many(<<"text">>, <<<<66>>>>),
            Many(<<"byte", "text">>, <<<<1>>, <<>>, <<2>>, <<67>>>>)}

\* A text that announces more than follows, a container that announces more.
MCRaws == {<<>>, <<3, 0, 0, 0, 65>>, <<1>>}
=============================================================================
