------------------------------ MODULE MCDelivery ------------------------------
(***************************************************************************)
(* Instances of Delivery for TLC.                                          *)
(***************************************************************************)
EXTENDS Delivery

\* A tree of a root and what hangs on it.
Tree(root, entries) ==
    [p \in {<<>>} \cup UNION {{<<k>> \o q : q \in DOMAIN entries[k]} : k \in DOMAIN entries} |->
        IF p = <<>> THEN root ELSE entries[p[1]][Tail(p)]]
Leaf(node) == Tree(node, <<>>)
Map(entries) == Tree(MapNode, entries)

\* Images: a whole name, its registry and its repository.
Whole == <<"r", "i">>
Old == <<"old">>
New == <<"new">>
MCReleases ==
    {<<<<Whole, New>>>>, <<<<Whole, <<"older">>>>, <<Whole, New>>>>,
     <<<<Whole, New>>, <<<<"i">>, <<"other">>>>>>}

V(v) == Leaf(Plain(<<v>>))
Name(name) == Leaf(Plain(name))
Tag == V("old")
OldImage == Leaf(Image(Whole, Old))
Registry == Map([registry |-> Name(Whole), tag |-> Tag])
Joined == Map([registry |-> Name(<<"r">>), repository |-> Name(<<"i">>), tag |-> Tag])
Repository == Map([repository |-> Name(Whole), tag |-> Tag, sidecar |-> Registry])
Unnamed == Map([repository |-> Leaf(Null), tag |-> Leaf(Null)])
NullRegistry == Map([registry |-> Leaf(Null), repository |-> Name(<<"i">>), tag |-> Tag])
Images == Tree(ListNode, ("0" :> Repository) @@ ("1" :> Unnamed) @@ ("2" :> Leaf(Image(<<"x">>, Old))))
Subcharts == {Nothing, Map([image |-> OldImage]), Map([image |-> Joined]), Map([images |-> Images])}

\* Parameters a (a map, an image or a scalar) and b.
A == {Map([x |-> V("1"), y |-> V("1")]), Map([x |-> V("2"), y |-> Map([m |-> V("2")])]),
      Map([x |-> V("1"), y |-> Map([m |-> Map([n |-> V("1")])])]), Map([x |-> OldImage]), V("2")}
Values ==
    {Map([a |-> a, b |-> b]) : a \in A, b \in {V("1"), OldImage}}
    \cup {Map([a |-> V("1"), b |-> NullRegistry]), Map([b |-> V("1")])}
MCCharts ==
    {<<values, Nothing, Map([image |-> OldImage])>> : values \in Values}
    \cup {<<Map([a |-> V("2"), b |-> V("1")]), siteManager, tests>> : siteManager, tests \in Subcharts}

Default(v) == Tree(Element(FALSE, v, NoRef), <<>>)
One == Default(V("1"))
Two == Default(V("2"))
Properties(entries) == Tree(Element(TRUE, Nothing, NoRef), entries)
Ref(v) == Tree(Element(FALSE, v, "D"), <<>>)
Xy == [x |-> One, y |-> One]
OfA(a, definition) ==
    [tree |-> Properties([a |-> a, b |-> One]), definitions |-> [D |-> definition]]
MCCommunity ==
    {OfA(Properties(Xy), One),
     OfA(Tree(Element(TRUE, V("1"), NoRef), Xy), One),
     OfA(Properties([x |-> One, y |-> Properties([m |-> One])]), One),
     OfA(Ref(Nothing), Properties(Xy)),
     OfA(Ref(V("1")), Properties(Xy)),
     OfA(Properties([x |-> One, y |-> Ref(Nothing)]), Properties([m |-> Two])),
     OfA(Properties([x |-> One, y |-> Ref(Nothing)]), Properties([m |-> Ref(Nothing)])),
     OfA(Default(Nothing), One),
     OfA(One, One)}

MCKeptLists ==
    {<<<<"a">>, <<"b">>>>, <<<<"a", "x">>>>, <<<<"a">>, <<"a", "y">>>>,
     <<<<"a", "x">>, <<"a">>, <<"b">>>>, <<<<"a", "x">>, <<"a">>, <<"a", "y">>>>,
     <<<<"a", "y", "m">>, <<"a", "y">>>>}

MCAdditional ==
    {Properties(<<>>), Properties([a |-> Two]), Properties([a |-> Properties([y |-> One])]),
     Properties([a |-> Properties([x |-> Default(Leaf(Image(Whole, New)))])]),
     Properties([a |-> Properties([y |-> Properties([m |-> Two])])]),
     Properties([b |-> Default(OldImage)])}
==============================================================================
