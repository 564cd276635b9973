---------------------------- MODULE MCMethodCall ----------------------------
(* MethodCall for TLC: the arguments are every dict of one entry that is a    *)
(* leaf, a dict or a list of up to two members, and of two entries one of     *)
(* which is a leaf.  Ints are of 3 bits on the wire and of 5 in a C long.     *)
EXTENDS MethodCall

MCReferences == 1..8

(* A tree of one place, and one made of trees and the keys they are under.    *)
Leaf(kind, val) == [p \in {<<>>} |-> Node(<<kind, val>>, NoKey)]
Of(kind, keys, kids) ==
    [p \in {<<>>} \cup UNION {{<<i>> \o q : q \in DOMAIN kids[i]} : i \in DOMAIN kids} |->
        IF p = <<>> THEN Node(<<kind, 0>>, NoKey)
        ELSE IF Len(p) = 1 THEN [kids[p[1]][<<>>] EXCEPT !.key = keys[p[1]]]
        ELSE kids[p[1]][Tail(p)]]
NoKeys == <<NoKey, NoKey>>

Leaves ==
    {Leaf("none", 0), Leaf("bool", TRUE), Leaf("other", 0),
     Leaf("int", -1), Leaf("int", 3), Leaf("int", 4), Leaf("int", 16),
     Leaf("float", -1), Leaf("float", 2),
     Leaf("text", "a"), Leaf("text", "u"), Leaf("text", "x"), Leaf("bytes", "b"), Leaf("bytes", "x")}

TwoKeys == <<<<"text", "a">>, <<"bytes", "b">>>>

List(kids) == Of("list", NoKeys, kids)
Dict(kids) == Of("dict", TwoKeys, kids)
ListsOf(s) == {List(<<>>)} \cup {List(<<v>>) : v \in s} \cup {List(<<v, w>>) : v, w \in s}
DictsOf(s) == {Dict(<<>>)} \cup {Dict(<<v>>) : v \in s}

Few == {Leaf("other", 0), Leaf("int", 3), Leaf("text", "a"), Leaf("text", "u")}
Nested1 == Leaves \cup ListsOf(Leaves) \cup DictsOf(Leaves)
    \cup {List(<<v>>) : v \in DictsOf(Leaves) \cup {List(<<w>>) : w \in Leaves}}
    \cup {Dict(<<List(<<w>>)>>) : w \in Leaves}
    \cup {List(<<List(<<v>>), w>>) : v, w \in Few}

MCArgs == {EmptyDict} \cup {Dict(<<v>>) : v \in Nested1}
    \cup {Dict(<<v, w>>) : v \in Leaves \cup DictsOf(Leaves), w \in Leaves}

Fields == {Leaf(k, 1) : k \in IntKinds \cup {"F32", "F64"} \cup NoCase}
    \cup {Leaf("VOID", 0), Leaf("BOOLEAN", FALSE),
           Leaf("UTF8", <<"u", "peer">>), Leaf("UTF8", <<"x", "peer">>)}
Table(f) == Of("TABLE", <<<<"a", "peer">>>>, <<f>>)
MCDelivered == {Table(f) : f \in Fields
    \cup {Of("ARRAY", NoKeys, <<f>>) : f \in Fields} \cup {Table(f) : f \in Fields}}
=============================================================================
