------------------------------ MODULE ImageSync -------------------------------
(***************************************************************************)
(* docker-transfer/sync_util.py: writes the tags of the released images    *)
(* into a values.yaml.                                                     *)
(*                                                                         *)
(* A scalar is a sequence of parts, so that a registry and a repository    *)
(* are joined as sequences.  A string "name:tag" is a node of its own      *)
(* kind.                                                                   *)
(***************************************************************************)
EXTENDS Documents

MapNode == [kind |-> "map"]
ListNode == [kind |-> "list"]
Image(name, tag) == [kind |-> "image", name |-> name, tag |-> tag]
Plain(value) == [kind |-> "plain", value |-> value]
Null == [kind |-> "null"]

\* Only maps and lists have something below them.
IsDocument(d) ==
    /\ IsTree(d)
    /\ \A p \in DOMAIN d : \A n \in 0..(Len(p) - 1) : d[SubSeq(p, 1, n)].kind \in {"map", "list"}
    /\ \A p \in DOMAIN d : p # <<>> /\ Last(p) \in {"registry", "repository", "tag"} =>
        d[p].kind \in {"plain", "null"}

\* release-images.yaml: names with tags; of two entries of an image the last counts.
ParseReleaseImages(pairs) ==
    [name \in {pairs[i][1] : i \in DOMAIN pairs} |->
        pairs[CHOOSE i \in DOMAIN pairs : /\ pairs[i][1] = name
                                          /\ \A j \in DOMAIN pairs : j > i => pairs[j][1] # name][2]]

HasField(d, p, f) == d[p].kind = "map" /\ Append(p, f) \in DOMAIN d
Field(d, p, f) == d[Append(p, f)]
\* ~ is no name.
NameIn(d, p, f) == IF Field(d, p, f) = Null THEN <<>> ELSE <<Field(d, p, f).value>>

\* The names a map may give an image, in the order they are tried.
NamesTried(d, p) ==
    CASE HasField(d, p, "tag") /\ HasField(d, p, "repository") /\ HasField(d, p, "registry") ->
            <<Field(d, p, "registry").value \o Field(d, p, "repository").value>>
            \o NameIn(d, p, "repository")
      [] HasField(d, p, "tag") /\ HasField(d, p, "repository") /\ ~HasField(d, p, "registry") ->
            NameIn(d, p, "repository")
      [] HasField(d, p, "tag") /\ ~HasField(d, p, "repository") /\ HasField(d, p, "registry") ->
            NameIn(d, p, "registry")
      [] OTHER -> <<>>

\* A later name overrides what an earlier one has set.
Released(d, p, versions) == {i \in DOMAIN NamesTried(d, p) : NamesTried(d, p)[i] \in DOMAIN versions}
NewTag(d, p, versions) ==
    LET found == Released(d, p, versions)
    IN versions[NamesTried(d, p)[CHOOSE i \in found : \A j \in found : j <= i]]

\* Bug variant: a map whose tag was looked at is not descended into.
UpdateNodeShallow(d, versions) ==
    LET Reached(q) == \A n \in 0..(Len(q) - 1) : NamesTried(d, SubSeq(q, 1, n)) = <<>> IN
    [q \in DOMAIN d |->
        IF q # <<>> /\ Last(q) = "tag" /\ Released(d, Front(q), versions) # {} /\ Reached(Front(q))
        THEN Plain(NewTag(d, Front(q), versions))
        ELSE IF d[q].kind = "image" /\ d[q].name \in DOMAIN versions /\ Reached(q)
        THEN Image(d[q].name, versions[d[q].name])
        ELSE d[q]]

\* update_node visits every node: it sets the tag of a map and replaces strings.
UpdateNode(d, versions) ==
    [q \in DOMAIN d |->
        IF q # <<>> /\ Last(q) = "tag" /\ Released(d, Front(q), versions) # {}
        THEN Plain(NewTag(d, Front(q), versions))
        ELSE IF d[q].kind = "image" /\ d[q].name \in DOMAIN versions
        THEN Image(d[q].name, versions[d[q].name])
        ELSE d[q]]

\* An AttributeError: a registry or a repository that is joined is ~.
UpdateRaises(d) ==
    \E p \in DOMAIN d :
        /\ \A f \in {"registry", "repository", "tag"} : HasField(d, p, f)
        /\ Null \in {Field(d, p, "registry"), Field(d, p, "repository")}

------------------------------------------------------------------------------
(* What a document refers to, for the properties. *)

\* Every image a document names, with the names it may be released under, the
\* one that counts most last.
References(d) ==
    {[names |-> NamesTried(d, p), tag |-> Field(d, p, "tag")] :
        p \in {p \in DOMAIN d : NamesTried(d, p) # <<>>}}
    \cup {[names |-> <<d[p].name>>, tag |-> Plain(d[p].tag)] :
        p \in {p \in DOMAIN d : d[p].kind = "image"}}

==============================================================================
