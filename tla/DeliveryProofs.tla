---------------------------- MODULE DeliveryProofs ----------------------------
(***************************************************************************)
(* What the build of the transfer image publishes, for every release,      *)
(* values.yaml, schema and list of parameters.                             *)
(*                                                                         *)
(* The trees are functions of paths, so that none of this needs an         *)
(* induction over data: what is below or above an element is said with     *)
(* prefixes, and the loops over the list are steps of the specification.   *)
(***************************************************************************)
EXTENDS Delivery, DocumentProofs

------------------------------------------------------------------------------
(* Schemas. *)

\* A schema in terms of prefixes.
LEMMA SchemaPaths ==
    ASSUME NEW s, IsSchema(s)
    PROVE  /\ DOMAIN s \subseteq Path /\ <<>> \in DOMAIN s
           /\ \A p \in DOMAIN s : s[p].properties \in BOOLEAN
           /\ \A p \in DOMAIN s, r \in Path : IsPrefix(r, p) => r \in DOMAIN s
           /\ \A p \in DOMAIN s, r \in Path : IsStrictPrefix(r, p) => s[r].properties
<1>1. /\ DOMAIN s \subseteq Path /\ <<>> \in DOMAIN s
      /\ \A p \in DOMAIN s : s[p].properties \in BOOLEAN
    BY DEF IsSchema, IsTree
<1>2. ASSUME NEW p \in DOMAIN s, NEW r \in Path, IsPrefix(r, p) PROVE r \in DOMAIN s
  <2>1. Len(r) \in 0..Len(p) /\ r = SubSeq(p, 1, Len(r))
      BY <1>1, <1>2, PrefixIsCut
  <2> QED
      BY <2>1, Zenon DEF IsSchema, IsTree
<1>3. ASSUME NEW p \in DOMAIN s, NEW r \in Path, IsStrictPrefix(r, p) PROVE s[r].properties
  <2>1. Len(r) \in 0..Len(p) /\ r = SubSeq(p, 1, Len(r)) /\ Len(r) < Len(p)
      BY <1>1, <1>3, PrefixIsCut, PrefixOrder
  <2>2. Len(r) \in 0..(Len(p) - 1)
      BY <1>1, <2>1, PathBasics
  <2> QED
      BY <2>1, <2>2, Zenon DEF IsSchema
<1> QED
    BY <1>1, <1>2, <1>3

\* A tree whose inner elements have properties is a schema.
LEMMA SchemaFromPaths ==
    ASSUME NEW s, DOMAIN s \subseteq Path, <<>> \in DOMAIN s,
           \A p \in DOMAIN s : s[p].properties \in BOOLEAN,
           \A p \in DOMAIN s, r \in Path : IsStrictPrefix(r, p) => r \in DOMAIN s /\ s[r].properties
    PROVE  IsSchema(s)
<1>1. ASSUME NEW p \in DOMAIN s, NEW n \in 0..Len(p) PROVE SubSeq(p, 1, n) \in DOMAIN s
  <2>1. SubSeq(p, 1, n) \in Path /\ IsPrefix(SubSeq(p, 1, n), p)
      BY CutPath, CutIsPrefix
  <2>2. SubSeq(p, 1, n) = p \/ IsStrictPrefix(SubSeq(p, 1, n), p)
      BY <2>1 DEF IsStrictPrefix
  <2> QED
      BY <2>1, <2>2
<1>2. ASSUME NEW p \in DOMAIN s, NEW n \in 0..(Len(p) - 1) PROVE s[SubSeq(p, 1, n)].properties
  <2>1. p \in Path /\ n \in 0..Len(p) /\ n < Len(p)
      BY PathBasics
  <2>2. /\ SubSeq(p, 1, n) \in Path /\ IsPrefix(SubSeq(p, 1, n), p)
        /\ Len(SubSeq(p, 1, n)) < Len(p)
      BY <2>1, CutPath, CutIsPrefix
  <2> QED
      BY <2>1, <2>2, PrefixOrder
<1> QED
    BY <1>1, <1>2 DEF IsSchema, IsTree

\* The part of a schema below one of its elements.
LEMMA PartOfSchema ==
    ASSUME NEW s, IsSchema(s), NEW path \in DOMAIN s
    PROVE  /\ DOMAIN Part(s, path) = {q \in Path : path \o q \in DOMAIN s}
           /\ \A q \in DOMAIN Part(s, path) : Part(s, path)[q] = s[path \o q]
           /\ \A p \in DOMAIN s : IsPrefix(path, p) => \E q \in DOMAIN Part(s, path) : p = path \o q
           /\ IsSchema(Part(s, path))
<1> DEFINE t == Part(s, path)
<1>1. path \in Path /\ DOMAIN s \subseteq Path
    BY SchemaPaths
<1>2. DOMAIN t = {q \in Path : path \o q \in DOMAIN s}
  <2>1. ASSUME NEW q \in DOMAIN t PROVE q \in Path /\ path \o q \in DOMAIN s
    <3>1. PICK x \in DOMAIN s : IsPrefix(path, x) /\ q = SubSeq(x, Len(path) + 1, Len(x))
        BY DEF Part
    <3>2. q \in Path /\ x = path \o q
        BY <1>1, <3>1, Rest
    <3> QED
        BY <3>2
  <2>2. ASSUME NEW q \in Path, path \o q \in DOMAIN s PROVE q \in DOMAIN t
    <3>1. IsPrefix(path, path \o q) /\ q = SubSeq(path \o q, Len(path) + 1, Len(path \o q))
        BY <1>1, JoinedPath
    <3> QED
        BY <2>2, <3>1 DEF Part
  <2> HIDE DEF t
  <2> QED
      BY <2>1, <2>2
<1>3. \A q \in DOMAIN t : t[q] = s[path \o q]
    BY DEF Part
<1>4. ASSUME NEW p \in DOMAIN s, IsPrefix(path, p) PROVE \E q \in DOMAIN t : p = path \o q
  <2>1. /\ SubSeq(p, Len(path) + 1, Len(p)) \in Path
        /\ p = path \o SubSeq(p, Len(path) + 1, Len(p))
      BY <1>1, <1>4, Rest
  <2> HIDE DEF t
  <2> QED
      BY <1>2, <2>1
<1>5. IsSchema(t)
  <2> HIDE DEF t
  <2>1. <<>> \in DOMAIN t /\ DOMAIN t \subseteq Path
      BY <1>1, <1>2, ConcatEmptySeq, EmptySeq DEF Path
  <2>2. \A q \in DOMAIN t : t[q].properties \in BOOLEAN
      BY <1>2, <1>3, SchemaPaths
  <2>3. ASSUME NEW q \in DOMAIN t, NEW r \in Path, IsStrictPrefix(r, q)
        PROVE  r \in DOMAIN t /\ t[r].properties
    <3>1. path \o r \in Path /\ IsStrictPrefix(path \o r, path \o q)
        BY <1>1, <2>1, <2>3, JoinedBelow
    <3>2. path \o q \in DOMAIN s /\ IsPrefix(path \o r, path \o q)
        BY <1>2, <3>1 DEF IsStrictPrefix
    <3>3. path \o r \in DOMAIN s /\ s[path \o r].properties
        BY <3>1, <3>2, SchemaPaths
    <3> QED
        BY <1>2, <1>3, <3>3
  <2> QED
      BY <2>1, <2>2, <2>3, SchemaFromPaths
<1> QED
    BY <1>2, <1>3, <1>4, <1>5

------------------------------------------------------------------------------
(* One parameter is reused. *)

\* What the assumption says of one community schema.
CommunityOK(c) ==
    /\ IsSchema(c.tree)
    /\ \A n \in DOMAIN c.definitions : IsSchema(c.definitions[n])
    /\ \A p \in DOMAIN c.tree : c.tree[p].ref \in {NoRef} \cup DOMAIN c.definitions

\* What is copied for a parameter is a schema that has everything the community
\* schema has below the parameter.
LEMMA InlinedSchema ==
    ASSUME NEW c, CommunityOK(c), NEW path \in DOMAIN c.tree
    PROVE  /\ IsSchema(Inlined(c, path))
           /\ \A q \in DOMAIN Inlined(c, path) :
                path \o q \in DOMAIN c.tree /\ c.tree[path \o q].properties
                    => Inlined(c, path)[q].properties
           /\ \A p \in DOMAIN c.tree : IsPrefix(path, p) =>
                \E q \in DOMAIN Inlined(c, path) : p = path \o q
<1> DEFINE e == c.tree[path]
<1>1. path \in Path /\ IsSchema(c.tree)
    BY SchemaPaths DEF CommunityOK
<1>2. CASE ~OnlyRef(e)
  <2>1. Inlined(c, path) = Part(c.tree, path)
      BY <1>2 DEF Inlined
  <2>2. /\ IsSchema(Part(c.tree, path))
        /\ \A q \in DOMAIN Part(c.tree, path) : Part(c.tree, path)[q] = c.tree[path \o q]
        /\ \A p \in DOMAIN c.tree : IsPrefix(path, p) =>
                \E q \in DOMAIN Part(c.tree, path) : p = path \o q
      BY <1>1, PartOfSchema
  <2> QED
      BY <2>1, <2>2
<1>3. CASE OnlyRef(e)
  <2> DEFINE definition == c.definitions[e.ref]
             copy == Inlined(c, path)
  <2>1. IsSchema(definition) /\ ~e.properties
      BY <1>3 DEF CommunityOK, OnlyRef
  <2>2. /\ DOMAIN copy = DOMAIN definition
        /\ \A q \in DOMAIN copy : copy[q].properties = definition[q].properties
      BY <1>3 DEF Inlined, WithDefault, Element
  <2> HIDE DEF copy, definition, e
  <2>3. IsSchema(copy)
    <3>1. /\ DOMAIN definition \subseteq Path /\ <<>> \in DOMAIN definition
          /\ \A q \in DOMAIN definition : definition[q].properties \in BOOLEAN
          /\ \A q \in DOMAIN definition, r \in Path : IsPrefix(r, q) => r \in DOMAIN definition
          /\ \A q \in DOMAIN definition, r \in Path : IsStrictPrefix(r, q) => definition[r].properties
        BY <2>1, SchemaPaths
    <3>2. \A q \in DOMAIN copy, r \in Path : IsStrictPrefix(r, q) => r \in DOMAIN copy /\ copy[r].properties
        BY <2>2, <3>1 DEF IsStrictPrefix
    <3> QED
        BY <2>2, <3>1, <3>2, SchemaFromPaths
  <2>4. ASSUME NEW p \in DOMAIN c.tree, IsPrefix(path, p) PROVE p = path
      BY <1>1, <2>1, <2>4, SchemaPaths DEF IsStrictPrefix, e
  <2>5. <<>> \in DOMAIN copy /\ path = path \o <<>>
      BY <1>1, <2>3, SchemaPaths, ConcatEmptySeq DEF Path
  <2>6. ASSUME NEW q \in DOMAIN copy, path \o q \in DOMAIN c.tree, c.tree[path \o q].properties
        PROVE  copy[q].properties
    <3>1. q \in Path
        BY <2>3, SchemaPaths
    <3>2. path \o q = path
        BY <1>1, <2>4, <2>6, <3>1, JoinedPath
    <3> QED
        BY <2>1, <2>6, <3>2 DEF e
  <2> QED
      BY <2>3, <2>4, <2>5, <2>6 DEF copy
<1> QED
    BY <1>2, <1>3

\* The elements of the schema after one more parameter.
Elements(own, c, path) ==
    DOMAIN own
    \cup {SubSeq(path, 1, n) : n \in 0..(Len(path) - 1)}
    \cup IF path \in DOMAIN own THEN {} ELSE {path \o q : q \in DOMAIN Inlined(c, path)}

\* Where an element comes from that was not there before.
FromCommunity(own, c, path, p, element) ==
    \/ IsStrictPrefix(p, path) /\ p \in DOMAIN c.tree /\ element = c.tree[p]
    \/ \E q \in DOMAIN Inlined(c, path) :
        path \notin DOMAIN own /\ p = path \o q /\ element = Inlined(c, path)[q]

\* The elements of the schema after one parameter, and where they come from.
LEMMA ReuseElements ==
    ASSUME NEW c, CommunityOK(c), NEW path \in DOMAIN c.tree, NEW own, IsSchema(own),
           NEW new, new = Reuse1(own, c, path)
    PROVE  /\ DOMAIN new = Elements(own, c, path)
           /\ \A p \in DOMAIN own : new[p] = own[p]
           /\ \A p \in DOMAIN new \ DOMAIN own : FromCommunity(own, c, path, p, new[p])
<1> DEFINE copy == IF path \in DOMAIN own THEN Nothing ELSE Inlined(c, path)
           onTheWay == {SubSeq(path, 1, n) : n \in 0..(Len(path) - 1)}
<1>1. path \in Path /\ IsSchema(c.tree) /\ Len(path) \in Nat
    BY SchemaPaths, PathBasics DEF CommunityOK
<1>2. DOMAIN copy = IF path \in DOMAIN own THEN {} ELSE DOMAIN Inlined(c, path)
    BY DEF Nothing
<1>3. /\ DOMAIN new = DOMAIN own \cup onTheWay \cup {path \o q : q \in DOMAIN copy}
      /\ \A p \in DOMAIN new : new[p] =
            CASE p \in DOMAIN own -> own[p]
              [] p \in onTheWay \ DOMAIN own -> c.tree[p]
              [] OTHER -> copy[SubSeq(p, Len(path) + 1, Len(p))]
    BY DEF Reuse1
<1>4. DOMAIN new = Elements(own, c, path)
    BY <1>2, <1>3 DEF Elements
<1>5. \A p \in DOMAIN own : new[p] = own[p]
    BY <1>3
<1>6. ASSUME NEW p \in onTheWay \ DOMAIN own
      PROVE  IsStrictPrefix(p, path) /\ p \in DOMAIN c.tree /\ new[p] = c.tree[p]
  <2>1. PICK n \in 0..(Len(path) - 1) : p = SubSeq(path, 1, n)
      OBVIOUS
  <2>2. p \in Path /\ Len(p) < Len(path) /\ IsPrefix(p, path)
      BY <1>1, <2>1, CutPath, CutIsPrefix
  <2>3. IsStrictPrefix(p, path) /\ p \in DOMAIN c.tree
      BY <1>1, <2>2, SchemaPaths DEF IsStrictPrefix
  <2>4. new[p] = c.tree[p]
      BY <1>3
  <2> QED
      BY <2>3, <2>4
<1>7. ASSUME NEW p \in DOMAIN new \ DOMAIN own, p \notin onTheWay
      PROVE  \E q \in DOMAIN Inlined(c, path) :
                path \notin DOMAIN own /\ p = path \o q /\ new[p] = Inlined(c, path)[q]
  <2>1. path \notin DOMAIN own /\ copy = Inlined(c, path)
      BY <1>2, <1>3, <1>7
  <2>2. PICK q \in DOMAIN copy : p = path \o q
      BY <1>3, <1>7
  <2>3. new[p] = copy[SubSeq(p, Len(path) + 1, Len(p))]
      BY <1>3, <1>7
  <2> HIDE DEF copy
  <2>4. q \in Path
      BY <2>1, <2>2, InlinedSchema, SchemaPaths
  <2>5. SubSeq(p, Len(path) + 1, Len(p)) = q
      BY <1>1, <2>2, <2>4, JoinedPath
  <2> QED
      BY <2>1, <2>2, <2>3, <2>5
<1> QED
    BY <1>4, <1>5, <1>6, <1>7 DEF FromCommunity

------------------------------------------------------------------------------
(* The schema while parameters are reused; the next one is number n. *)

LikeCommunity(c, own) ==
    \A p \in DOMAIN own \cap DOMAIN c.tree : c.tree[p].properties => own[p].properties
Explained(kept, own, n) ==
    \A p \in DOMAIN own : p # <<>> => \E j \in 1..(n - 1) : Overlap(kept[j], p)
\* Nothing is missing below an element, unless it is on the way to a parameter.
Complete(c, kept, own, n) ==
    \A p \in DOMAIN own \cap DOMAIN c.tree : p # <<>> =>
        \/ \E j \in 1..(n - 1) : IsStrictPrefix(p, kept[j])
        \/ \A x \in DOMAIN c.tree : IsPrefix(p, x) => x \in DOMAIN own
Kept(c, kept, own, n) ==
    /\ \A i \in 1..(n - 1) : Promised(c, kept, i) \subseteq DOMAIN own
    /\ \A p \in DOMAIN own : p # <<>> => Selected(kept, n - 1, p)
Reusing(c, kept, own, n) ==
    IsSchema(own) /\ LikeCommunity(c, own) /\ Explained(kept, own, n)
    /\ Complete(c, kept, own, n) /\ Kept(c, kept, own, n)

\* Reusing one more parameter keeps all of this.
LEMMA ReuseOne ==
    ASSUME NEW c, CommunityOK(c), NEW kept \in Seq(Path \ {<<>>}), NEW n \in 1..Len(kept),
           NEW own, Reusing(c, kept, own, n), kept[n] \in DOMAIN c.tree
    PROVE  Reusing(c, kept, Reuse1(own, c, kept[n]), n + 1)
<1> DEFINE path == kept[n]
           new == Reuse1(own, c, path)
           copy == Inlined(c, path)
<1>1. /\ path \in Path /\ path # <<>> /\ path \in DOMAIN c.tree
      /\ IsSchema(c.tree) /\ IsSchema(own) /\ n \in Nat
    BY ElementOfSeq, LenProperties DEF CommunityOK, Reusing
<1>2. new = Reuse1(own, c, path) /\ DOMAIN own \subseteq Elements(own, c, path)
    BY DEF Elements
<1> HIDE DEF path, new, copy
<1>3. /\ DOMAIN new = Elements(own, c, path) /\ DOMAIN own \subseteq DOMAIN new
      /\ \A p \in DOMAIN own : new[p] = own[p]
      /\ \A p \in DOMAIN new \ DOMAIN own :
            \/ IsStrictPrefix(p, path) /\ p \in DOMAIN c.tree /\ new[p] = c.tree[p]
            \/ \E q \in DOMAIN copy : path \notin DOMAIN own /\ p = path \o q /\ new[p] = copy[q]
  <2>1. DOMAIN new = Elements(own, c, path)
      BY <1>2, <1>1, ReuseElements
  <2>2. \A p \in DOMAIN own : new[p] = own[p]
      BY <1>2, <1>1, ReuseElements
  <2>3. \A p \in DOMAIN new \ DOMAIN own :
            \/ IsStrictPrefix(p, path) /\ p \in DOMAIN c.tree /\ new[p] = c.tree[p]
            \/ \E q \in DOMAIN copy : path \notin DOMAIN own /\ p = path \o q /\ new[p] = copy[q]
    <3>1. \A p \in DOMAIN new \ DOMAIN own : FromCommunity(own, c, path, p, new[p])
        BY <1>2, <1>1, ReuseElements
    <3> QED
        BY <3>1 DEF FromCommunity, copy
  <2> QED
      BY <1>2, <2>1, <2>2, <2>3
<1>4. /\ IsSchema(copy)
      /\ \A q \in DOMAIN copy :
            path \o q \in DOMAIN c.tree /\ c.tree[path \o q].properties
                => copy[q].properties
      /\ \A p \in DOMAIN c.tree : IsPrefix(path, p) => \E q \in DOMAIN copy : p = path \o q
    BY <1>1, InlinedSchema DEF copy
<1>5. /\ DOMAIN own \subseteq Path /\ DOMAIN c.tree \subseteq Path /\ DOMAIN copy \subseteq Path
      /\ \A q \in DOMAIN copy, r \in Path : IsStrictPrefix(r, q) => r \in DOMAIN copy /\ copy[r].properties
    BY <1>1, <1>4, SchemaPaths DEF IsStrictPrefix
<1>6. \A q \in DOMAIN copy :
        /\ path \o q \in Path /\ IsPrefix(path, path \o q) /\ ~IsStrictPrefix(path \o q, path)
        /\ \A r \in DOMAIN copy : path \o q = path \o r => q = r
    BY <1>1, <1>5, JoinedPath, JoinedBelow
<1>7. path \notin DOMAIN own => \A q \in DOMAIN copy : path \o q \in DOMAIN new
    BY <1>3 DEF Elements, copy
<1>8. \A r \in Path : IsStrictPrefix(r, path) => r \in DOMAIN new
  <2> SUFFICES ASSUME NEW r \in Path, IsStrictPrefix(r, path) PROVE r \in DOMAIN new
      OBVIOUS
  <2>1. Len(r) \in 0..(Len(path) - 1) /\ r = SubSeq(path, 1, Len(r))
      BY <1>1, PrefixIsCut, PrefixOrder, PathBasics DEF IsStrictPrefix
  <2> QED
      BY <1>3, <2>1 DEF Elements
<1>9. DOMAIN new \subseteq Path
  <2> SUFFICES ASSUME NEW p \in DOMAIN new, p \notin DOMAIN own PROVE p \in Path
      BY <1>5
  <2>1. CASE IsStrictPrefix(p, path) /\ p \in DOMAIN c.tree
      BY <1>5, <2>1
  <2>2. CASE \E q \in DOMAIN copy : p = path \o q
      BY <1>6, <2>2
  <2> QED
      BY <1>3, <2>1, <2>2
<1>10. path \in DOMAIN new
  <2>1. <<>> \in DOMAIN copy /\ path \o <<>> = path
      BY <1>1, <1>4, SchemaPaths, ConcatEmptySeq DEF Path
  <2> QED
      BY <1>3, <1>7, <2>1
<1>11. \A r \in Path : IsStrictPrefix(r, path) => new[r].properties
  <2> SUFFICES ASSUME NEW r \in Path, IsStrictPrefix(r, path) PROVE new[r].properties
      OBVIOUS
  <2>1. r \in DOMAIN new /\ r \in DOMAIN c.tree /\ c.tree[r].properties
      BY <1>1, <1>8, SchemaPaths DEF IsStrictPrefix
  <2>2. CASE r \in DOMAIN own
      BY <1>3, <2>1, <2>2 DEF Reusing, LikeCommunity
  <2>3. CASE r \notin DOMAIN own
    <3>1. ~\E q \in DOMAIN copy : r = path \o q
        BY <1>6
    <3> QED
        BY <1>3, <2>1, <2>3, <3>1
  <2> QED
      BY <2>2, <2>3
<1>12. IsSchema(new)
  <2>1. <<>> \in DOMAIN new
      BY <1>1, <1>3, SchemaPaths
  <2>2. ASSUME NEW p \in DOMAIN new PROVE new[p].properties \in BOOLEAN
    <3>1. /\ \A x \in DOMAIN own : own[x].properties \in BOOLEAN
          /\ \A x \in DOMAIN c.tree : c.tree[x].properties \in BOOLEAN
          /\ \A x \in DOMAIN copy : copy[x].properties \in BOOLEAN
        BY <1>1, <1>4, SchemaPaths
    <3> QED
        BY <1>3, <3>1
  <2>3. ASSUME NEW p \in DOMAIN new, NEW r \in Path, IsStrictPrefix(r, p)
        PROVE  r \in DOMAIN new /\ new[r].properties
    <3>1. CASE p \in DOMAIN own
        BY <1>1, <1>3, <2>3, <3>1, SchemaPaths DEF IsStrictPrefix
    <3>2. CASE IsStrictPrefix(p, path)
      <4>1. IsStrictPrefix(r, path)
          BY <1>1, <1>9, <2>3, <3>2, PrefixOrder, PathBasics
      <4> QED
          BY <1>8, <1>11, <4>1
    <3>3. CASE \E q \in DOMAIN copy : path \notin DOMAIN own /\ p = path \o q
      <4>1. PICK q \in DOMAIN copy : path \notin DOMAIN own /\ p = path \o q
          BY <3>3
      <4>2. q \in Path
          BY <1>4, SchemaPaths
      <4>3. CASE IsStrictPrefix(r, path)
          BY <1>8, <1>11, <4>3
      <4>4. CASE \E m \in 0..Len(q) : r = path \o SubSeq(q, 1, m)
        <5>1. PICK m \in 0..Len(q) : r = path \o SubSeq(q, 1, m)
            BY <4>4
        <5> DEFINE s == SubSeq(q, 1, m)
        <5>2. s \in Path
            BY <4>2, CutPath
        <5>3. IsStrictPrefix(s, q)
            BY <1>1, <2>3, <4>1, <4>2, <5>1, <5>2, JoinedBelow
        <5>4. s \in DOMAIN copy /\ copy[s].properties
            BY <1>5, <5>2, <5>3
        <5>5. r \in DOMAIN new
            BY <1>7, <4>1, <5>1, <5>4
        <5>6. r \notin DOMAIN own
          <6>1. IsPrefix(path, r)
              BY <1>6, <5>1, <5>4
          <6> QED
              BY <1>1, <4>1, <6>1, SchemaPaths
        <5>7. new[r] = copy[s]
          <6>1. ~IsStrictPrefix(r, path)
              BY <1>6, <5>1, <5>4
          <6>2. PICK t \in DOMAIN copy : r = path \o t /\ new[r] = copy[t]
              BY <1>3, <5>5, <5>6, <6>1
          <6> QED
              BY <1>6, <5>1, <5>4, <6>2
        <5> QED
            BY <5>4, <5>5, <5>7
      <4> QED
          BY <1>1, <2>3, <4>1, <4>2, <4>3, <4>4, CutJoined DEF IsStrictPrefix
    <3> QED
        BY <1>3, <3>1, <3>2, <3>3
  <2> QED
      BY <1>9, <2>1, <2>2, <2>3, SchemaFromPaths
<1>13. LikeCommunity(c, new)
  <2> SUFFICES ASSUME NEW p \in DOMAIN new, p \in DOMAIN c.tree, c.tree[p].properties
               PROVE  new[p].properties
      BY DEF LikeCommunity
  <2>1. CASE p \in DOMAIN own
      BY <1>3, <2>1 DEF Reusing, LikeCommunity
  <2>2. CASE p \notin DOMAIN own
      BY <1>3, <1>4, <2>2
  <2> QED
      BY <2>1, <2>2
<1>14. Explained(kept, new, n + 1)
  <2> SUFFICES ASSUME NEW p \in DOMAIN new, p # <<>>
               PROVE  \E j \in 1..((n + 1) - 1) : Overlap(kept[j], p)
      BY DEF Explained
  <2>1. CASE p \in DOMAIN own
    <3>1. PICK j \in 1..(n - 1) : Overlap(kept[j], p)
        BY <2>1 DEF Reusing, Explained
    <3> QED
        BY <1>1, <3>1
  <2>2. CASE p \notin DOMAIN own
    <3>2. Overlap(path, p)
      <4>1. IsStrictPrefix(p, path) => Overlap(path, p)
          BY DEF Overlap, IsStrictPrefix
      <4>2. (\E q \in DOMAIN copy : p = path \o q) => Overlap(path, p)
          BY <1>6 DEF Overlap
      <4> QED
          BY <1>3, <2>2, <4>1, <4>2
    <3>3. n \in 1..((n + 1) - 1)
        BY <1>1
    <3> QED
        BY <3>2, <3>3 DEF path
  <2> QED
      BY <2>1, <2>2
<1>15. ASSUME path \notin DOMAIN own, NEW x \in DOMAIN c.tree, IsPrefix(path, x) PROVE x \in DOMAIN new
    BY <1>4, <1>7, <1>15
<1>16. Complete(c, kept, new, n + 1)
  <2> SUFFICES ASSUME NEW p \in DOMAIN new, p \in DOMAIN c.tree, p # <<>>
               PROVE  \/ \E j \in 1..((n + 1) - 1) : IsStrictPrefix(p, kept[j])
                      \/ \A x \in DOMAIN c.tree : IsPrefix(p, x) => x \in DOMAIN new
      BY DEF Complete
  <2>1. CASE p \in DOMAIN own
    <3>1. \/ \E j \in 1..(n - 1) : IsStrictPrefix(p, kept[j])
          \/ \A x \in DOMAIN c.tree : IsPrefix(p, x) => x \in DOMAIN own
        BY <2>1 DEF Reusing, Complete
    <3> QED
        BY <1>1, <1>3, <3>1
  <2>2. CASE IsStrictPrefix(p, path)
    <3>1. n \in 1..((n + 1) - 1)
        BY <1>1
    <3> QED
        BY <2>2, <3>1 DEF path
  <2>3. CASE path \notin DOMAIN own /\ \E q \in DOMAIN copy : p = path \o q
    <3>2. IsPrefix(path, p)
        BY <1>6, <2>3
    <3>3. \A x \in DOMAIN c.tree : IsPrefix(p, x) => IsPrefix(path, x)
        BY <1>1, <1>9, <1>5, <3>2, PrefixOrder
    <3> QED
        BY <1>15, <2>3, <3>3
  <2> QED
      BY <1>3, <2>1, <2>2, <2>3
<1>17. Promised(c, kept, n) \subseteq DOMAIN new
  <2>1. ASSUME NEW p \in DOMAIN c.tree, IsPrefix(path, p), CopiedWhole(kept, n)
        PROVE  p \in DOMAIN new
    <3>1. CASE path \in DOMAIN own
      <4>1. \A x \in DOMAIN c.tree : IsPrefix(path, x) => x \in DOMAIN own
          BY <1>1, <2>1, <3>1 DEF Reusing, Complete, CopiedWhole, path
      <4> QED
          BY <1>3, <2>1, <4>1
    <3> QED
        BY <1>15, <2>1, <3>1
  <2>2. ASSUME NEW q \in DOMAIN copy, ~\E j \in 1..(n - 1) : Overlap(path, kept[j])
        PROVE  path \o q \in DOMAIN new
    <3>1. path \notin DOMAIN own
        BY <1>1, <2>2 DEF Reusing, Explained, Overlap
    <3> QED
        BY <1>7, <3>1
  <2>3. ASSUME NEW p \in DOMAIN c.tree, IsPrefix(p, path) PROVE p \in DOMAIN new
    <3>1. CASE p = path
      <4>1. IsPrefix(path, path)
          BY <1>1, PrefixOrder
      <4>2. CASE path \in DOMAIN own
          BY <1>3, <3>1, <4>2
      <4>3. CASE path \notin DOMAIN own
          BY <1>1, <1>15, <3>1, <4>1, <4>3
      <4> QED
          BY <4>2, <4>3
    <3>2. CASE p # path
        BY <1>5, <1>8, <2>3, <3>2 DEF IsStrictPrefix
    <3> QED
        BY <3>1, <3>2
  <2> QED
      BY <2>1, <2>2, <2>3 DEF Promised, path, copy
<1>18. ASSUME NEW p \in DOMAIN new, p # <<>> PROVE Selected(kept, n, p)
  <2>1. CASE p \in DOMAIN own
    <3>1. Selected(kept, n - 1, p)
        BY <1>18, <2>1 DEF Reusing, Kept
    <3> QED
        BY <1>1, <3>1 DEF Selected
  <2>2. CASE IsStrictPrefix(p, path)
    <3>1. n \in 1..n /\ IsPrefix(p, kept[n])
        BY <1>1, <2>2 DEF IsStrictPrefix, path
    <3> QED
        BY <3>1 DEF Selected
  <2>3. CASE path \notin DOMAIN own /\ \E q \in DOMAIN copy : p = path \o q
    <3>1. n \in 1..n /\ IsPrefix(kept[n], p)
        BY <1>1, <1>6, <2>3 DEF path
    <3>2. ASSUME NEW j \in 1..(n - 1), IsStrictPrefix(path, kept[j]) PROVE FALSE
      <4>1. path \in Promised(c, kept, j)
          BY <1>1, <3>2 DEF Promised, IsStrictPrefix
      <4> QED
          BY <2>3, <4>1, <3>2 DEF Reusing, Kept
    <3>3. CopiedWhole(kept, n)
        BY <3>2 DEF CopiedWhole, path
    <3> QED
        BY <3>1, <3>3 DEF Selected
  <2> QED
      BY <1>3, <2>1, <2>2, <2>3
<1>19. Kept(c, kept, new, n + 1)
  <2>1. ASSUME NEW i \in 1..((n + 1) - 1) PROVE Promised(c, kept, i) \subseteq DOMAIN new
    <3>1. CASE i = n
        BY <1>17, <3>1
    <3>2. CASE i # n
      <4>1. i \in 1..(n - 1)
          BY <1>1, <3>2
      <4> QED
          BY <1>3, <4>1 DEF Reusing, Kept
    <3> QED
        BY <3>1, <3>2
  <2>2. (n + 1) - 1 = n
      BY <1>1
  <2> QED
      BY <1>18, <2>1, <2>2 DEF Kept
<1> QED
    BY <1>12, <1>13, <1>14, <1>16, <1>19 DEF Reusing, new, path

------------------------------------------------------------------------------
(* Defaults, and the merge with the additional schema. *)

\* The outermost defaults in terms of prefixes.
LEMMA OutermostPaths ==
    ASSUME NEW s, DOMAIN s \subseteq Path, NEW path \in Path, NEW p
    PROVE  p \in Outermost(s, path) <=>
            /\ p \in DOMAIN s /\ IsPrefix(path, p) /\ s[p].default # Nothing
            /\ \A r \in Path : IsPrefix(path, r) /\ IsStrictPrefix(r, p) => s[r].default = Nothing
<1>1. p \in Outermost(s, path) <=>
        p \in DOMAIN s /\ IsPrefix(path, p) /\ s[p].default # Nothing /\ NoDefaultAbove(s, path, p)
    BY DEF Outermost, Below
<1>2. ASSUME p \in Path, IsPrefix(path, p)
      PROVE  NoDefaultAbove(s, path, p) <=>
                \A r \in Path : IsPrefix(path, r) /\ IsStrictPrefix(r, p) => s[r].default = Nothing
  <2>1. ASSUME NoDefaultAbove(s, path, p), NEW r \in Path, IsPrefix(path, r), IsStrictPrefix(r, p)
        PROVE  s[r].default = Nothing
    <3>1. Len(r) \in Len(path)..(Len(p) - 1) /\ r = SubSeq(p, 1, Len(r))
        BY <1>2, <2>1, PrefixOrder, PrefixIsCut, PathBasics DEF IsStrictPrefix
    <3> QED
        BY <2>1, <3>1 DEF NoDefaultAbove
  <2>2. ASSUME \A r \in Path : IsPrefix(path, r) /\ IsStrictPrefix(r, p) => s[r].default = Nothing,
               NEW n \in Len(path)..(Len(p) - 1)
        PROVE  s[SubSeq(p, 1, n)].default = Nothing
    <3> DEFINE r == SubSeq(p, 1, n)
    <3>1. n \in 0..Len(p) /\ n < Len(p) /\ Len(path) <= n
        BY <1>2, PathBasics
    <3>2. r \in Path /\ Len(r) = n /\ IsPrefix(r, p)
        BY <1>2, <3>1, CutPath, CutIsPrefix
    <3>3. IsStrictPrefix(r, p)
        BY <1>2, <3>1, <3>2, PrefixOrder
    <3>4. IsPrefix(path, r)
      <4>1. \A i \in 1..Len(path) : path[i] = p[i]
          BY <1>2, PrefixElements
      <4>2. \A i \in 1..Len(path) : r[i] = p[i]
          BY <1>2, <3>1, CutPath, PathBasics
      <4> HIDE DEF r
      <4> QED
          BY <3>1, <3>2, <4>1, <4>2, PrefixElements
    <3> QED
        BY <2>2, <3>2, <3>3, <3>4
  <2> QED
      BY <2>1, <2>2 DEF NoDefaultAbove
<1> QED
    BY <1>1, <1>2

\* The parameters before number n have the defaults of the values.
DefaultsSet(values, kept, s, n) ==
    \A j \in 1..(n - 1) : \A p \in Outermost(s, kept[j]) \cap DOMAIN values :
        s[p].default = Part(values, p)

\* Updating one parameter gives it the defaults of the values, and the earlier ones
\* keep theirs.
LEMMA UpdateOne ==
    ASSUME NEW s, IsSchema(s), NEW values, NEW kept \in Seq(Path \ {<<>>}), NEW n \in 1..Len(kept),
           DefaultsSet(values, kept, s, n),
           NEW t, t = UpdateDefaults(s, values, kept[n])
    PROVE  /\ IsSchema(t) /\ DOMAIN t = DOMAIN s
           /\ DefaultsSet(values, kept, t, n + 1)
<1>1. /\ DOMAIN s \subseteq Path /\ n \in Nat
      /\ \A j \in 1..Len(kept) : kept[j] \in Path
    BY SchemaPaths, ElementOfSeq, LenProperties
<1>2. /\ DOMAIN t = DOMAIN s
      /\ \A p \in DOMAIN s :
            t[p] = IF p \in Outermost(s, kept[n]) \cap DOMAIN values
                   THEN WithDefault(s[p], Part(values, p)) ELSE s[p]
    BY DEF UpdateDefaults
<1>3. \A p \in DOMAIN s :
        /\ t[p].properties = s[p].properties
        /\ t[p].default = IF p \in Outermost(s, kept[n]) \cap DOMAIN values
                          THEN Part(values, p) ELSE s[p].default
  <2> SUFFICES ASSUME NEW p \in DOMAIN s
               PROVE  /\ t[p].properties = s[p].properties
                      /\ t[p].default = IF p \in Outermost(s, kept[n]) \cap DOMAIN values
                                        THEN Part(values, p) ELSE s[p].default
      OBVIOUS
  <2>1. CASE p \in Outermost(s, kept[n]) \cap DOMAIN values
    <3>1. t[p] = [properties |-> s[p].properties, default |-> Part(values, p), ref |-> s[p].ref]
        BY <1>2, <2>1 DEF WithDefault, Element
    <3> QED
        BY <2>1, <3>1
  <2>2. CASE p \notin Outermost(s, kept[n]) \cap DOMAIN values
      BY <1>2, <2>2
  <2> QED
      BY <2>1, <2>2
<1>4. ASSUME NEW p \in DOMAIN s, p \in DOMAIN values PROVE Part(values, p) # Nothing
  <2>1. p \in Path /\ IsPrefix(p, p)
      BY <1>1, PrefixOrder
  <2>2. SubSeq(p, Len(p) + 1, Len(p)) \in DOMAIN Part(values, p)
      BY <1>4, <2>1 DEF Part
  <2> QED
      BY <2>2 DEF Nothing
<1>5. \A p \in DOMAIN s : t[p].default = Nothing <=> s[p].default = Nothing
  <2> SUFFICES ASSUME NEW p \in DOMAIN s PROVE t[p].default = Nothing <=> s[p].default = Nothing
      OBVIOUS
  <2>1. CASE p \in Outermost(s, kept[n]) \cap DOMAIN values
      BY <1>3, <1>4, <2>1 DEF Outermost
  <2>2. CASE p \notin Outermost(s, kept[n]) \cap DOMAIN values
      BY <1>3, <2>2
  <2> QED
      BY <2>1, <2>2
<1>6. IsSchema(t)
  <2>1. /\ <<>> \in DOMAIN s
        /\ \A p \in DOMAIN s : s[p].properties \in BOOLEAN
        /\ \A p \in DOMAIN s, r \in Path : IsPrefix(r, p) => r \in DOMAIN s
        /\ \A p \in DOMAIN s, r \in Path : IsStrictPrefix(r, p) => s[r].properties
      BY SchemaPaths
  <2>2. \A p \in DOMAIN t, r \in Path : IsStrictPrefix(r, p) => r \in DOMAIN t /\ t[r].properties
      BY <1>2, <1>3, <2>1 DEF IsStrictPrefix
  <2> QED
      BY <1>1, <1>2, <1>3, <2>1, <2>2, SchemaFromPaths
<1>7. ASSUME NEW path \in Path, NEW p \in Outermost(t, path) PROVE p \in Outermost(s, path)
  <2>1. /\ p \in DOMAIN t /\ IsPrefix(path, p) /\ t[p].default # Nothing
        /\ \A r \in Path : IsPrefix(path, r) /\ IsStrictPrefix(r, p) => t[r].default = Nothing
      BY <1>1, <1>2, <1>7, OutermostPaths
  <2>2. \A r \in Path : IsStrictPrefix(r, p) => r \in DOMAIN s
      BY <1>1, <1>2, <2>1, SchemaPaths DEF IsStrictPrefix
  <2>3. \A r \in Path : IsPrefix(path, r) /\ IsStrictPrefix(r, p) => s[r].default = Nothing
      BY <1>5, <2>1, <2>2
  <2>4. p \in DOMAIN s /\ s[p].default # Nothing
      BY <1>2, <1>5, <2>1
  <2> QED
      BY <1>1, <2>1, <2>3, <2>4, OutermostPaths
<1>8. DefaultsSet(values, kept, t, n + 1)
  <2> SUFFICES ASSUME NEW j \in 1..((n + 1) - 1), NEW p \in Outermost(t, kept[j]), p \in DOMAIN values
               PROVE  t[p].default = Part(values, p)
      BY DEF DefaultsSet
  <2>1. kept[j] \in Path
    <3>1. j \in 1..Len(kept)
        BY <1>1, LenProperties
    <3> QED
        BY <1>1, <3>1
  <2>2. p \in Outermost(s, kept[j]) /\ p \in DOMAIN s
      BY <1>7, <2>1 DEF Outermost, Below
  <2>3. CASE p \in Outermost(s, kept[n])
      BY <1>3, <2>2, <2>3
  <2>4. CASE p \notin Outermost(s, kept[n])
    <3>1. j # n /\ j \in 1..(n - 1)
        BY <1>1, <2>2, <2>4
    <3>2. s[p].default = Part(values, p)
        BY <2>2, <3>1 DEF DefaultsSet
    <3> QED
        BY <1>3, <2>2, <2>4, <3>2
  <2> QED
      BY <2>3, <2>4
<1> QED
    BY <1>2, <1>6, <1>8

\* What is kept in a merge in terms of prefixes.
LEMMA KeptInMergePaths ==
    ASSUME NEW base, NEW a, NEW p \in Path
    PROVE  KeptInMerge(base, a, p) <=>
            \A r \in Path : IsPrefix(r, p) /\ r \in DOMAIN a => base[r].properties /\ a[r].properties
<1>1. ASSUME KeptInMerge(base, a, p), NEW r \in Path, IsPrefix(r, p), r \in DOMAIN a
      PROVE  base[r].properties /\ a[r].properties
  <2>1. Len(r) \in 0..Len(p) /\ r = SubSeq(p, 1, Len(r))
      BY <1>1, PrefixIsCut
  <2> QED
      BY <1>1, <2>1, Zenon DEF KeptInMerge
<1>2. ASSUME \A r \in Path : IsPrefix(r, p) /\ r \in DOMAIN a => base[r].properties /\ a[r].properties,
             NEW n \in 0..Len(p), SubSeq(p, 1, n) \in DOMAIN a
      PROVE  base[SubSeq(p, 1, n)].properties /\ a[SubSeq(p, 1, n)].properties
  <2>1. SubSeq(p, 1, n) \in Path /\ IsPrefix(SubSeq(p, 1, n), p)
      BY CutPath, CutIsPrefix
  <2> QED
      BY <1>2, <2>1
<1> QED
    BY <1>1, <1>2 DEF KeptInMerge

\* What the assumption says of one additional schema.
AdditionalOK(a) ==
    /\ IsSchema(a) /\ a[<<>>].properties
    /\ \A p \in DOMAIN a : a[p].properties => a[p].default = Nothing

\* A merge only loses what is replaced, and every default that is met first in
\* the result was met first in the schema that it comes from.
LEMMA Merged ==
    ASSUME NEW base, IsSchema(base), NEW a, AdditionalOK(a), NEW new, new = DeepMerge(base, a)
    PROVE  /\ \A p \in DOMAIN base : p \in DOMAIN new <=> ~Replaced(a, p)
           /\ DOMAIN new \ DOMAIN a \subseteq DOMAIN base
           /\ \A p \in Outermost(a, <<>>) : p \in DOMAIN new /\ new[p] = a[p]
           /\ \A path \in Path : \A p \in Outermost(new, path) :
                \/ p \in Outermost(base, path) /\ new[p] = base[p]
                \/ p \in Outermost(a, <<>>) /\ new[p] = a[p]
<1>1. /\ DOMAIN base \subseteq Path /\ DOMAIN a \subseteq Path /\ <<>> \in Path
      /\ \A p \in DOMAIN base, r \in Path : IsPrefix(r, p) => r \in DOMAIN base
      /\ \A p \in DOMAIN base, r \in Path : IsStrictPrefix(r, p) => base[r].properties
      /\ \A p \in DOMAIN a, r \in Path : IsPrefix(r, p) => r \in DOMAIN a
      /\ \A p \in DOMAIN a, r \in Path : IsStrictPrefix(r, p) => a[r].properties
    BY SchemaPaths DEF AdditionalOK
<1>2. /\ DOMAIN new = {p \in DOMAIN base : KeptInMerge(base, a, p)} \cup DOMAIN a
      /\ \A p \in DOMAIN new :
            new[p] = IF p \in DOMAIN base /\ KeptInMerge(base, a, p) THEN base[p] ELSE a[p]
    BY DEF DeepMerge
<1>3. ASSUME NEW p \in DOMAIN base, ~Replaced(a, p), p \notin DOMAIN a PROVE p \in DOMAIN new
  <2>1. ASSUME NEW r \in Path, IsPrefix(r, p), r \in DOMAIN a PROVE base[r].properties /\ a[r].properties
    <3>1. IsStrictPrefix(r, p)
        BY <1>3, <2>1 DEF IsStrictPrefix
    <3> QED
        BY <1>1, <1>3, <2>1, <3>1 DEF Replaced
  <2>2. KeptInMerge(base, a, p)
      BY <1>1, <2>1, KeptInMergePaths
  <2> QED
      BY <1>2, <2>2
<1>4. ASSUME NEW p \in DOMAIN a, a[p].default # Nothing
      PROVE  p \in Outermost(a, <<>>) /\ p \in DOMAIN new /\ new[p] = a[p]
  <2>1. ~a[p].properties /\ p \in Path
      BY <1>1, <1>4 DEF AdditionalOK
  <2>2. ~KeptInMerge(base, a, p)
      BY <2>1, KeptInMergePaths, PrefixOrder
  <2>3. \A r \in Path : IsPrefix(<<>>, r) /\ IsStrictPrefix(r, p) => a[r].default = Nothing
      BY <1>1 DEF AdditionalOK, IsStrictPrefix
  <2>4. IsPrefix(<<>>, p)
      BY <2>1, PrefixOrder
  <2>5. p \in Outermost(a, <<>>)
      BY <1>1, <1>4, <2>3, <2>4, OutermostPaths
  <2> QED
      BY <1>2, <2>2, <2>5
<1>5. ASSUME NEW path \in Path, NEW p \in Outermost(new, path)
      PROVE  \/ p \in Outermost(base, path) /\ new[p] = base[p]
             \/ p \in Outermost(a, <<>>) /\ new[p] = a[p]
  <2>1. /\ p \in DOMAIN new /\ IsPrefix(path, p) /\ new[p].default # Nothing
        /\ \A r \in Path : IsPrefix(path, r) /\ IsStrictPrefix(r, p) => new[r].default = Nothing
      BY <1>1, <1>2, <1>5, OutermostPaths
  <2>2. CASE p \in DOMAIN base /\ KeptInMerge(base, a, p)
    <3>1. new[p] = base[p]
        BY <1>2, <2>1, <2>2
    <3>2. ASSUME NEW r \in Path, IsPrefix(path, r), IsStrictPrefix(r, p) PROVE base[r].default = Nothing
      <4>1. r \in DOMAIN base /\ IsPrefix(r, p)
          BY <1>1, <2>2, <3>2 DEF IsStrictPrefix
      <4>2. \A x \in Path : IsPrefix(x, r) => IsPrefix(x, p)
          BY <1>1, <2>2, <4>1, PrefixOrder
      <4>3. KeptInMerge(base, a, r)
          BY <1>1, <2>2, <4>2, KeptInMergePaths
      <4>4. new[r] = base[r]
          BY <1>2, <4>1, <4>3
      <4> QED
          BY <2>1, <3>2, <4>4
    <3>3. p \in Outermost(base, path)
        BY <1>1, <2>1, <2>2, <3>1, <3>2, OutermostPaths
    <3> QED
        BY <3>1, <3>3
  <2>3. CASE ~(p \in DOMAIN base /\ KeptInMerge(base, a, p))
    <3>1. p \in DOMAIN a /\ new[p] = a[p]
        BY <1>2, <2>1, <2>3
    <3> QED
        BY <1>4, <2>1, <3>1
  <2> QED
      BY <2>2, <2>3
<1>6. \A p \in Outermost(a, <<>>) : p \in DOMAIN new /\ new[p] = a[p]
    BY <1>4 DEF Outermost, Below
<1>7. ASSUME NEW p \in DOMAIN base, Replaced(a, p) PROVE p \notin DOMAIN new
  <2>1. PICK r \in DOMAIN a : IsStrictPrefix(r, p) /\ ~a[r].properties
      BY <1>7 DEF Replaced
  <2>2. r \in Path /\ p \in Path /\ IsPrefix(r, p)
      BY <1>1, <2>1 DEF IsStrictPrefix
  <2>3. ~KeptInMerge(base, a, p)
      BY <2>1, <2>2, KeptInMergePaths
  <2>4. p \notin DOMAIN a
      BY <1>1, <2>1, <2>2
  <2> QED
      BY <1>2, <2>3, <2>4
<1>8. \A p \in DOMAIN base : p \in DOMAIN new <=> ~Replaced(a, p)
    BY <1>2, <1>3, <1>7
<1>9. DOMAIN new \ DOMAIN a \subseteq DOMAIN base
    BY <1>2
<1> QED
    BY <1>5, <1>6, <1>8, <1>9

------------------------------------------------------------------------------
(* Image tags. *)

\* The highest of some indices.
LEMMA LastIndex ==
    ASSUME NEW n \in Nat, NEW S, S \subseteq 1..n, S # {}
    PROVE  \E i \in S : \A j \in S : j <= i
<1> DEFINE R == {ss \in Nat \X Nat : ss[1] < ss[2]}
           T == {n - i : i \in S}
<1>1. T \subseteq Nat /\ T # {}
  <2>1. \A i \in S : n - i \in Nat
      OBVIOUS
  <2> QED
      BY <2>1
<1>2. IsWellFoundedOn(R, Nat)
    BY NatLessThanWellFounded, Zenon DEF OpToRel
<1>3. PICK x \in T : \A y \in T : ~(<<y, x>> \in R)
  <2> HIDE DEF R, T
  <2> QED
      BY <1>1, <1>2, WFMin
<1>4. \A y \in T : x <= y
  <2> SUFFICES ASSUME NEW y \in T PROVE x <= y
      OBVIOUS
  <2>1. x \in Nat /\ y \in Nat
      BY <1>1
  <2>2. ~(y < x)
      BY <1>3, <2>1
  <2> QED
      BY <2>1, <2>2
<1>5. PICK i \in S : x = n - i
    OBVIOUS
<1>6. ASSUME NEW j \in S PROVE j <= i
  <2>1. n - i <= n - j /\ i \in 1..n /\ j \in 1..n
      BY <1>4, <1>5
  <2> QED
      BY <2>1
<1> QED
    BY <1>6

\* What the assumption says of one release.
ReleaseOK(pairs) == Len(pairs) \in Nat /\ DOMAIN pairs = 1..Len(pairs)

\* The last entry of a name is the one that counts.
LEMMA ParsedRelease ==
    ASSUME NEW pairs, ReleaseOK(pairs)
    PROVE  /\ \A name : name \in DOMAIN ParseReleaseImages(pairs) <=>
                \E i \in DOMAIN pairs : pairs[i][1] = name
           /\ \A name \in DOMAIN ParseReleaseImages(pairs) : \E i \in DOMAIN pairs :
                /\ pairs[i][1] = name /\ ParseReleaseImages(pairs)[name] = pairs[i][2]
                /\ \A j \in DOMAIN pairs : j > i => pairs[j][1] # name
<1> DEFINE versions == ParseReleaseImages(pairs)
           LastOf(name, i) == /\ pairs[i][1] = name
                              /\ \A j \in DOMAIN pairs : j > i => pairs[j][1] # name
<1>1. /\ DOMAIN versions = {pairs[i][1] : i \in DOMAIN pairs}
      /\ \A name \in DOMAIN versions :
            versions[name] = pairs[CHOOSE i \in DOMAIN pairs : LastOf(name, i)][2]
    BY DEF ParseReleaseImages
<1> HIDE DEF versions
<1>2. ASSUME NEW name \in DOMAIN versions PROVE \E i \in DOMAIN pairs : LastOf(name, i)
  <2> DEFINE S == {i \in DOMAIN pairs : pairs[i][1] = name}
  <2>1. S # {} /\ S \subseteq 1..Len(pairs) /\ Len(pairs) \in Nat
      BY <1>1 DEF ReleaseOK
  <2>2. PICK i \in S : \A j \in S : j <= i
    <3> HIDE DEF S
    <3> QED
        BY <2>1, LastIndex
  <2>3. \A j \in DOMAIN pairs : j > i => pairs[j][1] # name
    <3> SUFFICES ASSUME NEW j \in DOMAIN pairs, j > i, pairs[j][1] = name PROVE FALSE
        OBVIOUS
    <3>1. j \in S
        OBVIOUS
    <3>2. j <= i /\ i \in 1..Len(pairs) /\ j \in 1..Len(pairs)
        BY <2>1, <2>2, <3>1
    <3> QED
        BY <3>2, <2>1
  <2> QED
      BY <2>2, <2>3
<1>3. ASSUME NEW name \in DOMAIN versions
      PROVE  \E i \in DOMAIN pairs : LastOf(name, i) /\ versions[name] = pairs[i][2]
  <2> DEFINE i == CHOOSE i \in DOMAIN pairs : LastOf(name, i)
  <2>1. i \in DOMAIN pairs /\ LastOf(name, i)
      BY <1>2
  <2> QED
      BY <1>1, <2>1
<1>4. \A name : name \in DOMAIN versions <=> \E i \in DOMAIN pairs : pairs[i][1] = name
    BY <1>1
<1> QED
    BY <1>3, <1>4 DEF versions

\* A reference carries the tag of the last of its names that is released.
CarriesTag(r, versions) ==
    LET found == {m \in DOMAIN r.names : r.names[m] \in DOMAIN versions} IN
    found # {} => \E m \in found : (\A k \in found : k <= m) /\ r.tag = Plain(versions[r.names[m]])

\* That is the tag that was released.
LEMMA TagOfRelease ==
    ASSUME NEW pairs, ReleaseOK(pairs), NEW r, DOMAIN r.names \subseteq Nat,
           CarriesTag(r, ParseReleaseImages(pairs)),
           NEW m \in DOMAIN r.names, NEW j \in DOMAIN pairs, pairs[j][1] = r.names[m]
    PROVE  CarriesRelease(r, pairs)
<1> DEFINE versions == ParseReleaseImages(pairs)
           found == {k \in DOMAIN r.names : r.names[k] \in DOMAIN versions}
<1>1. /\ \A name : name \in DOMAIN versions <=> \E i \in DOMAIN pairs : pairs[i][1] = name
      /\ \A name \in DOMAIN versions : \E i \in DOMAIN pairs :
            /\ pairs[i][1] = name /\ versions[name] = pairs[i][2]
            /\ \A l \in DOMAIN pairs : l > i => pairs[l][1] # name
    BY ParsedRelease
<1>2. PICK x \in found : (\A k \in found : k <= x) /\ r.tag = Plain(versions[r.names[x]])
  <2>1. m \in found
      BY <1>1
  <2> QED
      BY <2>1 DEF CarriesTag
<1> HIDE DEF versions
<1>3. PICK i \in DOMAIN pairs :
            /\ pairs[i][1] = r.names[x] /\ versions[r.names[x]] = pairs[i][2]
            /\ \A l \in DOMAIN pairs : l > i => pairs[l][1] # r.names[x]
    BY <1>1
<1>4. ASSUME NEW l \in DOMAIN pairs, NEW k \in DOMAIN r.names, k > x PROVE pairs[l][1] # r.names[k]
  <2>1. k \notin found /\ k \in Nat /\ x \in Nat
      BY <1>2, <1>4
  <2> QED
      BY <1>1, <2>1
<1> QED
    BY <1>2, <1>3, <1>4 DEF CarriesRelease

------------------------------------------------------------------------------
(* update_node *)

\* At most two names are tried for a tag.
LEMMA NamesTriedDomain ==
    ASSUME NEW d, NEW p
    PROVE  DOMAIN NamesTried(d, p) \subseteq 1..2
<1> DEFINE a == Field(d, p, "registry").value
           b == Field(d, p, "repository").value
           S == {a, b, a \o b}
<1>1. \A f \in {"registry", "repository"} : NameIn(d, p, f) \in Seq(S) /\ Len(NameIn(d, p, f)) <= 1
  <2>1. Field(d, p, "registry").value \in S /\ Field(d, p, "repository").value \in S
      OBVIOUS
  <2> HIDE DEF a, b, S
  <2>2. \A x \in S : <<x>> \in Seq(S) /\ Len(<<x>>) = 1
      OBVIOUS
  <2>3. <<>> \in Seq(S) /\ Len(<<>>) = 0
      BY EmptySeq
  <2> QED
      BY <2>1, <2>2, <2>3 DEF NameIn
<1>2. <<a \o b>> \in Seq(S) /\ Len(<<a \o b>>) = 1
    OBVIOUS
<1> HIDE DEF a, b, S
<1>3. /\ <<a \o b>> \o NameIn(d, p, "repository") \in Seq(S)
      /\ Len(<<a \o b>> \o NameIn(d, p, "repository")) <= 2
    BY <1>1, <1>2, ConcatProperties, LenProperties
<1>4. NamesTried(d, p) \in Seq(S) /\ Len(NamesTried(d, p)) <= 2
    BY <1>1, <1>3, EmptySeq DEF NamesTried, a, b
<1> QED
    BY <1>4, LenProperties

\* After update_node every reference carries the tag of its version: the fields
\* its names are read from are not changed.
LEMMA UpdatedTags ==
    ASSUME NEW d, IsDocument(d), NEW versions, NEW e, e = UpdateNode(d, versions)
    PROVE  \A r \in References(e) : DOMAIN r.names \subseteq Nat /\ CarriesTag(r, versions)
<1>1. /\ DOMAIN e = DOMAIN d /\ DOMAIN d \subseteq Path
      /\ \A q \in DOMAIN d :
            e[q] = IF q # <<>> /\ Last(q) = "tag" /\ Released(d, Front(q), versions) # {}
                   THEN Plain(NewTag(d, Front(q), versions))
                   ELSE IF d[q].kind = "image" /\ d[q].name \in DOMAIN versions
                   THEN Image(d[q].name, versions[d[q].name])
                   ELSE d[q]
    BY DEF UpdateNode, IsDocument, IsTree
<1>2. \A q \in DOMAIN d : q # <<>> /\ Last(q) \in {"registry", "repository", "tag"} =>
        d[q].kind \in {"plain", "null"}
    BY DEF IsDocument
<1>3. ASSUME NEW p \in DOMAIN d
      PROVE  e[p].kind = "map" <=> d[p].kind = "map"
  <2>1. CASE p # <<>> /\ Last(p) = "tag"
      BY <1>1, <1>2, <2>1 DEF Plain, Image
  <2>2. CASE ~(p # <<>> /\ Last(p) = "tag") /\ d[p].kind = "image" /\ d[p].name \in DOMAIN versions
      BY <1>1, <2>2 DEF Image
  <2>3. CASE ~(p # <<>> /\ Last(p) = "tag") /\ ~(d[p].kind = "image" /\ d[p].name \in DOMAIN versions)
      BY <1>1, <2>3
  <2> QED
      BY <2>1, <2>2, <2>3
<1>4. \A p \in DOMAIN d : \A f : HasField(e, p, f) <=> HasField(d, p, f)
    BY <1>1, <1>3 DEF HasField
<1>5. ASSUME NEW p \in DOMAIN d, NEW f \in {"registry", "repository"}, HasField(d, p, f)
      PROVE  Field(e, p, f) = Field(d, p, f)
  <2> DEFINE q == Append(p, f)
  <2>1. q \in DOMAIN d /\ q # <<>> /\ Last(q) = f
    <3>1. p \in Path
        BY <1>1
    <3>2. q \in DOMAIN d
        BY <1>5 DEF HasField
    <3> QED
        BY <3>1, <3>2, AppendedKey
  <2>2. d[q].kind # "image"
      BY <1>2, <2>1
  <2> HIDE DEF q
  <2>3. e[q] = d[q]
      BY <1>1, <2>1, <2>2
  <2> QED
      BY <2>3 DEF Field, q
<1>6. ASSUME NEW p \in DOMAIN d PROVE NamesTried(e, p) = NamesTried(d, p)
  <2>1. \A f \in {"registry", "repository", "tag"} : HasField(e, p, f) <=> HasField(d, p, f)
      BY <1>4
  <2>2. \A f \in {"registry", "repository"} : HasField(d, p, f) =>
            Field(e, p, f) = Field(d, p, f) /\ NameIn(e, p, f) = NameIn(d, p, f)
      BY <1>5 DEF NameIn
  <2> QED
      BY <2>1, <2>2, Zenon DEF NamesTried
<1>7. ASSUME NEW p \in DOMAIN d, NamesTried(d, p) # <<>>,
             NEW r, r = [names |-> NamesTried(d, p), tag |-> Field(e, p, "tag")]
      PROVE  CarriesTag(r, versions)
  <2> DEFINE found == Released(d, p, versions)
             q == Append(p, "tag")
  <2>1. CASE found = {}
      BY <1>7, <2>1 DEF CarriesTag, Released
  <2>2. CASE found # {}
    <3>1. q \in DOMAIN d /\ q # <<>> /\ Last(q) = "tag" /\ Front(q) = p
      <4>1. HasField(d, p, "tag")
          BY <1>7 DEF NamesTried
      <4>2. p \in Path /\ q \in DOMAIN d
          BY <1>1, <4>1 DEF HasField
      <4> QED
          BY <4>2, AppendedKey
    <3>2. e[q] = Plain(NewTag(d, p, versions))
      <4> HIDE DEF q
      <4> QED
          BY <1>1, <2>2, <3>1
    <3>3. \E m \in found : \A k \in found : k <= m
        BY <2>2, NamesTriedDomain, LastIndex DEF Released
    <3> DEFINE m == CHOOSE m \in found : \A k \in found : k <= m
    <3>4. m \in found /\ \A k \in found : k <= m
        BY <3>3
    <3>5. NewTag(d, p, versions) = versions[NamesTried(d, p)[m]]
        BY DEF NewTag
    <3>6. found = {k \in DOMAIN r.names : r.names[k] \in DOMAIN versions}
        BY <1>7 DEF Released
    <3>7. r.tag = Plain(versions[r.names[m]])
        BY <1>7, <3>2, <3>5 DEF Field
    <3> HIDE DEF m
    <3> QED
        BY <3>4, <3>6, <3>7 DEF CarriesTag
  <2> QED
      BY <2>1, <2>2
<1>8. ASSUME NEW p \in DOMAIN d, e[p].kind = "image",
             NEW r, r = [names |-> <<e[p].name>>, tag |-> Plain(e[p].tag)]
      PROVE  CarriesTag(r, versions)
  <2>1. DOMAIN r.names = {1} /\ r.names[1] = e[p].name /\ r.tag = Plain(e[p].tag)
      BY <1>8
  <2>2. d[p].kind = "image" /\ e[p].name = d[p].name
      BY <1>1, <1>8 DEF Plain, Image
  <2>3. d[p].name \in DOMAIN versions => e[p].tag = versions[d[p].name]
      BY <1>1, <1>8, <2>2 DEF Plain, Image
  <2>4. e[p].name \in DOMAIN versions => r.tag = Plain(versions[r.names[1]])
      BY <2>1, <2>2, <2>3
  <2> QED
      BY <2>1, <2>4 DEF CarriesTag
<1> SUFFICES ASSUME NEW r \in References(e) PROVE DOMAIN r.names \subseteq Nat /\ CarriesTag(r, versions)
    OBVIOUS
<1>9. CASE \E p \in DOMAIN e : NamesTried(e, p) # <<>> /\ r = [names |-> NamesTried(e, p), tag |-> Field(e, p, "tag")]
  <2>1. PICK p \in DOMAIN e : NamesTried(e, p) # <<>> /\ r = [names |-> NamesTried(e, p), tag |-> Field(e, p, "tag")]
      BY <1>9
  <2>2. r.names = NamesTried(e, p)
      BY <2>1
  <2> QED
      BY <1>1, <1>6, <1>7, <2>1, <2>2, NamesTriedDomain
<1>10. CASE \E p \in DOMAIN e : e[p].kind = "image" /\ r = [names |-> <<e[p].name>>, tag |-> Plain(e[p].tag)]
  <2>1. PICK p \in DOMAIN e : e[p].kind = "image" /\ r = [names |-> <<e[p].name>>, tag |-> Plain(e[p].tag)]
      BY <1>10
  <2>2. DOMAIN r.names = {1}
      BY <2>1
  <2> QED
      BY <1>1, <1>8, <2>1, <2>2
<1> QED
    BY <1>9, <1>10 DEF References

------------------------------------------------------------------------------
(* The inductive invariant. *)

InputOK ==
    /\ ReleaseOK(input.releases) /\ CommunityOK(input.community)
    /\ input.kept \in Seq(Path \ {<<>>}) /\ AdditionalOK(input.additional)

\* The documents that sync_util.py has been run for are up to date.
Files ==
    /\ synced \in 0..3 /\ DOMAIN files = 1..3
    /\ step = "sync" => synced < 3
    /\ step \notin {"sync", "failed"} => synced = 3
    /\ \A i \in (synced + 1)..3 : IsDocument(files[i])
    /\ step # "failed" => \A i \in 1..synced : UpToDate(files[i], input.releases)

\* The schema before it is merged.
Building ==
    LET kept == input.kept IN
    /\ next \in 1..(Len(kept) + 1)
    /\ step \in {"sync", "reuse"} => Reusing(input.community, kept, schema, next)
    /\ step \in {"update", "merge"} =>
        IsSchema(schema) /\ Kept(input.community, kept, schema, Len(kept) + 1)
    /\ step = "update" => DefaultsSet(files[1], kept, schema, next)
    /\ step = "merge" => DefaultsSet(files[1], kept, schema, Len(kept) + 1)

\* A default of the merged schema is either the value, or it was added.
MergedDefaults(values, kept, a, s) ==
    /\ \A i \in DOMAIN kept : \A p \in Outermost(s, kept[i]) \cap DOMAIN values :
        \/ s[p].default = Part(values, p)
        \/ p \in Outermost(a, <<>>) /\ s[p] = a[p]
    /\ \A p \in Outermost(a, <<>>) : p \in DOMAIN s /\ s[p] = a[p]
MergedElements(c, kept, a, s) ==
    /\ \A i \in DOMAIN kept : \A p \in Promised(c, kept, i) : p \in DOMAIN s <=> ~Replaced(a, p)
    /\ \A p \in DOMAIN s \ DOMAIN a : Selected(kept, Len(kept), p)

\* The schema after that, and what the validations have found.
Checking ==
    /\ step \in {"validate", "checkProperties", "checkDefaults", "published"} =>
        /\ MergedDefaults(files[1], input.kept, input.additional, schema)
        /\ MergedElements(input.community, input.kept, input.additional, schema)
    /\ step \in {"checkDefaults", "published"} => ~PropertyMissing(files[1], input.additional)
    /\ step = "published" => ~DefaultDiffers(files[1], input.additional)

IInv == InputOK /\ Files /\ Building /\ Checking

\* A build starts in the invariant.
LEMMA InvInit == Init => IInv
<1> SUFFICES ASSUME Init PROVE IInv
    OBVIOUS
<1>1. /\ input.releases \in Releases /\ input.community \in Community
      /\ input.kept \in KeptLists /\ input.additional \in Additional /\ files \in Charts
    BY DEF Init
<1>2. InputOK
  <2>1. CommunityOK(input.community)
    <3> DEFINE c == input.community
               All == {c.tree} \cup {c.definitions[n] : n \in DOMAIN c.definitions}
    <3>1. \A s \in All : IsSchema(s) /\ \A p \in DOMAIN s : s[p].ref \in {NoRef} \cup DOMAIN c.definitions
        BY <1>1, DeliveryAssumption
    <3>2. c.tree \in All /\ \A n \in DOMAIN c.definitions : c.definitions[n] \in All
        OBVIOUS
    <3> HIDE DEF All
    <3> QED
        BY <3>1, <3>2 DEF CommunityOK
  <2>2. ReleaseOK(input.releases)
      BY <1>1, DeliveryAssumption DEF ReleaseOK
  <2>3. input.kept \in Seq(Path \ {<<>>})
      BY <1>1, DeliveryAssumption
  <2>4. AdditionalOK(input.additional)
      BY <1>1, DeliveryAssumption DEF AdditionalOK
  <2> QED
      BY <2>1, <2>2, <2>3, <2>4 DEF InputOK
<1>3. Files
    BY <1>1, DeliveryAssumption DEF Init, Files
<1>4. Reusing(input.community, input.kept, schema, 1)
  <2>1. /\ DOMAIN schema = {<<>>} /\ schema[<<>>].properties = TRUE
      BY DEF Init, Element
  <2>2. IsSchema(schema)
    <3>1. <<>> \in Path /\ DOMAIN schema \subseteq Path
        BY <2>1, EmptySeq DEF Path
    <3>2. \A p \in DOMAIN schema, r \in Path : ~IsStrictPrefix(r, p)
      <4>1. \A r \in Path : Len(r) \in Nat /\ Len(<<>>) = 0
          BY PathBasics
      <4> QED
          BY <2>1, <3>1, <4>1, PrefixOrder
    <3> QED
        BY <2>1, <3>1, <3>2, SchemaFromPaths
  <2> QED
      BY <2>1, <2>2 DEF Reusing, LikeCommunity, Explained, Complete, Kept
<1>5. Building /\ Checking
  <2>1. step = "sync" /\ next = 1
      BY DEF Init
  <2>2. Len(input.kept) \in Nat
      BY <1>2, LenProperties DEF InputOK
  <2> QED
      BY <1>4, <2>1, <2>2 DEF Building, Checking
<1> QED
    BY <1>2, <1>3, <1>5 DEF IInv

\* A document that is synchronised is up to date.
LEMMA InvSyncFile == IInv /\ SyncFile => IInv'
<1> SUFFICES ASSUME IInv, SyncFile PROVE IInv'
    OBVIOUS
<1>1. /\ step = "sync" /\ synced' = synced + 1 /\ synced \in 0..2 /\ UNCHANGED <<input, next, schema>>
      /\ step' \in {"sync", "reuse", "failed"}
    BY DEF SyncFile, IInv, Files
<1>2. InputOK'
    BY <1>1 DEF IInv, InputOK
<1> DEFINE n == synced + 1
<1>3. n \in 1..3 /\ IsDocument(files[n]) /\ DOMAIN files = 1..3
    BY <1>1 DEF IInv, Files
<1>4. Files'
  <2>1. CASE UNCHANGED files /\ files[n] = Nothing /\ step' = IF n < 3 THEN "sync" ELSE "reuse"
    <3>1. UpToDate(files[n], input.releases)
        BY <2>1 DEF UpToDate, References, Nothing
    <3> QED
        BY <1>1, <1>3, <2>1, <3>1 DEF IInv, Files
  <2>2. CASE /\ files' = [files EXCEPT ![n] = UpdateNode(@, Versions)]
             /\ step' = IF n < 3 THEN "sync" ELSE "reuse"
    <3>1. files'[n] = UpdateNode(files[n], Versions) /\ DOMAIN files' = 1..3
        BY <1>3, <2>2
    <3>2. \A r \in References(files'[n]) : DOMAIN r.names \subseteq Nat /\ CarriesTag(r, Versions)
        BY <1>3, <3>1, UpdatedTags
    <3>3. UpToDate(files'[n], input.releases)
        BY <3>2, TagOfRelease DEF UpToDate, Versions, IInv, InputOK
    <3>4. \A i \in 1..3 : i # n => files'[i] = files[i]
        BY <1>3, <2>2
    <3> QED
        BY <1>1, <1>3, <2>2, <3>1, <3>3, <3>4 DEF IInv, Files
  <2>3. CASE UNCHANGED files /\ step' = "failed"
      BY <1>1, <1>3, <2>3 DEF IInv, Files
  <2> QED
      BY <2>1, <2>2, <2>3 DEF SyncFile
<1>5. Building' /\ Checking'
    BY <1>1 DEF IInv, Building, Checking
<1> QED
    BY <1>2, <1>4, <1>5 DEF IInv

\* The documents only change while they are synchronised.
LEMMA FilesKept ==
    ASSUME IInv, step # "sync", UNCHANGED <<input, files, synced>>, step' # "sync",
           step = "failed" => step' = "failed"
    PROVE  InputOK' /\ Files'
BY DEF IInv, InputOK, Files

\* Reusing parameters keeps the invariant.
LEMMA InvReuse == IInv /\ Reuse => IInv'
<1> SUFFICES ASSUME IInv, Reuse PROVE IInv'
    OBVIOUS
<1>1. step = "reuse" /\ UNCHANGED <<input, files, synced>> /\ step' \in {"reuse", "update", "failed"}
    BY DEF Reuse, EndOfList, Raise
<1>2. InputOK' /\ Files'
    BY <1>1, FilesKept
<1>3. /\ InputOK /\ Len(input.kept) \in Nat /\ next \in 1..(Len(input.kept) + 1)
      /\ Reusing(input.community, input.kept, schema, next)
    BY <1>1, LenProperties DEF IInv, InputOK, Building
<1>4. Building'
  <2>1. CASE EndOfList("update")
    <3>1. next = Len(input.kept) + 1 /\ step' = "update" /\ next' = 1 /\ UNCHANGED schema
        BY <1>3, <2>1 DEF EndOfList
    <3>2. IsSchema(schema) /\ Kept(input.community, input.kept, schema, Len(input.kept) + 1)
        BY <1>3, <3>1 DEF Reusing
    <3>3. DefaultsSet(files[1], input.kept, schema, 1)
        BY DEF DefaultsSet
    <3> QED
        BY <1>1, <1>3, <3>1, <3>2, <3>3 DEF Building
  <2>2. CASE Raise
      BY <1>1, <1>3, <2>2 DEF Raise, Building
  <2>3. CASE /\ next <= Len(input.kept) /\ input.kept[next] \in DOMAIN input.community.tree
             /\ schema' = Reuse1(schema, input.community, input.kept[next])
             /\ next' = next + 1 /\ UNCHANGED step
    <3>1. next \in 1..Len(input.kept) /\ next + 1 \in 1..(Len(input.kept) + 1)
        BY <1>3, <2>3
    <3>2. Reusing(input.community, input.kept, schema', next + 1)
        BY <1>3, <2>3, <3>1, ReuseOne DEF InputOK
    <3> QED
        BY <1>1, <2>3, <3>1, <3>2 DEF Building
  <2> QED
      BY <2>1, <2>2, <2>3 DEF Reuse
<1>5. Checking'
    BY <1>1 DEF Checking
<1> QED
    BY <1>2, <1>4, <1>5 DEF IInv

\* Updating defaults keeps the invariant.
LEMMA InvUpdate == IInv /\ Update => IInv'
<1> SUFFICES ASSUME IInv, Update PROVE IInv'
    OBVIOUS
<1>1. step = "update" /\ UNCHANGED <<input, files, synced>> /\ step' \in {"update", "merge", "failed"}
    BY DEF Update, EndOfList, Raise
<1>2. InputOK' /\ Files'
    BY <1>1, FilesKept
<1> DEFINE kept == input.kept
<1>3. /\ kept \in Seq(Path \ {<<>>}) /\ Len(kept) \in Nat /\ next \in 1..(Len(kept) + 1)
      /\ IsSchema(schema) /\ Kept(input.community, kept, schema, Len(kept) + 1)
      /\ DefaultsSet(files[1], kept, schema, next)
    BY <1>1, LenProperties DEF IInv, InputOK, Building
<1>4. Building'
  <2>1. CASE EndOfList("merge")
    <3>1. next = Len(kept) + 1 /\ step' = "merge" /\ next' = 1 /\ UNCHANGED schema
        BY <1>3, <2>1 DEF EndOfList
    <3> QED
        BY <1>1, <1>3, <3>1 DEF Building
  <2>2. CASE Raise
      BY <1>1, <1>3, <2>2 DEF Raise, Building
  <2>3. CASE /\ next <= Len(kept) /\ schema' = UpdateDefaults(schema, files[1], kept[next])
             /\ next' = next + 1 /\ UNCHANGED step
    <3>1. next \in 1..Len(kept) /\ next + 1 \in 1..(Len(kept) + 1)
        BY <1>3, <2>3
    <3> HIDE DEF kept
    <3>2. IsSchema(schema') /\ DOMAIN schema' = DOMAIN schema
        BY <1>3, <2>3, <3>1, UpdateOne
    <3>3. DefaultsSet(files[1], kept, schema', next + 1)
        BY <1>3, <2>3, <3>1, UpdateOne
    <3>4. Kept(input.community, kept, schema', Len(kept) + 1)
        BY <1>3, <3>2 DEF Kept
    <3> QED
        BY <1>1, <2>3, <3>1, <3>2, <3>3, <3>4 DEF Building, kept
  <2> QED
      BY <2>1, <2>2, <2>3 DEF Update
<1>5. Checking'
    BY <1>1 DEF Checking
<1> QED
    BY <1>2, <1>4, <1>5 DEF IInv

\* The merge leaves what the validations are about.
LEMMA InvMerge == IInv /\ AddQubershipCustomSchema => IInv'
<1> SUFFICES ASSUME IInv, AddQubershipCustomSchema PROVE IInv'
    OBVIOUS
<1>1. /\ step = "merge" /\ step' = "validate" /\ UNCHANGED <<input, files, synced, next>>
      /\ schema' = DeepMerge(schema, input.additional)
    BY DEF AddQubershipCustomSchema, Statement
<1>2. InputOK' /\ Files'
    BY <1>1, FilesKept
<1> DEFINE kept == input.kept
           a == input.additional
<1>3. /\ kept \in Seq(Path \ {<<>>}) /\ Len(kept) \in Nat /\ AdditionalOK(a)
      /\ IsSchema(schema) /\ Kept(input.community, kept, schema, Len(kept) + 1)
      /\ DefaultsSet(files[1], kept, schema, Len(kept) + 1)
      /\ DOMAIN kept = 1..Len(kept) /\ \A i \in DOMAIN kept : kept[i] \in Path
    BY <1>1, LenProperties, ElementOfSeq DEF IInv, InputOK, Building
<1>4. Building'
    BY <1>1 DEF IInv, Building
<1> HIDE DEF kept, a
<1>5. schema' = DeepMerge(schema, a)
    BY <1>1 DEF a
<1>6. /\ \A p \in DOMAIN schema : p \in DOMAIN schema' <=> ~Replaced(a, p)
      /\ DOMAIN schema' \ DOMAIN a \subseteq DOMAIN schema
      /\ \A p \in Outermost(a, <<>>) : p \in DOMAIN schema' /\ schema'[p] = a[p]
      /\ \A path \in Path : \A p \in Outermost(schema', path) :
            \/ p \in Outermost(schema, path) /\ schema'[p] = schema[p]
            \/ p \in Outermost(a, <<>>) /\ schema'[p] = a[p]
    BY <1>3, <1>5, Merged
<1>7. \A i \in DOMAIN kept : i \in 1..((Len(kept) + 1) - 1)
    BY <1>3
<1>8. MergedElements(input.community, kept, a, schema')
  <2>1. \A i \in DOMAIN kept : \A p \in Promised(input.community, kept, i) :
            p \in DOMAIN schema' <=> ~Replaced(a, p)
      BY <1>3, <1>6, <1>7 DEF Kept
  <2>2. <<>> \in DOMAIN a /\ (Len(kept) + 1) - 1 = Len(kept)
      BY <1>3, SchemaPaths DEF AdditionalOK
  <2>3. \A p \in DOMAIN schema' \ DOMAIN a : Selected(kept, Len(kept), p)
      BY <1>3, <1>6, <2>2 DEF Kept
  <2> QED
      BY <2>1, <2>3 DEF MergedElements
<1>9. MergedDefaults(files[1], kept, a, schema')
  <2>1. ASSUME NEW i \in DOMAIN kept, NEW p \in Outermost(schema', kept[i]), p \in DOMAIN files[1]
        PROVE  \/ schema'[p].default = Part(files[1], p)
               \/ p \in Outermost(a, <<>>) /\ schema'[p] = a[p]
    <3>1. CASE p \in Outermost(schema, kept[i]) /\ schema'[p] = schema[p]
      <4>1. schema[p].default = Part(files[1], p)
          BY <1>3, <1>7, <2>1, <3>1 DEF DefaultsSet
      <4> QED
          BY <3>1, <4>1
    <3> QED
        BY <1>3, <1>6, <2>1, <3>1
  <2>2. \A i \in DOMAIN kept : \A p \in Outermost(schema', kept[i]) \cap DOMAIN files[1] :
            \/ schema'[p].default = Part(files[1], p)
            \/ p \in Outermost(a, <<>>) /\ schema'[p] = a[p]
      BY <2>1
  <2>3. \A p \in Outermost(a, <<>>) : p \in DOMAIN schema' /\ schema'[p] = a[p]
      BY <1>6
  <2> QED
      BY <2>2, <2>3 DEF MergedDefaults
<1>10. Checking'
    BY <1>1, <1>8, <1>9 DEF Checking, kept, a
<1> QED
    BY <1>2, <1>4, <1>10 DEF IInv

\* Validations leave the schema alone.
LEMMA InvStatement ==
    ASSUME IInv, NEW here \in {"validate", "checkProperties", "checkDefaults", "reuse"},
           NEW raises \in BOOLEAN, NEW after, Statement(here, raises, after, schema),
           ~raises => \/ here = "validate" /\ after = "checkProperties"
                      \/ /\ here = "checkProperties" /\ after = "checkDefaults"
                         /\ ~PropertyMissing(files[1], input.additional)
                      \/ /\ here = "checkDefaults" /\ after = "published"
                         /\ ~DefaultDiffers(files[1], input.additional)
    PROVE  IInv'
<1>1. /\ step = here /\ UNCHANGED <<input, files, synced, next, schema>>
      /\ raises => step' = "failed"
      /\ ~raises => step' = after
    BY DEF Statement
<1>2. InputOK' /\ Files'
    BY <1>1, FilesKept
<1>3. Building'
    BY <1>1 DEF IInv, Building
<1>4. Checking'
    BY <1>1 DEF IInv, Checking
<1> QED
    BY <1>2, <1>3, <1>4 DEF IInv

\* Every step keeps the invariant.
LEMMA InvNext == IInv /\ [Next]_vars => IInv'
<1> SUFFICES ASSUME IInv, [Next]_vars PROVE IInv'
    OBVIOUS
<1>1. CASE SyncFile
    BY <1>1, InvSyncFile
<1>2. CASE Reuse
    BY <1>2, InvReuse
<1>3. CASE Update
    BY <1>3, InvUpdate
<1>4. CASE AddQubershipCustomSchema
    BY <1>4, InvMerge
<1>5. CASE Validate
  <2>1. CASE Statement("validate", FALSE, "checkProperties", schema)
      BY <2>1, InvStatement
  <2>2. CASE Statement("validate", TRUE, "failed", schema)
      BY <2>2, InvStatement
  <2> QED
      BY <1>5, <2>1, <2>2 DEF Validate
<1>6. CASE ValidatePropertiesInDefaults
  <2>1. PropertyMissing(files[1], input.additional) \in BOOLEAN
      BY DEF PropertyMissing
  <2> QED
      BY <1>6, <2>1, InvStatement DEF ValidatePropertiesInDefaults
<1>7. CASE ValidateDefaults
  <2>1. DefaultDiffers(files[1], input.additional) \in BOOLEAN
      BY DEF DefaultDiffers
  <2> QED
      BY <1>7, <2>1, InvStatement DEF ValidateDefaults
<1>8. CASE DownloadFails
    BY <1>8, InvStatement DEF DownloadFails
<1>9. CASE UNCHANGED vars
    BY <1>9 DEF vars, IInv, InputOK, Files, Building, Checking
<1> QED
    BY <1>1, <1>2, <1>3, <1>4, <1>5, <1>6, <1>7, <1>8, <1>9 DEF Next

\* The invariant above holds in every state of every build.
THEOREM Invariance == Spec => []IInv
BY InvInit, InvNext, PTL DEF Spec

\* Every reference to a released image carries the tag of the release.
THEOREM ReleasedTags == Spec => []ReleasedTagsEverywhere
<1>1. IInv => ReleasedTagsEverywhere
    BY DEF IInv, Files, ReleasedTagsEverywhere, Published
<1> QED
    BY <1>1, Invariance, PTL

\* The defaults of the published schema are the values.
THEOREM DefaultsAgree == Spec => []DefaultsMatch
<1>1. IInv => DefaultsMatch
  <2> SUFFICES ASSUME IInv, Published PROVE DefaultsMatch
      BY DEF DefaultsMatch
  <2> DEFINE a == input.additional
             values == files[1]
  <2>1. /\ MergedDefaults(values, input.kept, a, schema)
        /\ ~PropertyMissing(values, a) /\ ~DefaultDiffers(values, a)
      BY DEF IInv, Checking, Published
  <2> HIDE DEF a, values
  <2>2. \A p \in Outermost(a, <<>>) : p \in DOMAIN a /\ a[p].default = Part(values, p)
    <3>1. \A p \in Outermost(a, <<>>) : p \in DOMAIN a
        BY DEF Outermost, Below
    <3> QED
        BY <2>1, <3>1 DEF PropertyMissing, DefaultDiffers
  <2>3. \A p \in Outermost(a, <<>>) : schema[p].default = Part(values, p)
      BY <2>1, <2>2 DEF MergedDefaults
  <2>4. \A i \in DOMAIN input.kept : \A p \in Outermost(schema, input.kept[i]) \cap DOMAIN values :
            schema[p].default = Part(values, p)
      BY <2>1, <2>3 DEF MergedDefaults
  <2> QED
      BY <2>3, <2>4 DEF DefaultsMatch, a, values
<1> QED
    BY <1>1, Invariance, PTL

\* For every list, with its entries in any order and inside one another, every
\* community schema and every additional schema: the published schema has what the
\* list selects, except what the additional schema replaces, and has nothing else
\* but the additional schema.  Of an entry that comes after one of its parts, that
\* is what is on the way to the parts, and below those that are copied whole.
THEOREM KeptPublished == Spec => []KeptParametersPublished
<1>1. IInv => KeptParametersPublished
    BY DEF IInv, Checking, MergedElements, KeptParametersPublished, Published
<1> QED
    BY <1>1, Invariance, PTL

==============================================================================
