--------------------------- MODULE SchemaGenerator ----------------------------
(***************************************************************************)
(* docker-transfer/generate_json_schema.py: builds the JSON schema of the  *)
(* chart's values from the community chart's schema and an additional one. *)
(*                                                                         *)
(* A schema is a tree of elements, each with whether it has properties,    *)
(* its default and its $ref (the name of a definition).  Types,            *)
(* descriptions, x-docsSection and additionalProperties are left out: only *)
(* jsonschema.validate looks at them.                                      *)
(***************************************************************************)
EXTENDS Documents

NoRef == ""
Element(properties, default, ref) ==
    [properties |-> properties, default |-> default, ref |-> ref]
WithDefault(e, default) == Element(e.properties, default, e.ref)
OnlyRef(e) == e.ref # NoRef /\ ~e.properties

\* What has something below it has properties.
IsSchema(s) ==
    /\ IsTree(s)
    /\ <<>> \in DOMAIN s
    /\ \A p \in DOMAIN s : s[p].properties \in BOOLEAN
    /\ \A p \in DOMAIN s : \A n \in 0..(Len(p) - 1) : s[SubSeq(p, 1, n)].properties

------------------------------------------------------------------------------
(* reuse_existing_params *)

\* A parameter that is nothing but a $ref becomes a copy of the definition.
Inlined(community, path) ==
    LET e == community.tree[path] IN
    IF OnlyRef(e)
    THEN LET definition == community.definitions[e.ref] IN
         [q \in DOMAIN definition |->
            IF q = <<>> /\ e.default # Nothing THEN WithDefault(definition[q], e.default)
            ELSE definition[q]]
    ELSE Part(community.tree, path)

\* Bug variant: an element on the way keeps its properties.
Reuse1WithProperties(own, community, path) ==
    LET copy == IF path \in DOMAIN own THEN Nothing ELSE Inlined(community, path)
        onTheWay == {SubSeq(path, 1, n) : n \in 0..(Len(path) - 1)} \ DOMAIN own
        copied == {p \in DOMAIN community.tree : \E r \in onTheWay : IsPrefix(r, p)}
    IN [p \in DOMAIN own \cup copied \cup {path \o q : q \in DOMAIN copy} |->
            CASE p \in DOMAIN own -> own[p]
              [] p \in copied \ DOMAIN own -> community.tree[p]
              [] OTHER -> copy[SubSeq(p, Len(path) + 1, Len(p))]]

\* One parameter of the list.  What is there already is only descended into; an
\* element on the way to the parameter is copied without its properties.
Reuse1(own, community, path) ==
    LET copy == IF path \in DOMAIN own THEN Nothing ELSE Inlined(community, path)
        onTheWay == {SubSeq(path, 1, n) : n \in 0..(Len(path) - 1)}
    IN [p \in DOMAIN own \cup onTheWay \cup {path \o q : q \in DOMAIN copy} |->
            CASE p \in DOMAIN own -> own[p]
              [] p \in onTheWay \ DOMAIN own -> community.tree[p]
              [] OTHER -> copy[SubSeq(p, Len(path) + 1, Len(p))]]

------------------------------------------------------------------------------
(* Both update_defaults_for_existing_schema, with compare_complex_element, *)
(* and validate_defaults descend from an element along the keys of its     *)
(* value until they meet a default.                                        *)

NoDefaultAbove(s, path, p) ==
    \A n \in Len(path)..(Len(p) - 1) : s[SubSeq(p, 1, n)].default = Nothing
Below(s, path) == {p \in DOMAIN s : IsPrefix(path, p) /\ NoDefaultAbove(s, path, p)}
\* The defaults they meet first, and the elements they descend into.
Outermost(s, path) == {p \in Below(s, path) : s[p].default # Nothing}
Visited(s, path) == Below(s, path) \ Outermost(s, path)

\* What has no default must be a map and have properties, or a usable $ref to a
\* definition whose defaults are the values: otherwise an exception.
CompareRaises(s, definitions, values, path) ==
    \E p \in Visited(s, path) \cap DOMAIN values :
        \/ values[p].kind # "map"
        \/ /\ ~s[p].properties
           /\ \E k \in Keys(values, p) :
                \/ s[p].ref = NoRef
                \/ /\ s[p].ref # NoRef
                   /\ LET fields == definitions[s[p].ref]
                          value == Part(values, Append(p, k))
                      IN \/ ~fields[<<>>].properties
                         \/ /\ <<k>> \in DOMAIN fields
                            /\ LET e == fields[<<k>>] IN
                               \/ e.default # Nothing /\ e.default # value
                               \/ /\ e.default = Nothing
                                  /\ \/ value[<<>>].kind # "map"
                                     \/ ~e.properties /\ e.ref = NoRef /\ Keys(value, <<>>) # {}

\* What a definition has below its fields is not modelled: it may raise too.
CompareMayRaise(s, definitions, values, path) ==
    \E p \in Visited(s, path) \cap DOMAIN values :
        /\ OnlyRef(s[p])
        /\ \E k \in Keys(values, p) :
            /\ <<k>> \in DOMAIN definitions[s[p].ref]
            /\ LET e == definitions[s[p].ref][<<k>>]
               IN e.default = Nothing /\ (e.properties \/ e.ref # NoRef)
            /\ Keys(values, Append(p, k)) # {}

\* Bug variant: only a parameter that has a default itself is looked at.
UpdateDefaultsAtTop(s, values, path) ==
    [p \in DOMAIN s |->
        IF p = path /\ s[p].default # Nothing THEN WithDefault(s[p], Part(values, p)) ELSE s[p]]

\* One parameter of the list, if it does not raise.
UpdateDefaults(s, values, path) ==
    [p \in DOMAIN s |->
        IF p \in Outermost(s, path) \cap DOMAIN values THEN WithDefault(s[p], Part(values, p))
        ELSE s[p]]

------------------------------------------------------------------------------
(* add_qubership_custom_schema *)

\* Properties are merged if both elements have some, the other fields are then
\* the base's; otherwise the overriding element replaces the base's.
KeptInMerge(base, override, p) ==
    \A n \in 0..Len(p) :
        LET r == SubSeq(p, 1, n)
        IN r \in DOMAIN override => base[r].properties /\ override[r].properties
DeepMerge(base, override) ==
    [p \in {p \in DOMAIN base : KeptInMerge(base, override, p)} \cup DOMAIN override |->
        IF p \in DOMAIN base /\ KeptInMerge(base, override, p) THEN base[p] ELSE override[p]]

------------------------------------------------------------------------------
(* The two validations against the additional schema: when they raise. *)

PropertyMissing(values, s) == ~(DOMAIN s \subseteq DOMAIN values)

DefaultDiffers(values, s) ==
    \/ \E p \in Visited(s, <<>>) \cap DOMAIN values :
        values[p].kind # "map" \/ (~s[p].properties /\ Keys(values, p) # {})
    \/ \E p \in Outermost(s, <<>>) \cap DOMAIN values : s[p].default # Part(values, p)

==============================================================================
