------------------------------- MODULE Delivery -------------------------------
(***************************************************************************)
(* The build of the transfer image (docker-transfer/Dockerfile): the image *)
(* versions are written into three values.yaml, one after the other, and   *)
(* the schema of the chart is generated from the first, parameter after    *)
(* parameter.  A script that ends with an exception stops the build.       *)
(***************************************************************************)
EXTENDS ImageSync, SchemaGenerator

CONSTANTS
    Releases,   \* contents of release-images.yaml
    Charts,     \* the values.yaml of the chart and of its two subcharts
    Community,  \* schemas of the community chart, with their definitions
    KeptLists,  \* lists values_params_to_keep, of paths
    Additional  \* schemas qubership_values.schema.json

\* In the community schema every $ref resolves; the additional one describes
\* maps by their properties and the rest by a default, never one by both.
ASSUME DeliveryAssumption ==
    /\ \A releases \in Releases : Len(releases) \in Nat /\ DOMAIN releases = 1..Len(releases)
    /\ \A charts \in Charts : DOMAIN charts = 1..3 /\ \A i \in 1..3 : IsDocument(charts[i])
    /\ \A c \in Community : \A s \in {c.tree} \cup {c.definitions[n] : n \in DOMAIN c.definitions} :
        IsSchema(s) /\ \A p \in DOMAIN s : s[p].ref \in {NoRef} \cup DOMAIN c.definitions
    /\ \A kept \in KeptLists : kept \in Seq(Path \ {<<>>})
    /\ \A a \in Additional :
        /\ IsSchema(a) /\ a[<<>>].properties
        /\ \A p \in DOMAIN a : a[p].properties => a[p].default = Nothing

VARIABLES
    input,   \* what the build starts from
    files,   \* the three documents; Nothing in the place of a missing one
    synced,  \* how many of them sync_util.py has been run for
    step,    \* what the build does next
    next,    \* for which parameter of the list
    schema   \* the schema as far as it is built

vars == <<input, files, synced, step, next, schema>>

Init ==
    /\ input \in [releases : Releases, community : Community, kept : KeptLists,
                  additional : Additional]
    /\ files \in Charts
    /\ synced = 0
    /\ step = "sync"
    /\ next = 1
    /\ schema = [p \in {<<>>} |-> Element(TRUE, Nothing, NoRef)]

Versions == ParseReleaseImages(input.releases)

\* sync_util.py for the next document; one that does not exist is skipped.
SyncFile ==
    LET n == synced + 1 IN
    /\ step = "sync"
    /\ synced' = n
    /\ \/ /\ files[n] = Nothing
          /\ UNCHANGED files
          /\ step' = IF n < 3 THEN "sync" ELSE "reuse"
       \/ /\ files[n] # Nothing /\ ~UpdateRaises(files[n])
          /\ files' = [files EXCEPT ![n] = UpdateNode(@, Versions)]
          /\ step' = IF n < 3 THEN "sync" ELSE "reuse"
       \/ /\ files[n] # Nothing /\ UpdateRaises(files[n])
          /\ UNCHANGED files
          /\ step' = "failed"
    /\ UNCHANGED <<input, next, schema>>

\* How a loop over the list ends, with an exception or with the list.
Raise == step' = "failed" /\ UNCHANGED <<next, schema>>
EndOfList(after) == next > Len(input.kept) /\ step' = after /\ next' = 1 /\ UNCHANGED schema

\* reuse_existing_params, one parameter at a time.
Reuse ==
    /\ step = "reuse"
    /\ UNCHANGED <<input, files, synced>>
    /\ \/ EndOfList("update")
       \/ /\ next <= Len(input.kept)
          /\ input.kept[next] \notin DOMAIN input.community.tree
          /\ Raise
       \/ /\ next <= Len(input.kept)
          /\ input.kept[next] \in DOMAIN input.community.tree
          /\ schema' = Reuse1(schema, input.community, input.kept[next])
          /\ next' = next + 1
          /\ UNCHANGED step

\* update_defaults_for_existing_schema, one parameter at a time.
Update ==
    LET path == input.kept[next]
        definitions == input.community.definitions
        raises == path \notin DOMAIN files[1] \/ CompareRaises(schema, definitions, files[1], path)
    IN
    /\ step = "update"
    /\ UNCHANGED <<input, files, synced>>
    /\ \/ EndOfList("merge")
       \/ next <= Len(input.kept) /\ raises /\ Raise
       \/ /\ next <= Len(input.kept) /\ ~raises
          /\ CompareMayRaise(schema, definitions, files[1], path)
          /\ Raise
       \/ /\ next <= Len(input.kept) /\ ~raises
          /\ schema' = UpdateDefaults(schema, files[1], path)
          /\ next' = next + 1
          /\ UNCHANGED step

\* One statement of generate_json_schema.py, if it does not raise.
Statement(here, raises, after, result) ==
    /\ step = here
    /\ IF raises THEN step' = "failed" /\ UNCHANGED schema
       ELSE step' = after /\ schema' = result
    /\ UNCHANGED <<input, files, synced, next>>

AddQubershipCustomSchema ==
    Statement("merge", FALSE, "validate", DeepMerge(schema, input.additional))

\* jsonschema.validate is external: it may reject the values.
Validate ==
    \/ Statement("validate", FALSE, "checkProperties", schema)
    \/ Statement("validate", TRUE, "failed", schema)
ValidatePropertiesInDefaults ==
    Statement("checkProperties", PropertyMissing(files[1], input.additional), "checkDefaults", schema)
ValidateDefaults ==
    Statement("checkDefaults", DefaultDiffers(files[1], input.additional), "published", schema)

\* The download of the community schema, or of a package, fails.
DownloadFails == next = 1 /\ Statement("reuse", TRUE, "failed", schema)

Next ==
    \/ SyncFile \/ Reuse \/ Update \/ AddQubershipCustomSchema
    \/ Validate \/ ValidatePropertiesInDefaults \/ ValidateDefaults \/ DownloadFails

Spec == Init /\ [][Next]_vars

------------------------------------------------------------------------------
(* Properties.  A published chart is the result of a build that succeeded. *)

Published == step = "published"

\* The tag of a reference is that of the last released one of its names, and of
\* the last entry for that name in the release.
CarriesRelease(r, releases) ==
    \E m \in DOMAIN r.names, j \in DOMAIN releases :
        /\ releases[j][1] = r.names[m] /\ r.tag = Plain(releases[j][2])
        /\ \A l \in DOMAIN releases :
            /\ l > j => releases[l][1] # r.names[m]
            /\ \A k \in DOMAIN r.names : k > m => releases[l][1] # r.names[k]

UpToDate(d, releases) ==
    \A r \in References(d) :
        (\E m \in DOMAIN r.names, j \in DOMAIN releases : releases[j][1] = r.names[m])
            => CarriesRelease(r, releases)

\* In a published chart every reference to a released image, however deep and in
\* whichever of the documents, carries the tag of the release.
ReleasedTagsEverywhere == Published => \A i \in 1..3 : UpToDate(files[i], input.releases)

\* The published schema tells the defaults that values.yaml really sets, after
\* its image tags were changed: for what is kept of the community schema because
\* they were updated, for what is added because the build would have failed.
DefaultsMatch ==
    Published =>
        /\ \A i \in DOMAIN input.kept :
            \A p \in Outermost(schema, input.kept[i]) \cap DOMAIN files[1] :
                schema[p].default = Part(files[1], p)
        /\ \A p \in Outermost(input.additional, <<>>) : schema[p].default = Part(files[1], p)

\* An additional element without properties replaces whatever is below it.
Replaced(additional, p) ==
    \E r \in DOMAIN additional : IsStrictPrefix(r, p) /\ ~additional[r].properties

\* An entry of the list that no earlier entry is inside of: it is copied whole,
\* where a later one only adds the parts that are not there yet.
CopiedWhole(kept, i) == ~\E j \in 1..(i - 1) : IsStrictPrefix(kept[i], kept[j])

\* What the first n entries of the list select: what is on the way to one of
\* them, or below one that is copied whole.
Selected(kept, n, p) ==
    \E i \in 1..n :
        \/ IsPrefix(p, kept[i])
        \/ IsPrefix(kept[i], p) /\ CopiedWhole(kept, i)

\* What is promised for an entry of the list: the elements of the community schema
\* that it selects, and if it is the first to overlap it, the fields of its $ref.
Promised(community, kept, i) ==
    {p \in DOMAIN community.tree :
        \/ IsPrefix(p, kept[i])
        \/ IsPrefix(kept[i], p) /\ CopiedWhole(kept, i)}
    \cup {p \in {kept[i] \o q : q \in DOMAIN Inlined(community, kept[i])} :
            ~\E j \in 1..(i - 1) : Overlap(kept[i], kept[j])}

\* The published schema holds exactly what the list selects, in whatever order
\* its entries overlap: a promised element is missing if and only if the
\* additional schema replaces it, and what is neither selected nor additional is
\* not published (so of an entry after one of its parts, only such parts are).
KeptParametersPublished ==
    Published =>
        /\ \A i \in DOMAIN input.kept : \A p \in Promised(input.community, input.kept, i) :
            p \in DOMAIN schema <=> ~Replaced(input.additional, p)
        /\ \A p \in DOMAIN schema \ DOMAIN input.additional :
            Selected(input.kept, Len(input.kept), p)

==============================================================================
