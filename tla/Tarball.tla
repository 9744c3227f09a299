------------------------------ MODULE Tarball ------------------------------
(***************************************************************************)
(* A package tarball as npm/tarball.go reads, strips and compares it.      *)
(*                                                                         *)
(* A tarball is its entries, in order, and what follows its end marker.    *)
(* An entry has a name, a mode (its type and its link target are in it)    *)
(* and a body; a body that is one JSON object is what its decoding tells   *)
(* apart: whether that holds publishConfig, which package it names, and    *)
(* how it is laid out.                                                     *)
(***************************************************************************)
EXTENDS Naturals, FiniteSets, Sequences

CONSTANT MaxTarballEntries  \* entries read of one tarball

\* A body that is one JSON object, as package.json is read, and any other.
PackageJson(pkg, config, layout) == [pkg |-> pkg, config |-> config, layout |-> layout]
IsJson(body) == "config" \in DOMAIN body
NotJson == [text |-> "no JSON"]

Layouts == {"author", "other", "sealift"}
TarBodies == [text : STRING] \cup [pkg : STRING, config : BOOLEAN, layout : Layouts]
TarEntries == [name : STRING, mode : STRING, body : TarBodies]
Tarballs == [entries : Seq(TarEntries), end : {"zeros", "data"}, broken : BOOLEAN]

ManifestNames == {"package/package.json", "other/package.json"}
UnsafeNames == {"/x", "package/../x", "package//x"}

\* A regular file package.json one directory below the root.
IsManifest(e) == e.name \in ManifestNames /\ e.mode = "file"
Manifests(t) == {i \in DOMAIN t.entries : IsManifest(t.entries[i])}

\* walkTarball gives every entry to its caller or fails: these bytes are no
\* tarball, the stream breaks, the entries are too many, a name leaves it.
Walks(t) ==
  /\ "entries" \in DOMAIN t /\ ~t.broken
  /\ Len(t.entries) <= MaxTarballEntries
  /\ \A i \in DOMAIN t.entries : t.entries[i].name \notin UnsafeNames

\* What follows the end marker is zeros, or some reader would find more.
EndsInZeros(t) == t.end = "zeros"

\* InspectTarball: one package.json, one JSON object.
PackageJsonOf(t) == t.entries[CHOOSE i \in Manifests(t) : TRUE].body
Inspects(t) ==
  /\ Walks(t) /\ EndsInZeros(t)
  /\ \E i \in Manifests(t) : Manifests(t) = {i}
  /\ IsJson(PackageJsonOf(t))

HasPublishConfig(t) == PackageJsonOf(t).config
NamedPackage(t) == PackageJsonOf(t).pkg

\* withoutPublishConfig re-encodes: sorted keys, two spaces.
WithoutPublishConfig(body) == PackageJson(body.pkg, FALSE, "sealift")

\* StripPublishConfig of a tarball that inspects: every other entry keeps its
\* header and bytes.
StripPublishConfig(t) ==
  [t EXCEPT !.entries =
     [i \in DOMAIN t.entries |->
        IF IsManifest(t.entries[i])
        THEN [t.entries[i] EXCEPT !.body = WithoutPublishConfig(@)]
        ELSE t.entries[i]]]

\* An entry of digestTarball: a package.json counts by its decoding.
Digest(e) ==
  IF IsManifest(e) THEN [e EXCEPT !.body = WithoutPublishConfig(@)] ELSE e

Names(t) == {t.entries[i].name : i \in DOMAIN t.entries}
HoldsNameTwice(t) == Cardinality(Names(t)) < Len(t.entries)

\* The map digestTarball fills: a later entry of a name replaces an earlier one.
LastDigests(t) ==
  {Digest(t.entries[i]) : i \in {j \in DOMAIN t.entries :
     \A k \in DOMAIN t.entries : k > j => t.entries[k].name # t.entries[j].name}}

\* The tarball cannot be compared: SameContent reports an error.
Undigestible(t) ==
  \/ ~Walks(t)
  \/ \E i \in Manifests(t) : ~IsJson(t.entries[i].body)

\* Seeded fault: of a name held twice, the last entry stands for both.
SameDigests(a, b) ==
  /\ EndsInZeros(a) /\ EndsInZeros(b)
  /\ LastDigests(a) = LastDigests(b)

\* The same names, modes and bytes, in any order.  A name held twice or data
\* after the end never compares equal.
SameContent(a, b) ==
  /\ EndsInZeros(a) /\ EndsInZeros(b)
  /\ ~HoldsNameTwice(a) /\ ~HoldsNameTwice(b)
  /\ LastDigests(a) = LastDigests(b)

=============================================================================
