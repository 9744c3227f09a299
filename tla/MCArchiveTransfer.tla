-------------------------- MODULE MCArchiveTransfer --------------------------
(***************************************************************************)
(* ArchiveTransfer for TLC: two packages whose files have one name, one    *)
(* whose file name the import does not take, and one with every kind of    *)
(* tarball.                                                                *)
(***************************************************************************)
EXTENDS ArchiveTransfer

MCFileOf ==
  ("@a/b" :> [stem |-> "a-b", plain |-> TRUE]) @@ ("a-b" :> [stem |-> "a-b", plain |-> TRUE])
  @@ ("c" :> [stem |-> "c", plain |-> TRUE]) @@ ("-" :> [stem |-> "-", plain |-> FALSE])

Code(body) == [name |-> "package/index.js", mode |-> "file", body |-> [text |-> body]]
PackageFile(pkg, config, layout) ==
  [name |-> "package/package.json", mode |-> "file", body |-> PackageJson(pkg, config, layout)]
Tarball(entries) == [entries |-> entries, end |-> "zeros", broken |-> FALSE]

Plain(p) == Tarball(<<PackageFile(p, FALSE, "author"), Code("b")>>)
Configured(p) == Tarball(<<PackageFile(p, TRUE, "author"), Code("b")>>)
Misnamed(p) == Tarball(<<PackageFile("other", TRUE, "author"), Code("b")>>)
TwiceNamed(p) == Tarball(<<PackageFile(p, TRUE, "author"), Code("a"), Code("b")>>)
TwoManifests(p) ==
  Tarball(<<PackageFile(p, TRUE, "author"), [PackageFile(p, TRUE, "author") EXCEPT !.name = "other/package.json"]>>)

MCRegistry ==
  ("@a/b" :> {Configured("@a/b")}) @@ ("a-b" :> {Configured("a-b")}) @@ ("-" :> {Plain("-")})
  @@ ("c" :> {Plain("c"), Configured("c"), Misnamed("c"), TwiceNamed("c"), TwoManifests("c")})

\* What others may have published: the registry's, packed anew, and with one
\* thing or another changed.
Anew(p) == Tarball(<<Code("b"), PackageFile(p, FALSE, "other")>>)
CopiesOf(p) ==
  {Configured(p), StripPublishConfig(Configured(p)), StripPublishConfig(TwiceNamed(p)), TwiceNamed(p), Anew(p),
   [Anew(p) EXCEPT !.end = "data"], [Anew(p) EXCEPT !.broken = TRUE],
   [Anew(p) EXCEPT !.entries[1] = Code("a")], [Anew(p) EXCEPT !.entries[1].mode = "link"],
   [Anew(p) EXCEPT !.entries[1].name = "/x"], [Anew(p) EXCEPT !.entries[2].body = NotJson],
   [Anew(p) EXCEPT !.entries = Tail(@)], [Anew(p) EXCEPT !.entries = Append(@, Code("b"))], [Anew(p) EXCEPT !.entries = @ \o @ \o @]}
MCCopies == [p \in DOMAIN MCFileOf |-> CopiesOf(p)]

MCSelections == {<<>>, <<"c">>, <<"-">>, <<"@a/b", "c">>, <<"@a/b", "a-b">>}

MCLimits ==
  {[entries |-> n, unpacked |-> bytes] : n \in {3, 4}, bytes \in {4, 8}}
  \cup {[entries |-> 4, unpacked |-> MaxInt]}
=============================================================================
