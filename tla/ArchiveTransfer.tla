--------------------------- MODULE ArchiveTransfer ---------------------------
(***************************************************************************)
(* An export's archive from its writing to its checks at the import: the   *)
(* strip and archive steps of jobs/export.go with archive.WriteTarGz and   *)
(* report's manifest, the road between the two sites, then                 *)
(* archive.ParseManifest, archive.Verify and the decision of publishOne    *)
(* (internal/importer) on a version Nexus already holds.                   *)
(*                                                                         *)
(* A digest is the value it is the digest of.  A package stands for a name *)
(* and a version; its file is what npm.PackFileName makes of them.  An     *)
(* entry's size is a number the tar header declares.  Cancellation, and    *)
(* the download before, are ExportRun's; storing and retrying are          *)
(* ImportQueue's and ImportRun's.                                          *)
(***************************************************************************)
EXTENDS Tarball, Integers, SequencesExt

CONSTANTS
  Selections,   \* sequences of packages, as the lockfiles list them
  FileOf,       \* FileOf[p]: PackFileName(p), with whether packageFile matches it
  Registry,     \* Registry[p]: the tarballs the registry may serve for p
  Copies,       \* Copies[p]: what Nexus may hold of p
  LimitChoices, \* Limits Verify may be given
  MaxInt,       \* the largest int64
  MaxCopySlack, \* of publish.go
  Malformed,    \* the digest of a field that does not decode
  None

VARIABLES
  phase,     \* "strip", "road", "parse", "scan", "verdict", "publish", "end"
  packages,  \* downloaded: what stripAll is given, in order
  shipped,   \* the shippedPackage records so far
  stripped,  \* files of the stripped directory, by name
  archive,   \* packages_npm.tar.gz
  man,       \* manifest.json
  sent,      \* history: the archive and the manifest as written
  key,       \* the key the import expects
  expected,  \* ExpectedSHA256, or None
  limits,    \* VerifyOptions.Limits
  scan,      \* scan's variables
  copied,    \* opts.Dir: what copyPackage wrote, by file name
  verdict,   \* how the import of the archive ended
  results    \* publishOne's results, by position

exportVars == <<packages, shipped, stripped>>
roadVars == <<archive, man, sent, key, expected, limits>>
importVars == <<scan, copied, verdict>>
transferVars == <<phase, exportVars, roadVars, importVars, results>>

\* out/ and what lies below it.
Root == [at |-> "out", file |-> None]
KeyFile == [stem |-> "signature.key", plain |-> FALSE]
Below(file) == [at |-> "out", file |-> file]
Files == {FileOf[p] : p \in DOMAIN FileOf} \cup {KeyFile}

\* packageList keeps a package once; what the registry and Nexus hold are
\* tarballs, and bytes decode; the numbers are Go's.
ASSUME TransferAssumption ==
  /\ DOMAIN Registry = DOMAIN FileOf /\ DOMAIN Copies = DOMAIN FileOf
  /\ \A sel \in Selections :
       /\ sel \in Seq(DOMAIN FileOf)
       /\ \A i, j \in DOMAIN sel : sel[i] = sel[j] => i = j
  /\ \A p \in DOMAIN FileOf :
       /\ Registry[p] \subseteq Tarballs \ {Malformed} /\ Copies[p] \subseteq Tarballs
  /\ None \notin Files
  /\ LimitChoices \subseteq [entries : Nat, unpacked : Nat]
  /\ MaxInt \in Nat \ {0} /\ MaxCopySlack \in Nat

\* A directory once file is written, over one of that name.
With(dir, file, body) ==
  [f \in DOMAIN dir \cup {file} |-> IF f = file THEN body ELSE dir[f]]

Weight(body) == IF "entries" \in DOMAIN body THEN Len(body.entries) ELSE 1
Entry(file, body) ==
  [name |-> Below(file), type |-> "reg", body |-> body, size |-> Weight(body), headers |-> 0]
RootEntry == [name |-> Root, type |-> "dir", body |-> [text |-> ""], size |-> 0, headers |-> 0]
NothingScanned ==
  [n |-> 0, seen |-> {}, unpacked |-> 0, left |-> 0, keySeen |-> FALSE, done |-> {}, error |-> "nil"]

-----------------------------------------------------------------------------
(* npm.ParseIntegrity *)

\* An SRI string is its fields: an algorithm and the digested tarball.
Decides(f) == f.algo \in {"none", "sha512"} \/ (f.algo = "sha1" /\ f.of = Malformed)
Unusable == [algo |-> "none", of |-> Malformed]

\* sha512 when one is listed; sha1 only where nothing else is.
ParseIntegrity(sri) ==
  LET deciding == {i \in DOMAIN sri : Decides(sri[i])}
      sha1s == {i \in DOMAIN sri : sri[i].algo = "sha1"}
  IN IF deciding # {}
     THEN LET f == sri[CHOOSE i \in deciding : \A j \in deciding : i <= j]
          IN IF f.algo = "sha512" /\ f.of # Malformed THEN f ELSE Unusable
     ELSE IF sri # <<>> /\ sha1s = DOMAIN sri THEN Last(sri) ELSE Unusable

-----------------------------------------------------------------------------
(* The export: steps strip, archive and the manifest of reports *)

\* Downloads are verified: a tarball comes with an integrity that fits it.
Downloads(p) ==
  {[pkg |-> p, tarball |-> t, integrity |-> <<[algo |-> a, of |-> t]>>] :
     t \in Registry[p], a \in {"sha512", "sha1"}}

Init ==
  /\ phase = "strip"
  /\ \E sel \in Selections :
       packages \in {ds \in [DOMAIN sel -> UNION {Downloads(p) : p \in Range(sel)}] :
                       \A i \in DOMAIN sel : ds[i] \in Downloads(sel[i])}
  /\ shipped = <<>> /\ stripped = <<>>
  /\ archive = None /\ man = None /\ sent = None /\ key = "key" /\ expected = None
  /\ limits \in LimitChoices
  /\ scan = NothingScanned /\ copied = <<>> /\ verdict = "none" /\ results = <<>>

Shipment(d, isStripped) ==
  [pkg |-> d.pkg, file |-> FileOf[d.pkg], integrity |-> d.integrity,
   tarball |-> IF isStripped THEN StripPublishConfig(d.tarball) ELSE d.tarball,
   stripped |-> isStripped]

\* stripOne: a tarball with publishConfig is rewritten into the stripped
\* directory, over a file of that name.
StripOne ==
  /\ phase = "strip" /\ Len(shipped) < Len(packages)
  /\ LET d == packages[Len(shipped) + 1]
         s == Shipment(d, HasPublishConfig(d.tarball))
     IN IF Inspects(d.tarball)
        THEN /\ shipped' = Append(shipped, s)
             /\ stripped' = IF s.stripped THEN With(stripped, s.file, s.tarball) ELSE stripped
             /\ UNCHANGED phase
        ELSE phase' = "end" /\ UNCHANGED <<shipped, stripped>>
  /\ UNCHANGED <<packages, roadVars, importVars, results>>

\* Each entry is opened, by its path, as it is written.
Opened(s) == IF s.stripped THEN stripped[s.file] ELSE s.tarball
Entries == [i \in DOMAIN shipped |-> Entry(shipped[i].file, Opened(shipped[i]))]
           \o <<Entry(KeyFile, [text |-> key])>>

\* Seeded fault: two entries may have one name.
WriteTarGzAsGiven(es) ==
  [ok |-> TRUE, entries |-> <<RootEntry>> \o es, after |-> "zeros", whole |-> TRUE]

\* WriteTarGz refuses a name given twice.  Its order, by name, is the
\* selection's here: no reader depends on it.
WriteTarGz(es) ==
  [ok |-> \A i, j \in DOMAIN es : es[i].name = es[j].name => i = j,
   entries |-> <<RootEntry>> \o es, after |-> "zeros", whole |-> TRUE]

Listing(s) ==
  [pkg |-> s.pkg, file |-> s.file, integrity |-> s.integrity,
   shipped |-> s.tarball, stripped |-> s.stripped]

\* writeArchive, then writeManifest.
WriteListed ==
  /\ phase = "strip" /\ Len(shipped) = Len(packages)
  /\ LET a == WriteTarGz(Entries)
         m == [fields |-> "good", archive |-> a, packages |-> [i \in DOMAIN shipped |-> Listing(shipped[i])]]
     IN IF a.ok
        THEN /\ archive' = a /\ man' = m /\ sent' = [archive |-> a, man |-> m]
             /\ phase' = "road"
        ELSE phase' = "end" /\ UNCHANGED <<archive, man, sent>>
  /\ UNCHANGED <<exportVars, key, expected, limits, importVars, results>>

-----------------------------------------------------------------------------
(* The road between the sites *)

OddPlaces == {"absolute", "parent", "elsewhere", "subdirectory"}
NotATarball == [entries |-> <<>>, end |-> "zeros", broken |-> TRUE]
Bodies == {NotATarball} \cup UNION {Registry[p] : p \in DOMAIN Registry}

\* One entry with something else in it: a name, a type, bytes, a declared size,
\* extended headers before it.
AlteredEntry(e) ==
  {[e EXCEPT !.name = [@ EXCEPT !.at = place]] : place \in OddPlaces}
  \cup {[e EXCEPT !.name = Below(f)] : f \in Files}
  \cup {[e EXCEPT !.type = t] : t \in {"dir", "reg", "link", "sparse"}}
  \cup {[e EXCEPT !.body = b, !.size = Weight(b)] : b \in Bodies}
  \cup {[e EXCEPT !.size = MaxInt], [e EXCEPT !.headers = MaxInt]}

Altered(a) ==
  {[a EXCEPT !.entries = RemoveAt(@, i)] : i \in DOMAIN a.entries}
  \cup {[a EXCEPT !.entries = Append(@, @[i])] : i \in DOMAIN a.entries}
  \cup {[a EXCEPT !.entries = SubSeq(@, 1, i), !.whole = FALSE] : i \in DOMAIN a.entries}
  \cup {[a EXCEPT !.entries = Reverse(@)], [a EXCEPT !.after = "data"]}
  \cup UNION {{[a EXCEPT !.entries[i] = e] : e \in AlteredEntry(a.entries[i])} : i \in DOMAIN a.entries}

EntriesNamed(a, file) == {i \in DOMAIN a.entries : a.entries[i].name = Below(file)}

\* The manifest lists what the altered archive holds.
RelistedAs(l, a) ==
  LET held == EntriesNamed(a, l.file)
  IN IF held = {} THEN l ELSE [l EXCEPT !.shipped = a.entries[CHOOSE j \in held : TRUE].body]
Relisted(m, a) ==
  [m EXCEPT !.archive = a,
            !.packages = [i \in DOMAIN m.packages |-> RelistedAs(m.packages[i], a)]]

AlteredListing(l) ==
  {[l EXCEPT !.stripped = ~@], [l EXCEPT !.integrity = Append(@, [algo |-> "sha256", of |-> None])],
   [l EXCEPT !.integrity = <<[algo |-> "sha512", of |-> Malformed]>> \o @],
   [l EXCEPT !.integrity = Append(@, [algo |-> "sha512", of |-> l.shipped])]}
  \cup {[l EXCEPT !.file = f] : f \in Files} \cup {[l EXCEPT !.pkg = p] : p \in DOMAIN FileOf}

AlteredManifest(m) ==
  {[m EXCEPT !.fields = "bad"], [m EXCEPT !.packages = <<>>]}
  \cup {[m EXCEPT !.packages = RemoveAt(@, i)] : i \in DOMAIN m.packages}
  \cup {[m EXCEPT !.packages = Append(@, @[i])] : i \in DOMAIN m.packages}
  \cup UNION {{[m EXCEPT !.packages[i] = l] : l \in AlteredListing(m.packages[i])} : i \in DOMAIN m.packages}

\* Nothing, the archive (with or without its manifest) or the manifest changes;
\* the archive's digest may have come by another way, the key may be another.
Road ==
  /\ phase = "road" /\ phase' = "parse"
  /\ \/ \E a \in Altered(archive) :
          archive' = a /\ man' \in {man, [man EXCEPT !.archive = a], Relisted(man, a)} /\ key' = key
     \/ man' \in AlteredManifest(man) /\ UNCHANGED <<archive, key>>
     \/ key' \in {key, "another"} /\ UNCHANGED <<archive, man>>
  /\ expected' \in {None, sent.archive}
  /\ UNCHANGED <<exportVars, sent, limits, importVars, results>>

-----------------------------------------------------------------------------
(* The import: archive.ParseManifest, archive.Verify *)

\* checkPackage
Acceptable(l) == l.file.plain /\ ParseIntegrity(l.integrity) # Unusable

\* checkManifest: the fields, then each package, its file and its version once.
ManifestPasses(m) ==
  /\ m.fields = "good" /\ m.packages # <<>>
  /\ \A i \in DOMAIN m.packages : Acceptable(m.packages[i])
  /\ \A i, j \in DOMAIN m.packages :
       m.packages[i].file = m.packages[j].file \/ m.packages[i].pkg = m.packages[j].pkg => i = j

TarEnd == 1  \* the end marker
PerEntry == 1  \* entryOverhead and a name of NameBytes

\* Seeded fault: the sum wraps.
StreamBoundWraps(l) ==
  LET sum == l.unpacked + l.entries * PerEntry + TarEnd
  IN IF sum > MaxInt THEN sum - 2 * (MaxInt + 1) ELSE sum

\* Limits.streamBound saturates.
StreamBound(l) ==
  LET framing == l.entries * PerEntry + TarEnd
  IN IF l.entries > (MaxInt - TarEnd) \div PerEntry \/ l.unpacked > MaxInt - framing
     THEN MaxInt ELSE l.unpacked + framing

ParseManifest ==
  /\ phase = "parse"
  /\ IF ManifestPasses(man)
     THEN phase' = "scan" /\ scan' = [scan EXCEPT !.left = StreamBound(limits)] /\ UNCHANGED verdict
     ELSE phase' = "end" /\ verdict' = "refused" /\ UNCHANGED scan
  /\ UNCHANGED <<exportVars, roadVars, copied, results>>

\* checkEntryName
NameAccepted(e) ==
  /\ e.name.at = "out" /\ e.name \notin scan.seen
  /\ IF e.name = Root THEN e.type = "dir" ELSE e.type \in {"reg", "sparse"}

\* The content read of e, of a directory none, and what the tar reader inflates
\* for it, headers first.
Content(e) == IF e.type = "dir" THEN 0 ELSE e.size
Inflated(e) == e.headers + PerEntry + Content(e)

\* The refusals of the loop before an entry's content is read.
Admitted(e) ==
  /\ e.headers + PerEntry <= scan.left /\ scan.n < limits.entries
  /\ NameAccepted(e)
  /\ e.type # "dir" => e.type # "sparse" /\ e.size <= limits.unpacked - scan.unpacked

ListedAs(e) == {i \in DOMAIN man.packages : Below(man.packages[i].file) = e.name}
Readable(e) == e.size = Weight(e.body) /\ Inflated(e) <= scan.left

\* copyPackage: the shipped digest, and the original one of a tarball that was
\* not stripped.
Matches(e, l) ==
  /\ e.body = l.shipped
  /\ l.stripped \/ e.body = ParseIntegrity(l.integrity).of

Fails(error) == scan' = [scan EXCEPT !.error = error] /\ phase' = "verdict"
Passes(e, i) ==
  /\ scan' = [scan EXCEPT !.n = @ + 1, !.seen = @ \cup {e.name}, !.left = @ - Inflated(e),
                          !.unpacked = @ + Content(e), !.done = @ \cup i,
                          !.keySeen = @ \/ e.name = Below(KeyFile)]
  /\ UNCHANGED phase

\* One turn of scan's loop.  A copy may fail here; it never replaces a file.
ScanEntry ==
  /\ phase = "scan" /\ scan.n < Len(archive.entries)
  /\ LET e == archive.entries[scan.n + 1]
     IN IF ~Admitted(e) THEN Fails("refused") /\ UNCHANGED copied
        ELSE IF e.type = "dir" THEN Passes(e, {}) /\ UNCHANGED copied
        ELSE IF e.name = Below(KeyFile)
        THEN /\ IF Readable(e) /\ e.body = [text |-> key] THEN Passes(e, {}) ELSE Fails("refused")
             /\ UNCHANGED copied
        ELSE IF ListedAs(e) = {} THEN Fails("refused") /\ UNCHANGED copied
        ELSE \E i \in ListedAs(e) :
               \/ /\ e.name.file \notin DOMAIN copied
                  /\ copied' = With(copied, e.name.file, e.body)
                  /\ IF Readable(e) /\ Matches(e, man.packages[i]) THEN Passes(e, {i}) ELSE Fails("refused")
               \/ Fails("local") /\ UNCHANGED copied
  /\ UNCHANGED <<exportVars, roadVars, verdict, results>>

\* Every package was there, and the key.
AllPresent == scan.done = DOMAIN man.packages /\ scan.keySeen

\* The end marker, checkTrailing, then what is absent.
EndScan ==
  /\ phase = "scan" /\ scan.n = Len(archive.entries) /\ phase' = "verdict"
  /\ scan' = [scan EXCEPT !.error =
       IF archive.whole /\ TarEnd <= scan.left /\ archive.after = "zeros" /\ AllPresent
       THEN "nil" ELSE "refused"]
  /\ UNCHANGED <<exportVars, roadVars, copied, verdict, results>>

\* Seeded fault: the scan's problem comes first.
JudgeByScan ==
  IF scan.error # "nil" THEN scan.error
  ELSE IF archive # man.archive \/ expected \notin {None, archive} THEN "damaged" ELSE "accepted"

\* A damaged archive is named by its digest, whatever the scan met in it.
Judge ==
  IF archive # man.archive \/ expected \notin {None, archive} THEN "damaged"
  ELSE IF scan.error # "nil" THEN scan.error ELSE "accepted"

\* Verify reads to the end first, which may fail.
Verify ==
  /\ phase = "verdict"
  /\ verdict' \in {Judge, "local"}
  /\ phase' = IF verdict' = "accepted" THEN "publish" ELSE "end"
  /\ UNCHANGED <<exportVars, roadVars, scan, copied, results>>

-----------------------------------------------------------------------------
(* publishOne's decision on a version Nexus may hold *)

Mismatch(t, l) == ~Inspects(t) \/ NamedPackage(t) # l.pkg

Decision(t, l, copy) ==
  IF Mismatch(t, l) THEN "mismatch"
  ELSE IF copy = None THEN "absent"
  ELSE IF copy = t THEN "present"
  ELSE IF Weight(copy) > 2 * Weight(t) + MaxCopySlack THEN "failed"
  ELSE IF ~l.stripped THEN "conflict"
  ELSE IF Undigestible(copy) THEN "failed"
  ELSE IF SameContent(t, copy) THEN "present" ELSE "conflict"

PublishOne ==
  /\ phase = "publish" /\ Len(results) < Len(man.packages)
  /\ LET l == man.packages[Len(results) + 1]
     IN \E copy \in Copies[l.pkg] \cup {None} :
          results' = Append(results, [copy |-> copy, state |-> Decision(copied[l.file], l, copy)])
  /\ phase' = IF Len(results') = Len(man.packages) THEN "end" ELSE phase
  /\ UNCHANGED <<exportVars, roadVars, importVars>>

Next ==
  StripOne \/ WriteListed \/ Road \/ ParseManifest \/ ScanEntry \/ EndScan \/ Verify \/ PublishOne

Spec == Init /\ [][Next]_transferVars

-----------------------------------------------------------------------------
(* Properties *)

\* What counts, as a set of one, where the first or the last entry of a name does.
FirstOf(t, name) ==
  {Digest(t.entries[i]) : i \in {j \in DOMAIN t.entries :
     t.entries[j].name = name /\ \A k \in DOMAIN t.entries : k < j => t.entries[k].name # name}}
LastOf(t, name) ==
  {Digest(t.entries[i]) : i \in {j \in DOMAIN t.entries :
     t.entries[j].name = name /\ \A k \in DOMAIN t.entries : k > j => t.entries[k].name # name}}

\* Whoever unpacks the two finds the same, be it that the first or that the
\* last entry of a name counts, and that reading stops at the end marker or not.
Alike(s, t) ==
  /\ s.end = "zeros" /\ t.end = "zeros" /\ Names(s) = Names(t)
  /\ \A n \in Names(s) : FirstOf(s, n) = FirstOf(t, n) /\ LastOf(s, n) = LastOf(t, n)

\* The bytes of content an archive declares, by entry and offset.
BytesOf(a) == UNION {{i} \X (1 .. Content(a.entries[i])) : i \in DOMAIN a.entries}
Total(a) == Cardinality(BytesOf(a))

\* An archive that was written holds, for each line of its manifest, one entry,
\* with the bytes the line states, which are the registry's but for the
\* publishConfig of its package.json: no package's file took the place of
\* another's between its rewriting and the writing of the archive.
ShipsWhatItLists ==
  sent # None =>
    \A i \in DOMAIN packages :
      LET l == sent.man.packages[i]
      IN /\ Cardinality(EntriesNamed(sent.archive, l.file)) = 1
         /\ \A j \in EntriesNamed(sent.archive, l.file) : sent.archive.entries[j].body = l.shipped
         /\ IF HasPublishConfig(packages[i].tarball)
            THEN ~HasPublishConfig(l.shipped) /\ Alike(l.shipped, packages[i].tarball)
            ELSE l.shipped = packages[i].tarball

\* An accepted archive is the one its manifest describes, and the exporter's
\* when its digest came by another way; it holds exactly the key and the listed
\* packages, each once and with the listed bytes, which are what was copied,
\* within the limits; what is said to be unchanged fits its integrity.  One that
\* changed on the road is called damaged, whatever its content looks like to the
\* scan, unless its manifest came along and no digest was given apart; and no
\* other is.
VerdictIsTrue ==
  /\ verdict = "accepted" =>
       LET files == {man.packages[i].file : i \in DOMAIN man.packages}
       IN /\ archive = man.archive
          /\ expected # None => archive = sent.archive
          /\ DOMAIN copied = files
          /\ \A i \in DOMAIN archive.entries :
               archive.entries[i].type # "dir"
                 => \E f \in files \cup {KeyFile} : i \in EntriesNamed(archive, f)
          /\ \A f \in files \cup {KeyFile} : Cardinality(EntriesNamed(archive, f)) = 1
          /\ \A i \in EntriesNamed(archive, KeyFile) : archive.entries[i].body = [text |-> key]
          /\ \A i \in DOMAIN man.packages :
               LET l == man.packages[i]
               IN /\ copied[l.file] = l.shipped
                  /\ ~l.stripped => \E f \in Range(l.integrity) : f.of = l.shipped
          /\ Len(archive.entries) <= limits.entries /\ Total(archive) <= limits.unpacked
  /\ verdict \notin {"none", "local"} /\ ManifestPasses(man) =>
       (verdict = "damaged" <=>
          archive # sent.archive /\ (man.archive = sent.archive \/ expected # None))

\* What an export of some package wrote arrived as it is, at a site with its
\* key, within the limits and the length a file has, and nothing local failed.
ArrivedWell ==
  /\ sent # None /\ archive = sent.archive /\ man = sent.man /\ key = "key" /\ packages # <<>>
  /\ Len(archive.entries) <= limits.entries /\ Total(archive) <= limits.unpacked
  /\ Len(archive.entries) * PerEntry + Total(archive) + TarEnd <= MaxInt
  /\ verdict \notin {"none", "local"}

\* Such an archive is accepted, whatever its tarballs, their order and their
\* integrities, when the import takes the names of its files.
OwnExportsPass ==
  ArrivedWell /\ (\A i \in DOMAIN packages : FileOf[packages[i].pkg].plain) => verdict = "accepted"

\* A version Nexus holds is taken for the shipped one only if whoever unpacks
\* it finds the same, publishConfig apart; and a stripped package that Nexus
\* holds with the same content is no conflict.
CopyIsJudged ==
  \A i \in DOMAIN results :
    LET l == man.packages[i]
        t == copied[l.file]
        r == results[i]
    IN /\ r.state = "present" => Alike(t, r.copy)
       /\ r.state = "conflict" /\ l.stripped =>
            ~Alike(t, r.copy) \/ HoldsNameTwice(t) \/ HoldsNameTwice(r.copy)

=============================================================================
