---------------------------- MODULE ReleaseVerify ----------------------------
(***************************************************************************)
(* xtask verify-release (xtask/src/verify_release.rs): may a published     *)
(* release be trusted?  The command gathers evidence from GitHub, from the *)
(* downloaded assets, from crates.io and from the tag, one call after      *)
(* another, and refuses at the first disagreement.                         *)
(*                                                                         *)
(* Every answer is chosen when it is asked for; `work' keeps those that    *)
(* were accepted.  A file's contents are identified with their SHA-256.    *)
(***************************************************************************)
EXTENDS Integers, Sequences, SequencesExt, FiniteSets

CONSTANTS
  Digests, Commits,
  Targets,            \* the assets SHA256SUMS names; 4 in the code
  Crate,              \* the .crate among them
  Stranger,           \* an asset nobody expects
  Tags, OddTag,       \* v-prefixed versions, and a tag that is none
  MaxNesting,         \* annotated tags in a chain; 8 in the code
  MaxLines            \* bound: lines of SHA256SUMS

(* MCTools assumes these of the constants, and its run evaluates them.      *)
ConstantsFit ==
  /\ Crate \in Targets /\ {MaxNesting, MaxLines} \subseteq Nat
  /\ Stranger \notin Targets \cup {"SHA256SUMS"} /\ OddTag \notin Tags

VARIABLES
  input,              \* the tag that was asked for, or "latest"
  at,                 \* the next call, "verified" or "refused"
  work                \* the evidence so far

vars == <<input, at, work>>

Assets == Targets \cup {"SHA256SUMS"}
Absent == <<>>

Init ==
  /\ input \in Tags \cup {"latest"}
  /\ at = "release"
  /\ work = [release |-> Absent, files |-> Absent, lines |-> <<>>, index |-> Absent,
             sbom |-> Absent, chain |-> <<>>, recorded |-> Absent, attested |-> <<>>]

Refuse == at' = "refused" /\ UNCHANGED <<input, work>>

(* Record one more piece of evidence, if it is good, and go on.            *)
Accept(good, evidence, value, next) ==
  IF good THEN /\ work' = [work EXCEPT ![evidence] = value]
               /\ at' = next /\ UNCHANGED input
          ELSE Refuse

(* gh, the network or the file system fails: every call can.       *)
CallFails == at \notin {"verified", "refused"} /\ Refuse

(* A release as gh describes it, with the names of the assets it lists.     *)
Releases ==
  [tag : Tags \cup {OddTag}, draft : BOOLEAN, immutable : BOOLEAN, published : BOOLEAN,
   assets : BoundedSeq(Assets \cup {Stranger}, Cardinality(Assets))]

(* The requested tag, a version, final, and exactly the expected assets:   *)
(* as many as there should be, and each of them somewhere.                 *)
GoodRelease(r) ==
  /\ input \in {"latest", r.tag} /\ r.tag \in Tags
  /\ ~r.draft /\ r.immutable /\ r.published
  /\ Len(r.assets) = Cardinality(Assets)
  /\ Assets \subseteq ToSet(r.assets)

ResolveRelease ==
  /\ at = "release"
  /\ \E r \in Releases : Accept(GoodRelease(r), "release", r, "download")

(* Into a directory that was empty, so that every file is of this run.     *)
Download ==
  /\ at = "download"
  /\ \E empty \in BOOLEAN, files \in [Targets -> Digests] :
       Accept(empty, "files", files, "lines")

(* A line of SHA256SUMS: a malformed one, or one with an unsafe name, has  *)
(* no hash.                                                                *)
Lines == [name : Targets \cup {Stranger}, hash : Digests \cup {Absent}]
Names == {work.lines[i].name : i \in 1 .. Len(work.lines)}

ReadLine ==
  /\ at = "lines" /\ Len(work.lines) < MaxLines
  /\ \E l \in Lines :
       Accept(l.hash # Absent /\ l.name \notin Names, "lines", Append(work.lines, l), "lines")

(* As many entries as targets, and every target among them with its digest. *)
ChecksumsMatch ==
  /\ Len(work.lines) = Cardinality(Targets)
  /\ \A t \in Targets : \E i \in 1 .. Len(work.lines) :
       work.lines[i] = [name |-> t, hash |-> work.files[t]]

VerifyChecksums ==
  /\ at = "lines"
  /\ Accept(ChecksumsMatch, "lines", work.lines, "index")

CrateSha256 == work.files[Crate]

(* Exactly one entry has the version; yanked or not plays no role.         *)
VerifySparseIndex ==
  /\ at = "index"
  /\ \E entries \in BoundedSeq(Digests, 2) :
       Accept(entries = <<CrateSha256>>, "index", entries, "sbom")

(* The hashes of a component: an algorithm with a digest each.             *)
Hashes   == BoundedSeq([alg : {"SHA-256"}, content : Digests]
                         \cup {[alg |-> "MD5", content |-> Absent]}, 2)
Sha256(h) == {i \in 1 .. Len(h) : h[i].alg = "SHA-256"}

(* single_sha256 *)
SingleSha256(h) == Cardinality(Sha256(h)) = 1

HashAgrees(h) == SingleSha256(h) /\ \A i \in Sha256(h) : h[i].content = CrateSha256

(* A distribution somewhere else than on crates.io.                        *)
Odd == [url |-> FALSE, hashes |-> Absent]

Documents ==
  [format : BOOLEAN, root : BOOLEAN, hashes : Hashes,
   distributions : BoundedSeq([url : {TRUE}, hashes : Hashes], 1) \cup {<<Odd>>, <<Odd, Odd>>}]

(* verify_cyclonedx_document: format, root name and version, digests, url. *)
VerifyCycloneDx ==
  /\ at = "sbom"
  /\ \E d \in Documents :
       Accept(/\ d.format /\ d.root /\ HashAgrees(d.hashes)
              /\ Len(d.distributions) = 1
              /\ d.distributions[1].url /\ HashAgrees(d.distributions[1].hashes),
              "sbom", d, "tag")

(* Git objects as the API names them; an ill-formed id is Absent.            *)
Objects == [type : {"tag", "commit", "tree"}, id : Commits \cup {Absent}]

Tip == Last(work.chain)

(* The reference of the tag.                                               *)
ResolveTag ==
  /\ at = "tag" /\ work.chain = <<>>
  /\ \E o \in Objects : Accept(TRUE, "chain", <<o>>, "tag")

(* An annotated tag is followed, up to the bound.                          *)
Dereference ==
  /\ at = "tag" /\ work.chain # <<>> /\ Tip.type = "tag"
  /\ \E o \in Objects :
       Accept(Len(work.chain) <= MaxNesting /\ Tip.id # Absent,
              "chain", Append(work.chain, o), "tag")

(* Only a commit GitHub itself resolves to the same id is the answer.      *)
ConfirmCommit ==
  /\ at = "tag" /\ work.chain # <<>> /\ Tip.type # "tag"
  /\ \E confirmed \in Commits :
       Accept(Tip.type = "commit" /\ Tip.id = confirmed, "chain", work.chain, "vcs")

(* The first .cargo_vcs_info.json of the archive counts; `dirty' may lack. *)
VcsInfos == [sha1 : Commits, dirty : {"true", "false", "absent"}]

VerifyVcsInfo ==
  /\ at = "vcs"
  /\ \E found \in BoundedSeq(VcsInfos, 1) :
       Accept(found # <<>> /\ found[1].sha1 = Tip.id /\ found[1].dirty # "true",
              "recorded", found, "attest")

(* Provenance of crate and SBOM, then the SBOM itself, each online and     *)
(* from the downloaded bundle.                                             *)
Attestations ==
  <<"provenance", "provenance", "provenance", "provenance", "cyclonedx", "cyclonedx">>
Provenance == {i \in DOMAIN Attestations : Attestations[i] = "provenance"}

(* What an attestation carries: the SBOM, or anything else.                *)
Predicates == {work.sbom, [work.sbom EXCEPT !.root = FALSE]}

(* Mutant: one result with the SBOM is enough.                             *)
SomeEqual(results) == \E i \in 1 .. Len(results) : results[i] = work.sbom

AllEqual(results) == \A i \in 1 .. Len(results) : results[i] = work.sbom

(* verify_attestation, and assert_sbom_predicates_equal for the SBOM's.    *)
Attest ==
  LET i == Len(work.attested) + 1 IN
  /\ at = "attest" /\ i \in DOMAIN Attestations
  /\ \E results \in BoundedSeq(IF i \in Provenance THEN {Absent} ELSE Predicates, 2) :
       Accept(results # <<>> /\ (i \in Provenance \/ AllEqual(results)),
              "attested", Append(work.attested, ToSet(results)),
              IF i = Len(Attestations) THEN "verified" ELSE "attest")

Ended == at \in {"verified", "refused"} /\ UNCHANGED vars

Next ==
  \/ ResolveRelease \/ Download \/ ReadLine \/ VerifyChecksums \/ VerifySparseIndex
  \/ VerifyCycloneDx \/ ResolveTag \/ Dereference \/ ConfirmCommit \/ VerifyVcsInfo
  \/ Attest \/ CallFails \/ Ended

Spec == Init /\ [][Next]_vars

-----------------------------------------------------------------------------
DigestsIn(h) == {x.content : x \in {y \in ToSet(h) : y.alg = "SHA-256"}}

(* All evidence for a release that passes speaks of the same bytes and the *)
(* same commit: its assets are the expected ones and no others, SHA256SUMS *)
(* lists exactly them with their digests, and every digest of the crate    *)
(* anybody states, be it crates.io, the SBOM's root or its distribution,   *)
(* is that of the downloaded one; the commit the crate was packed from is  *)
(* the one a bounded chain of tags ends in; and what was attested, online  *)
(* or in the bundle, is the downloaded SBOM.                               *)
EvidenceAgrees ==
  at = "verified" =>
    /\ ToSet(work.release.assets) = Assets
    /\ ToSet(work.lines) = {[name |-> t, hash |-> work.files[t]] : t \in Targets}
    /\ UNION {ToSet(work.index), DigestsIn(work.sbom.hashes),
              DigestsIn(work.sbom.distributions[1].hashes)} = {CrateSha256}
    /\ \A i \in 1 .. Len(work.chain) : (work.chain[i].type = "commit") = (i = Len(work.chain))
    /\ Len(work.chain) <= MaxNesting + 1
    /\ work.recorded[1].sha1 = Tip.id
    /\ \A i \in DOMAIN Attestations \ Provenance : work.attested[i] = {work.sbom}
=============================================================================
