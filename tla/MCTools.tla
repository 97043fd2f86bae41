------------------------------- MODULE MCTools -------------------------------
(***************************************************************************)
(* The sequential tools around the library, one activity per behaviour: an *)
(* xtask command as xtask/src/main.rs dispatches it, the installation of a *)
(* bundle beside the processes that load it, or one check of a version     *)
(* pair.  Every part has the variables of its own module; those that are   *)
(* not in use rest.                                                        *)
(***************************************************************************)
EXTENDS Naturals

CONSTANTS
  Versions, Loaders, Emulated, Unanswered, Native, Foreign, None, Empty, Bad,
  Components, MaxValue, Labels, MaxFields,
  Digests, Commits, Targets, Crate, Stranger, Tags, OddTag, MaxNesting, MaxLines,
  MaxSteps, MaxDepth, MaxNodes

VARIABLES
  command,                                   \* which activity this is
  input, at, work,                           \* of the sequential ones
  package, dll, host, fetch, version, body,  \* of BundleFiles
  pc, found, dllVersion, mapped, overlapped

bundle     == <<package, dll, host, fetch, version, body,
                pc, found, dllVersion, mapped, overlapped>>
sequential == <<input, at, work>>
vars       == <<command, sequential, bundle>>

Fetch   == INSTANCE BundleFiles
Pair    == INSTANCE VersionPair
Release == INSTANCE ReleaseVerify
Shells  == INSTANCE WorkflowShells
Policy  == INSTANCE SourcePolicy

ASSUME ConstantsFit ==
  /\ Fetch!ConstantsFit /\ Pair!ConstantsFit /\ Release!ConstantsFit
  /\ Shells!ConstantsFit /\ Policy!ConstantsFit

(* An empty bundle directory nobody touches, and no sequential tool.       *)
BundleRests ==
  /\ package = [v \in Versions |-> None] /\ dll = None
  /\ host = [p \in Fetch!Places |-> None]
  /\ version = CHOOSE v \in Versions : TRUE
  /\ Fetch!Init
NothingElse == input = None /\ at = "rests" /\ work = None

Init ==
  \/ command = "fetch-conpty" /\ Fetch!Init /\ NothingElse
  \/ command = "load" /\ Pair!Init /\ BundleRests
  \/ command = "verify-release" /\ Release!Init /\ BundleRests
  \/ command = "workflow-shells" /\ Shells!Init /\ BundleRests
  \/ command = "source-policy" /\ Policy!Init /\ BundleRests

Next ==
  /\ UNCHANGED command
  /\ \/ command = "fetch-conpty" /\ Fetch!Next /\ UNCHANGED sequential
     \/ command = "load" /\ Pair!Next /\ UNCHANGED bundle
     \/ command = "verify-release" /\ Release!Next /\ UNCHANGED bundle
     \/ command = "workflow-shells" /\ Shells!Next /\ UNCHANGED bundle
     \/ command = "source-policy" /\ Policy!Next /\ UNCHANGED bundle

Spec == Init /\ [][Next]_vars /\ Fetch!Fairness

-----------------------------------------------------------------------------
(* Every session of a process that has loaded the bundle gets the host of  *)
(* the DLL's own release, unless it is emulated, has no answer of          *)
(* IsWow64Process2 and no host beside the DLL                              *)
(* (fetch_conpty.rs:66-70, bundle.rs:50-78, 147-187).                      *)
HostMatchesMapped == Fetch!HostMatchesMapped

(* Only a whole package with the expected digest is ever installed, and    *)
(* none that is torn is a cache hit (fetch_conpty.rs:160-197).             *)
OnlyVerifiedInstalled == Fetch!OnlyVerifiedInstalled

(* A bad package in the cache does not fail every later run                *)
(* (fetch_conpty.rs:181-197).                                              *)
FetchRecovers == command = "fetch-conpty" => Fetch!FetchRecovers

(* A DLL and a host pass as a pair only if their release numbers prove it  *)
(* (bundle.rs:189-283).                                                    *)
PairIsProven == command = "load" => Pair!PairIsProven

(* All evidence for a release that is reported as verified speaks of the   *)
(* same bytes and the same commit (verify_release.rs:36-222).              *)
EvidenceAgrees == command = "verify-release" => Release!EvidenceAgrees

(* A workflow that passes with the number of its Bash blocks has had each  *)
(* of them checked, as the runner gets it, unless a step in another shell  *)
(* counts as one (workflow_shells.rs:35-74, 125-217).                      *)
AllBashChecked == command = "workflow-shells" => Shells!AllBashChecked

(* Exactly what the source policy forbids is reported                      *)
(* (source_policy.rs:126-312).                                             *)
ReportsForbidden == command = "source-policy" => Policy!ReportsForbidden
=============================================================================
