----------------------------- MODULE BundleFiles -----------------------------
(***************************************************************************)
(* A conpty.dll / OpenConsole.exe bundle on disk, the contributor command  *)
(* that installs it (xtask fetch-conpty) and the processes that validate   *)
(* and load it (ConPtyBackend::from_dir, backend/bundle.rs).               *)
(*                                                                         *)
(* The installer downloads a package, keeps it as a cache, checks its      *)
(* SHA-256 and writes the two files one after the other; it may be killed  *)
(* at any point and run again, for the same or another version.  Loaders   *)
(* start and end whenever they like.  Nothing locks the directory: what    *)
(* keeps a loaded DLL and the host it launches together is the order of    *)
(* the installer's writes, and that Windows lets nobody write a mapped     *)
(* image.  No two installers run at once.                                  *)
(***************************************************************************)
CONSTANTS
  Versions,
  Loaders,            \* processes that load the bundle
  Emulated,           \* those compiled for Foreign, the others for Native
  Unanswered,         \* those whose IsWow64Process2 is missing or fails
  Native, Foreign,    \* architectures, each with a subdirectory of that name
  None,               \* no such file
  Empty,              \* a file that was truncated and not yet written
  Bad                 \* contents of a package that is not the published one

Contents == Versions \cup {None, Empty, Bad}
Places   == {"adjacent", Native, Foreign}

(* MCTools assumes these of the constants, and its run evaluates them.      *)
ConstantsFit ==
  /\ None # Empty /\ None # Bad /\ Empty # Bad /\ {None, Empty, Bad} \cap Versions = {}
  /\ Native # Foreign /\ "adjacent" \notin {Native, Foreign}
  /\ Emulated \cup Unanswered \subseteq Loaders

VARIABLES
  package,            \* the cached .nupkg of every version: None, Empty, Bad or its own
  dll, host,          \* the bundle directory; a host may lie in any of Places
  fetch, version,     \* where the installer is, and what it installs
  body,               \* the download in memory
  pc,                 \* where every loader is
  found,              \* where it found the host
  dllVersion,         \* what it read from the DLL's version resource
  mapped,             \* the DLL it has mapped
  overlapped          \* did an installation overlap its validation and load?

dir     == <<dll, host>>
install == <<fetch, version, body>>
loader  == <<pc, found, dllVersion, mapped, overlapped>>
vars    == <<package, dir, install, loader>>

(* A cache restored by CI may hold anything; a bundle may be there already. *)
Init ==
  /\ package \in {f \in [Versions -> Versions \cup {None, Bad}] :
                    \A v \in Versions : f[v] \in {v, None, Bad}}
  /\ dll \in Versions \cup {None}
  /\ host \in [Places -> Versions \cup {None}]
  /\ fetch = "idle" /\ version \in Versions /\ body = None
  /\ pc = [l \in Loaders |-> "idle"]
  /\ found = [l \in Loaders |-> "adjacent"]
  /\ dllVersion = [l \in Loaders |-> None] /\ mapped = [l \in Loaders |-> None]
  /\ overlapped = [l \in Loaders |-> FALSE]

-----------------------------------------------------------------------------
(* xtask fetch-conpty.                                                     *)

FetchFails == fetch' = "idle" /\ UNCHANGED <<version, body>>

Extracting == fetch \in {"writeDll", "openHost", "writeHost"}

(* A write to the directory while somebody validates or loads it.          *)
NoteOverlap ==
  overlapped' = [l \in Loaders |-> overlapped[l] \/ pc[l] \in {"readDll", "readHost", "load"}]

Start(v) ==
  /\ fetch = "idle" /\ version' = v
  /\ fetch' = IF package[v] # None THEN "verify" ELSE "download"
  /\ UNCHANGED <<package, dir, body, loader>>

(* The body is read to its end into memory; it may be the wrong one.       *)
Download ==
  /\ fetch = "download"
  /\ \/ body' \in {version, Bad} /\ fetch' = "write" /\ UNCHANGED version
     \/ FetchFails
  /\ UNCHANGED <<package, dir, loader>>

(* To a .partial file, which nobody ever reads.                            *)
WritePartial ==
  /\ fetch = "write" /\ fetch' = "rename"
  /\ UNCHANGED <<package, dir, version, body, loader>>

(* The write completes, and the complete file is renamed.                  *)
Rename ==
  /\ fetch = "rename"
  /\ package' = [package EXCEPT ![version] = body]
  /\ fetch' = "verify" /\ body' = None
  /\ UNCHANGED <<dir, version, loader>>

(* Mutant: a package that is there is taken for the right one.             *)
TrustCache == package[version] = None

(* The digest is not the expected one, whatever the file's origin.         *)
Mismatch == package[version] # version

(* Mutant: the rejected package stays.                                     *)
KeepPackage == UNCHANGED package

RemovePackage == package' = [package EXCEPT ![version] = None]

VerifyChecksum ==
  /\ fetch = "verify"
  /\ IF Mismatch
       THEN RemovePackage /\ FetchFails
       ELSE fetch' = "openDll" /\ UNCHANGED <<package, version, body>>
  /\ UNCHANGED <<dir, loader>>

(* Opening a mapped image for writing fails, and ends the command before   *)
(* it has touched the host.                                                *)
DllInUse == FetchFails

(* extract_entry for conpty.dll: create and truncate, then write.          *)
OpenDll ==
  /\ fetch = "openDll"
  /\ IF \E l \in Loaders : mapped[l] # None
       THEN DllInUse /\ UNCHANGED dll
       ELSE dll' = Empty /\ fetch' = "writeDll" /\ UNCHANGED <<version, body>>
  /\ NoteOverlap
  /\ UNCHANGED <<package, host, pc, found, dllVersion, mapped>>

WriteDll ==
  /\ fetch = "writeDll" /\ dll' = package[version] /\ fetch' = "openHost"
  /\ NoteOverlap
  /\ UNCHANGED <<package, host, version, body, pc, found, dllVersion, mapped>>

(* extract_entry for OpenConsole.exe, next to the DLL.                     *)
OpenHost ==
  /\ fetch = "openHost"
  /\ host' = [host EXCEPT !["adjacent"] = Empty] /\ fetch' = "writeHost"
  /\ NoteOverlap
  /\ UNCHANGED <<package, dll, version, body, pc, found, dllVersion, mapped>>

WriteHost ==
  /\ fetch = "writeHost"
  /\ host' = [host EXCEPT !["adjacent"] = package[version]] /\ fetch' = "compare"
  /\ NoteOverlap
  /\ UNCHANGED <<package, dll, version, body, pc, found, dllVersion, mapped>>

(* product_version of both files, before success is reported.              *)
Compare ==
  /\ fetch = "compare"
  /\ fetch' = IF dll = host["adjacent"] THEN "done" ELSE "idle"
  /\ UNCHANGED <<package, dir, version, body, loader>>

Report ==
  /\ fetch = "done" /\ fetch' = "idle" /\ body' = None
  /\ UNCHANGED <<package, dir, version, loader>>

(* The command is killed anywhere, or fails there: memory is lost.         *)
Killed ==
  /\ fetch \notin {"idle", "done"} /\ fetch' = "idle" /\ body' = None
  /\ UNCHANGED <<package, dir, version, loader>>

-----------------------------------------------------------------------------
(* ConPtyBackend::from_dir in a loader.                                    *)

Goto(l, p) == pc' = [pc EXCEPT ![l] = p]

(* from_dir has failed or the process is gone: its locals are, too.        *)
Leave(l) ==
  /\ Goto(l, "idle")
  /\ found' = [found EXCEPT ![l] = "adjacent"]
  /\ dllVersion' = [dllVersion EXCEPT ![l] = None]
  /\ overlapped' = [overlapped EXCEPT ![l] = FALSE]

CompiledFor(l) == IF l \in Emulated THEN Foreign ELSE Native

(* native_machine: IsWow64Process2 sees through emulation; without its     *)
(* answer a loader goes by what it was compiled for.                       *)
NativeMachine(l) == IF l \in Unanswered THEN CompiledFor(l) ELSE Native

(* find_console_host: next to the DLL, else in one subdirectory.           *)
HostPlace(m) == IF host["adjacent"] # None THEN "adjacent" ELSE m

(* validate: the DLL is a file, and so is the host it is taken to launch.  *)
Validate(l) ==
  /\ pc[l] = "idle" /\ dll # None /\ host[HostPlace(NativeMachine(l))] # None
  /\ Goto(l, "readDll")
  /\ found' = [found EXCEPT ![l] = HostPlace(NativeMachine(l))]
  /\ overlapped' = [overlapped EXCEPT ![l] = Extracting]
  /\ UNCHANGED <<package, dir, install, dllVersion, mapped>>

(* read_product_version: an empty file has no version resource.            *)
ReadDllVersion(l) ==
  /\ pc[l] = "readDll"
  /\ dllVersion' = [dllVersion EXCEPT ![l] = dll]
  /\ Goto(l, "readHost")
  /\ UNCHANGED <<package, dir, install, found, mapped, overlapped>>

(* versions_are_compatible: both are known, and equal.                     *)
Compatible(d, h) == d \in Versions /\ d = h

CheckVersionPair(l) ==
  /\ pc[l] = "readHost"
  /\ IF Compatible(dllVersion[l], host[found[l]])
       THEN Goto(l, "load") /\ UNCHANGED <<found, dllVersion, overlapped>>
       ELSE Leave(l)
  /\ UNCHANGED <<package, dir, install, mapped>>

(* LoadLibraryExW by path: whatever the file is by now, if it is an image. *)
LoadModule(l) ==
  /\ pc[l] = "load"
  /\ IF dll \in Versions
       THEN /\ mapped' = [mapped EXCEPT ![l] = dll] /\ Goto(l, "loaded")
            /\ UNCHANGED <<found, dllVersion, overlapped>>
       ELSE Leave(l) /\ UNCHANGED mapped
  /\ UNCHANGED <<package, dir, install>>

(* The process drops its last backend clone or ends.                       *)
Unload(l) ==
  /\ pc[l] = "loaded" /\ Leave(l)
  /\ mapped' = [mapped EXCEPT ![l] = None]
  /\ UNCHANGED <<package, dir, install>>

-----------------------------------------------------------------------------
Fetches ==
  \/ Download \/ WritePartial \/ Rename \/ VerifyChecksum \/ OpenDll \/ WriteDll
  \/ OpenHost \/ WriteHost \/ Compare

Next ==
  \/ \E v \in Versions : Start(v)
  \/ Fetches \/ Report \/ Killed
  \/ \E l \in Loaders :
       \/ Validate(l) \/ ReadDllVersion(l) \/ CheckVersionPair(l)
       \/ LoadModule(l) \/ Unload(l)

Spec == Init /\ [][Next]_vars

(* The command runs on once started, and is not killed at the very moment  *)
(* of the verification each time.  Nobody has to start it or to load.      *)
Fairness == WF_vars(Fetches) /\ SF_vars(VerifyChecksum)

FairSpec == Spec /\ Fairness

-----------------------------------------------------------------------------
(* The host conpty.dll launches for a session: its own search.             *)
Launched ==
  IF host["adjacent"] # None THEN host["adjacent"] ELSE host[Native]

(* As long as a loader has the DLL mapped, every session it starts gets    *)
(* the host from the same release, however often the bundle is reinstalled *)
(* or an installation is killed meanwhile, provided that no installation   *)
(* was under way while the loader validated and loaded.  An emulated       *)
(* loader that gets no answer looks into the wrong subdirectory; what it   *)
(* validates is only the right one if it lies next to the DLL.             *)
Misled(l) == l \in Emulated \cap Unanswered /\ found[l] # "adjacent"

HostMatchesMapped ==
  \A l \in Loaders : mapped[l] # None /\ ~overlapped[l] /\ ~Misled(l) => Launched = mapped[l]

(* An interrupted download is no cache hit of the next run, and nothing    *)
(* reaches the bundle directory that does not come from a package with the *)
(* expected digest, cached or not.                                         *)
OnlyVerifiedInstalled ==
  /\ \A v \in Versions : package[v] # Empty
  /\ dll # Bad /\ \A p \in Places : host[p] # Bad
  /\ Extracting => package[version] = version

(* A bad package in the cache does not fail every later run: if, from some *)
(* point on, runs for v get as far as the verification again and again and *)
(* download the right thing, one of them goes on to install it.            *)
FetchRecovers ==
  \A v \in Versions :
    <>[](version = v /\ body # Bad) /\ []<>(fetch = "verify") => <>(fetch = "openDll")
=============================================================================
