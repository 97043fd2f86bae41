----------------------------- MODULE ToolsProofs -----------------------------
(***************************************************************************)
(* For any releases, loaders, evidence and sources: what the sequential    *)
(* tools let pass is right.  Every activity leaves the variables of the    *)
(* others alone, so each has an inductive invariant of its own.            *)
(***************************************************************************)
EXTENDS MCTools, Integers, Sequences, FiniteSets, FiniteSetTheorems, SequenceTheorems,
        WellFoundedInduction, TLAPS

-----------------------------------------------------------------------------
(* The bundle directory, its installer and its loaders.                    *)

BundleTypeOK ==
  /\ package \in [Versions -> Versions \cup {None, Bad}]
  /\ dll \in Versions \cup {None, Empty}
  /\ host \in [Fetch!Places -> Versions \cup {None, Empty}]
  /\ version \in Versions
  /\ pc \in [Loaders -> {"idle", "readDll", "readHost", "load", "loaded"}]
  /\ found \in [Loaders -> Fetch!Places]
  /\ dllVersion \in [Loaders -> Versions \cup {None, Empty}]
  /\ mapped \in [Loaders -> Versions \cup {None}]
  /\ overlapped \in [Loaders -> BOOLEAN]

(* A package in the cache is whole or not the published one; from the      *)
(* verification to the last write it is the verified one.                  *)
Packages ==
  /\ \A v \in Versions : package[v] \in {v, None, Bad}
  /\ fetch \in {"write", "rename"} => body \in {version, Bad}
  /\ fetch = "openDll" \/ Fetch!Extracting => package[version] = version

(* What a loader no installation has overlapped knows: no write is under   *)
(* way, it has looked at the host in the place it takes for the one that   *)
(* conpty.dll searches, the DLL is the one whose version it has read, and, *)
(* if it is not misled, the host is of the same release.                   *)
Undisturbed(l) ==
  /\ ~Fetch!Extracting
  /\ found[l] = Fetch!HostPlace(Fetch!NativeMachine(l))
  /\ pc[l] = "readHost" => dllVersion[l] = dll
  /\ pc[l] = "load" => dll \in Versions /\ (~Fetch!Misled(l) => Fetch!Launched = dll)
  /\ pc[l] = "loaded" /\ ~Fetch!Misled(l) => Fetch!Launched = mapped[l]

LoadersTell ==
  \A l \in Loaders :
    /\ mapped[l] # None <=> pc[l] = "loaded"
    /\ pc[l] # "idle" /\ ~overlapped[l] => Undisturbed(l)

BundleInv == BundleTypeOK /\ Packages /\ LoadersTell

(* Whatever the cache and the directory hold in the beginning.             *)
LEMMA BundleInit == Fetch!Init => BundleInv
<1> SUFFICES ASSUME Fetch!Init PROVE BundleInv
  OBVIOUS
<1> USE ConstantsFit DEF Fetch!ConstantsFit, Fetch!Init
<1>1. BundleTypeOK
  BY DEF BundleTypeOK, Fetch!Places
<1>2. Packages
  BY DEF Packages, Fetch!Extracting
<1>3. LoadersTell
  BY DEF LoadersTell
<1> QED
  BY <1>1, <1>2, <1>3 DEF BundleInv

(* The installer up to the verification does not touch the directory.      *)
LEMMA FetchingKeepsInv ==
  ASSUME BundleInv,
         \/ \E v \in Versions : Fetch!Start(v)
         \/ Fetch!Download \/ Fetch!WritePartial \/ Fetch!Rename
         \/ Fetch!VerifyChecksum \/ Fetch!Compare \/ Fetch!Report \/ Fetch!Killed
  PROVE  BundleInv'
<1> USE ConstantsFit DEF Fetch!ConstantsFit, BundleInv, Fetch!dir, Fetch!loader
<1>1. UNCHANGED <<Fetch!dir, Fetch!loader>> /\ ~Fetch!Extracting'
  BY DEF Fetch!Start, Fetch!Download, Fetch!WritePartial, Fetch!Rename,
         Fetch!VerifyChecksum, Fetch!Compare, Fetch!Report, Fetch!Killed,
         Fetch!FetchFails, Fetch!Extracting
<1>2. LoadersTell'
  BY <1>1 DEF LoadersTell, Undisturbed, Fetch!HostPlace, Fetch!Launched, Fetch!Misled,
         Fetch!NativeMachine, Fetch!CompiledFor
<1>3. BundleTypeOK' /\ Packages'
  <2> USE DEF BundleTypeOK, Packages, Fetch!Extracting
  <2>1. CASE \E v \in Versions : Fetch!Start(v)
    BY <2>1 DEF Fetch!Start
  <2>2. CASE Fetch!Download
    BY <2>2 DEF Fetch!Download, Fetch!FetchFails
  <2>3. CASE Fetch!WritePartial
    BY <2>3 DEF Fetch!WritePartial
  <2>4. CASE Fetch!Rename
    BY <2>4 DEF Fetch!Rename
  <2>5. CASE Fetch!VerifyChecksum
    BY <2>5 DEF Fetch!VerifyChecksum, Fetch!Mismatch, Fetch!RemovePackage, Fetch!FetchFails
  <2>6. CASE Fetch!Compare \/ Fetch!Report \/ Fetch!Killed
    BY <2>6 DEF Fetch!Compare, Fetch!Report, Fetch!Killed
  <2> QED
    BY <2>1, <2>2, <2>3, <2>4, <2>5, <2>6
<1> QED
  BY <1>2, <1>3

(* Nobody who has the DLL mapped, and nobody undisturbed, sees a write.    *)
LEMMA ExtractingKeepsInv ==
  ASSUME BundleInv,
         Fetch!OpenDll \/ Fetch!WriteDll \/ Fetch!OpenHost \/ Fetch!WriteHost
  PROVE  BundleInv'
<1> USE ConstantsFit DEF Fetch!ConstantsFit, BundleInv
<1>1. BundleTypeOK'
  <2>1. overlapped' \in [Loaders -> BOOLEAN]
    BY Zenon DEF BundleTypeOK, Fetch!NoteOverlap, Fetch!OpenDll, Fetch!WriteDll,
         Fetch!OpenHost, Fetch!WriteHost
  <2>2. package[version] \in Versions /\ "adjacent" \in Fetch!Places
    BY DEF BundleTypeOK, Packages, Fetch!Extracting, Fetch!Places, Fetch!OpenDll,
         Fetch!WriteDll, Fetch!OpenHost, Fetch!WriteHost
  <2>3. /\ dll' \in Versions \cup {None, Empty}
        /\ host' \in [Fetch!Places -> Versions \cup {None, Empty}]
    BY <2>2 DEF BundleTypeOK, Fetch!OpenDll, Fetch!WriteDll, Fetch!OpenHost, Fetch!WriteHost
  <2>4. UNCHANGED <<package, version, pc, found, dllVersion, mapped>>
    BY DEF Fetch!OpenDll, Fetch!WriteDll, Fetch!OpenHost, Fetch!WriteHost,
         Fetch!DllInUse, Fetch!FetchFails
  <2> QED
    BY <2>1, <2>3, <2>4 DEF BundleTypeOK
<1>2. Packages'
  BY DEF Packages, Fetch!Extracting, Fetch!OpenDll, Fetch!WriteDll, Fetch!OpenHost,
         Fetch!WriteHost, Fetch!DllInUse, Fetch!FetchFails
<1>3. LoadersTell'
  <2> SUFFICES ASSUME NEW l \in Loaders
               PROVE  /\ mapped[l] # None <=> pc[l] = "loaded"
                      /\ pc[l] # "idle" /\ ~overlapped'[l] => Undisturbed(l)'
    BY DEF LoadersTell, Fetch!OpenDll, Fetch!WriteDll, Fetch!OpenHost, Fetch!WriteHost
  <2> USE DEF LoadersTell
  <2>1. ~overlapped'[l] =>
          ~overlapped[l] /\ pc[l] \notin {"readDll", "readHost", "load"}
    BY DEF BundleTypeOK, Fetch!NoteOverlap, Fetch!OpenDll, Fetch!WriteDll,
         Fetch!OpenHost, Fetch!WriteHost
  <2>2. SUFFICES ASSUME pc[l] = "loaded", ~overlapped'[l] PROVE Undisturbed(l)'
    BY <2>1 DEF BundleTypeOK
  <2>3. ~Fetch!Extracting /\ mapped[l] # None
    BY <2>1, <2>2 DEF Undisturbed
  <2>4. Fetch!OpenDll /\ Fetch!DllInUse /\ UNCHANGED dll
    BY <2>3 DEF Fetch!Extracting, Fetch!OpenDll, Fetch!WriteDll, Fetch!OpenHost, Fetch!WriteHost
  <2> QED
    BY <2>1, <2>2, <2>4 DEF Undisturbed, Fetch!Extracting, Fetch!OpenDll, Fetch!DllInUse,
         Fetch!FetchFails, Fetch!HostPlace, Fetch!Launched, Fetch!Misled,
         Fetch!NativeMachine, Fetch!CompiledFor
<1> QED
  BY <1>1, <1>2, <1>3

(* A loader changes nothing that another loader or the installer knows.    *)
LEMMA LoaderKeepsInv ==
  ASSUME BundleInv, NEW l \in Loaders,
         \/ Fetch!Validate(l) \/ Fetch!ReadDllVersion(l) \/ Fetch!CheckVersionPair(l)
         \/ Fetch!LoadModule(l) \/ Fetch!Unload(l)
  PROVE  BundleInv'
<1> USE ConstantsFit DEF Fetch!ConstantsFit, BundleInv, Fetch!dir, Fetch!install
<1>1. UNCHANGED <<package, Fetch!dir, Fetch!install>>
  BY DEF Fetch!Validate, Fetch!ReadDllVersion, Fetch!CheckVersionPair,
         Fetch!LoadModule, Fetch!Unload
<1>2. Packages'
  BY <1>1 DEF Packages, Fetch!Extracting
<1>3. CASE Fetch!Validate(l)
  <2>1. overlapped' \in [Loaders -> BOOLEAN]
    <3>1. Fetch!Extracting \in BOOLEAN
      BY DEF Fetch!Extracting
    <3> QED
      BY <1>3, <3>1, Zenon DEF Fetch!Validate, BundleTypeOK
  <2>2. Fetch!HostPlace(Fetch!NativeMachine(l)) \in Fetch!Places
    BY DEF Fetch!HostPlace, Fetch!Places, Fetch!NativeMachine, Fetch!CompiledFor
  <2>3. BundleTypeOK'
    BY <1>1, <1>3, <2>1, <2>2 DEF BundleTypeOK, Fetch!Validate, Fetch!Goto,
         Fetch!NativeMachine
  <2>4. LoadersTell'
    <3> SUFFICES ASSUME NEW k \in Loaders
                 PROVE  /\ mapped'[k] # None <=> pc'[k] = "loaded"
                        /\ pc'[k] # "idle" /\ ~overlapped'[k] => Undisturbed(k)'
      BY DEF LoadersTell
    <3>1. CASE k = l
      <4>1. pc'[l] = "readDll" /\ mapped'[l] = None
        BY <1>3 DEF Fetch!Validate, Fetch!Goto, BundleTypeOK, LoadersTell
      <4>2. overlapped'[l] = Fetch!Extracting /\ found'[l] = Fetch!HostPlace(Fetch!NativeMachine(l))
        BY <1>3, Zenon DEF Fetch!Validate, BundleTypeOK
      <4>3. Fetch!HostPlace(Fetch!NativeMachine(l))' = Fetch!HostPlace(Fetch!NativeMachine(l))
        BY <1>1 DEF Fetch!HostPlace, Fetch!NativeMachine, Fetch!CompiledFor
      <4>4. Fetch!Extracting' = Fetch!Extracting
        BY <1>1 DEF Fetch!Extracting
      <4> QED
        BY <3>1, <4>1, <4>2, <4>3, <4>4 DEF Undisturbed
    <3>2. CASE k # l
      <4>1. /\ pc'[k] = pc[k] /\ found'[k] = found[k] /\ overlapped'[k] = overlapped[k]
            /\ dllVersion' = dllVersion /\ mapped' = mapped
        BY <1>3, <3>2 DEF Fetch!Validate, Fetch!Goto, BundleTypeOK
      <4> QED
        BY <1>1, <4>1 DEF LoadersTell, Undisturbed, Fetch!HostPlace, Fetch!Launched,
             Fetch!Misled, Fetch!NativeMachine, Fetch!CompiledFor, Fetch!Extracting
    <3> QED
      BY <3>1, <3>2
  <2> QED
    BY <1>2, <2>3, <2>4
<1>4. CASE Fetch!ReadDllVersion(l)
  BY <1>1, <1>2, <1>4 DEF BundleTypeOK, LoadersTell, Undisturbed, Fetch!ReadDllVersion,
       Fetch!Goto, Fetch!HostPlace, Fetch!Launched, Fetch!Misled,
         Fetch!NativeMachine, Fetch!CompiledFor, Fetch!Extracting
<1>5. CASE Fetch!CheckVersionPair(l) /\ pc'[l] # "idle"
  BY <1>1, <1>2, <1>5 DEF BundleTypeOK, LoadersTell, Undisturbed, Fetch!CheckVersionPair,
       Fetch!Compatible, Fetch!Leave, Fetch!Goto, Fetch!HostPlace, Fetch!Launched, Fetch!Misled,
         Fetch!NativeMachine, Fetch!CompiledFor,
       Fetch!Extracting
<1>6. CASE Fetch!LoadModule(l) /\ pc'[l] # "idle"
  BY <1>1, <1>2, <1>6 DEF BundleTypeOK, LoadersTell, Undisturbed, Fetch!LoadModule,
       Fetch!Leave, Fetch!Goto, Fetch!HostPlace, Fetch!Launched, Fetch!Misled,
         Fetch!NativeMachine, Fetch!CompiledFor, Fetch!Extracting
<1>7. CASE pc'[l] = "idle"
  <2>1. /\ Fetch!Leave(l)
        /\ (mapped' = mapped /\ mapped[l] = None) \/ mapped' = [mapped EXCEPT ![l] = None]
    BY <1>7 DEF BundleTypeOK, LoadersTell, Fetch!Validate, Fetch!ReadDllVersion,
         Fetch!CheckVersionPair, Fetch!LoadModule, Fetch!Unload, Fetch!Goto
  <2>2. overlapped' \in [Loaders -> BOOLEAN]
    BY <2>1, Zenon DEF BundleTypeOK, Fetch!Leave
  <2>3. BundleTypeOK'
    BY <1>1, <2>1, <2>2 DEF BundleTypeOK, Fetch!Leave, Fetch!Goto, Fetch!Places
  <2>4. LoadersTell'
    BY <1>1, <2>1 DEF LoadersTell, Undisturbed, BundleTypeOK, Fetch!Leave, Fetch!Goto,
         Fetch!HostPlace, Fetch!Launched, Fetch!Misled,
         Fetch!NativeMachine, Fetch!CompiledFor, Fetch!Extracting
  <2> QED
    BY <1>2, <2>3, <2>4
<1> QED
  BY <1>3, <1>4, <1>5, <1>6, <1>7 DEF BundleTypeOK, Fetch!Unload, Fetch!Leave, Fetch!Goto

(* Only the bundle's own steps change these variables.                     *)
THEOREM BundleInvHolds == Spec => []BundleInv
<1>1. Init => BundleInv
  BY BundleInit DEF Init, BundleRests
<1>2. BundleInv /\ [Next]_vars => BundleInv'
  <2> SUFFICES ASSUME BundleInv, [Next]_vars PROVE BundleInv'
    OBVIOUS
  <2>1. CASE Fetch!Next
    BY <2>1, FetchingKeepsInv, ExtractingKeepsInv, LoaderKeepsInv DEF Fetch!Next, Fetch!Fetches
  <2>2. CASE UNCHANGED bundle
    BY <2>2 DEF bundle, BundleInv, BundleTypeOK, Packages, LoadersTell, Undisturbed,
         Fetch!HostPlace, Fetch!Launched, Fetch!Misled,
         Fetch!NativeMachine, Fetch!CompiledFor, Fetch!Extracting
  <2> QED
    BY <2>1, <2>2 DEF Next, vars
<1> QED
  BY <1>1, <1>2, PTL DEF Spec

(* Every session of a process that has loaded the bundle gets the host of  *)
(* the DLL's own release, unless it is emulated, has no answer of          *)
(* IsWow64Process2 and no host beside the DLL                              *)
(* (fetch_conpty.rs:66-70, bundle.rs:50-78, 147-187).                      *)
THEOREM HostBelongsToDll == Spec => []HostMatchesMapped
<1>1. BundleInv => HostMatchesMapped
  BY DEF BundleInv, BundleTypeOK, LoadersTell, Undisturbed, HostMatchesMapped,
         Fetch!HostMatchesMapped
<1> QED
  BY <1>1, BundleInvHolds, PTL

(* Only a whole package with the expected digest is ever installed, and    *)
(* none that is torn is a cache hit (fetch_conpty.rs:160-197).             *)
THEOREM InstallsVerified == Spec => []OnlyVerifiedInstalled
<1>1. BundleInv => OnlyVerifiedInstalled
  BY ConstantsFit DEF Fetch!ConstantsFit, BundleInv, BundleTypeOK, Packages,
         OnlyVerifiedInstalled, Fetch!OnlyVerifiedInstalled
<1> QED
  BY <1>1, BundleInvHolds, PTL
-----------------------------------------------------------------------------
(* The version pair.                                                       *)

(* The fields that were seen are the text's, digits first; all of them but *)
(* the last are plain numbers, and the other components are zero.          *)
Digits(t, parts, seen) ==
  /\ seen <= Len(t)
  /\ \A i \in 1 .. seen : Pair!HasDigits(t[i]) /\ parts[i] = t[i].digits
  /\ \A i \in 1 .. seen - 1 : Pair!IsNumber(t[i])
  /\ \A i \in seen + 1 .. Components : parts[i] = 0

(* Why a version ends: a field without digits, or one with a label.        *)
EndsAt(t, seen) ==
  \/ seen < Len(t) /\ ~Pair!HasDigits(t[seen + 1]) /\ (seen > 0 => Pair!IsNumber(t[seen]))
  \/ seen > 0 /\ ~Pair!IsNumber(t[seen])

(* What read_product_version may make of a text.                           *)
ReadAs(t, v) ==
  \/ t = Pair!Blank /\ v = <<>>
  \/ \E parts \in [1 .. Components -> 0 .. MaxValue], seen \in 0 .. Components :
       /\ t \in Seq(Pair!Fields) /\ t # Pair!Blank /\ Digits(t, parts, seen)
       /\ seen = Components \/ seen = Len(t) \/ EndsAt(t, seen)
       /\ v = IF seen > 0 THEN parts ELSE <<>>

PairTypeOK ==
  /\ input \in [{"dll", "host"} -> Seq(Seq(Pair!Fields))]
  /\ at \in {"dll", "host", "compare", "decided"}
  /\ DOMAIN work = {"entry", "field", "parts", "seen", "dll", "host", "compatible"}
  /\ work.entry \in Nat \ {0} /\ work.field \in Nat \ {0} /\ work.seen \in 0 .. Components
  /\ work.parts \in [1 .. Components -> 0 .. MaxValue]

(* All translations before this one are blank, and what was taken from its *)
(* text are the fields up to this one.                                     *)
Position(T, w) ==
  /\ w.entry <= Len(T) + 1
  /\ \A j \in 1 .. w.entry - 1 : T[j] = Pair!Blank
  /\ w.entry = Len(T) + 1 \/ T[w.entry] = Pair!Blank
       => w.seen = 0 /\ w.field = 1 /\ w.parts = Pair!Zeroes
  /\ w.entry <= Len(T) =>
       /\ Digits(T[w.entry], w.parts, w.seen)
       /\ \/ w.field = w.seen + 1 /\ (w.seen > 0 => Pair!IsNumber(T[w.entry][w.seen]))
          \/ w.field = Len(T[w.entry]) + 1 /\ EndsAt(T[w.entry], w.seen)

PairInv ==
  /\ PairTypeOK
  /\ at \in {"dll", "host"} => Position(input[at], work)
  /\ at # "dll" => ReadAs(Pair!Stated("dll"), work.dll)
  /\ at \in {"compare", "decided"} => ReadAs(Pair!Stated("host"), work.host)
  /\ at = "decided" => work.compatible = (work.dll # <<>> /\ work.dll = work.host)

(* Functions are the same if their values are.                             *)
LEMMA SameFunction ==
  ASSUME NEW S, NEW T, NEW p \in [S -> T], NEW q \in [S -> T], \A x \in S : p[x] = q[x]
  PROVE  p = q
OBVIOUS

(* What is assumed of the constants.                                       *)
LEMMA PairConstants ==
  Components \in Nat \ {0} /\ MaxValue \in Nat \ {0} /\ MaxFields \in Nat \ {0}
BY ConstantsFit DEF Pair!ConstantsFit

(* A version that could be read begins with digits.                        *)
LEMMA ReadHasDigits ==
  ASSUME NEW t, NEW v, ReadAs(t, v), v # <<>>
  PROVE  t # Pair!Blank /\ Pair!HasDigits(t[1])
BY DEF ReadAs, Digits

(* A text of plain numbers is read as its number.                          *)
LEMMA PlainIsRead ==
  ASSUME NEW t \in Seq(Pair!Fields), NEW v, ReadAs(t, v), t # Pair!Blank, Pair!Plain(t)
  PROVE  /\ v # <<>>
         /\ v \in [1 .. Components -> 0 .. MaxValue]
         /\ \A i \in 1 .. Components : v[i] = Pair!Number(t, i)
<1> USE PairConstants
<1>1. PICK parts \in [1 .. Components -> 0 .. MaxValue], seen \in 0 .. Components :
        /\ Digits(t, parts, seen)
        /\ seen = Components \/ seen = Len(t) \/ EndsAt(t, seen)
        /\ v = IF seen > 0 THEN parts ELSE <<>>
  BY DEF ReadAs
<1>2. Len(t) \in Nat \ {0}
  BY DEF Pair!Blank
<1>3. ~EndsAt(t, seen)
  <2>1. \A i \in 1 .. Len(t) : Pair!IsNumber(t[i]) /\ Pair!HasDigits(t[i])
    BY DEF Pair!Plain, Pair!IsNumber, Pair!HasDigits
  <2>2. seen > 0 => seen \in 1 .. Len(t)
    BY <1>1, <1>2 DEF Digits
  <2>3. seen < Len(t) => seen + 1 \in 1 .. Len(t)
    BY <1>2
  <2> QED
    BY <2>1, <2>2, <2>3 DEF EndsAt
<1>4. seen > 0 /\ v = parts
  BY <1>1, <1>2, <1>3
<1>5. v # <<>>
  BY <1>4
<1>6. ASSUME NEW i \in 1 .. Components PROVE v[i] = Pair!Number(t, i)
  BY <1>1, <1>2, <1>3, <1>4 DEF Digits, Pair!Number
<1> QED
  BY <1>4, <1>5, <1>6

(* Digits behind a plain prefix are read as they are.                      *)
LEMMA DigitsAreRead ==
  ASSUME NEW t \in Seq(Pair!Fields), NEW v, ReadAs(t, v),
         NEW i \in 1 .. Components, i <= Len(t),
         Pair!Plain(SubSeq(t, 1, i - 1)), Pair!HasDigits(t[i])
  PROVE  v[i] = t[i].digits
<1> USE PairConstants
<1>1. PICK parts \in [1 .. Components -> 0 .. MaxValue], seen \in 0 .. Components :
        /\ Digits(t, parts, seen)
        /\ seen = Components \/ seen = Len(t) \/ EndsAt(t, seen)
        /\ v = IF seen > 0 THEN parts ELSE <<>>
  BY DEF ReadAs, Pair!Blank
<1>2. ASSUME NEW j \in 1 .. i - 1 PROVE Pair!IsNumber(t[j])
  <2>1. Len(SubSeq(t, 1, i - 1)) = i - 1 /\ SubSeq(t, 1, i - 1)[j] = t[j]
    OBVIOUS
  <2> QED
    BY <2>1 DEF Pair!Plain
<1>3. seen >= i
  <2> SUFFICES ASSUME seen < i PROVE FALSE
    OBVIOUS
  <2>1. EndsAt(t, seen)
    BY <1>1
  <2>2. seen + 1 \in 1 .. i - 1 \/ seen + 1 = i
    OBVIOUS
  <2>3. Pair!HasDigits(t[seen + 1])
    BY <1>2, <2>2 DEF Pair!IsNumber, Pair!HasDigits
  <2> QED
    BY <1>2, <2>1, <2>3 DEF EndsAt
<1> QED
  BY <1>1, <1>3 DEF Digits

(* Where the first translation that is not blank lies.                     *)
LEMMA StatedIsFirst ==
  ASSUME NEW f \in {"dll", "host"}, input[f] \in Seq(Seq(Pair!Fields)),
         NEW n \in 1 .. Len(input[f]) + 1,
         \A j \in 1 .. n - 1 : input[f][j] = Pair!Blank,
         n <= Len(input[f]) => input[f][n] # Pair!Blank
  PROVE  Pair!Stated(f) = IF n <= Len(input[f]) THEN input[f][n] ELSE Pair!Blank
<1> DEFINE present == {i \in 1 .. Len(input[f]) : input[f][i] # Pair!Blank}
<1>1. CASE n <= Len(input[f])
  <2>1. n \in present /\ \A j \in present : n <= j
    BY <1>1
  <2>2. \A i \in present : (\A j \in present : i <= j) => i = n
    BY <2>1
  <2>3. (CHOOSE i \in present : \A j \in present : i <= j) = n
    BY <2>1, <2>2
  <2> QED
    BY <1>1, <2>1, <2>3 DEF Pair!Stated
<1>2. CASE n = Len(input[f]) + 1
  <2>1. present = {}
    BY <1>2
  <2> QED
    BY <1>2, <2>1 DEF Pair!Stated
<1> QED
  BY <1>1, <1>2

(* Where the reading of a text begins.                                     *)
LEMMA FreshPosition ==
  ASSUME NEW T \in Seq(Seq(Pair!Fields)), NEW w,
         w.entry \in 1 .. Len(T) + 1, \A j \in 1 .. w.entry - 1 : T[j] = Pair!Blank,
         w.field = 1, w.seen = 0, w.parts = Pair!Zeroes
  PROVE  Position(T, w)
<1> USE PairConstants
<1>1. \A i \in 1 .. Components : w.parts[i] = 0
  BY DEF Pair!Zeroes
<1>2. w.entry <= Len(T) => Digits(T[w.entry], w.parts, w.seen)
  BY <1>1 DEF Digits
<1> QED
  BY <1>2 DEF Position

(* The bounded tables are tables.                                          *)
LEMMA FilesAreTables ==
  ASSUME NEW f \in Pair!Files PROVE f \in [{"dll", "host"} -> Seq(Seq(Pair!Fields))]
<1> USE PairConstants
<1>1. Pair!Texts \subseteq Seq(Pair!Fields)
  <2> SUFFICES ASSUME NEW n \in 1 .. MaxFields, NEW t \in [1 .. n -> Pair!Fields]
               PROVE  t \in Seq(Pair!Fields)
    BY DEF Pair!Texts
  <2> QED
    OBVIOUS
<1>2. Pair!Second \in Seq(Pair!Fields) /\ Pair!Blank \in Seq(Pair!Fields)
  BY DEF Pair!Second, Pair!Fields, Pair!Blank
<1>3. Pair!OneEntry \subseteq Seq(Seq(Pair!Fields))
  <2>1. ASSUME NEW t \in Seq(Pair!Fields) PROVE <<t>> \in Seq(Seq(Pair!Fields))
    OBVIOUS
  <2>2. ASSUME NEW e \in Pair!OneEntry PROVE e \in Seq(Seq(Pair!Fields))
    <3>1. CASE e = <<>> \/ e = <<Pair!Blank>>
      <4>1. <<Pair!Blank>> \in Seq(Seq(Pair!Fields)) /\ <<>> \in Seq(Seq(Pair!Fields))
        BY <1>2, <2>1
      <4> QED
        BY <3>1, <4>1
    <3>2. CASE \E t \in Pair!Texts : e = <<t>>
      BY <1>1, <2>1, <3>2
    <3> QED
      BY <3>1, <3>2 DEF Pair!OneEntry
  <2> QED
    BY <2>2
<1>4. ASSUME NEW g \in Pair!Fields
      PROVE  /\ <<Pair!Blank, <<g>>>> \in Seq(Seq(Pair!Fields))
             /\ <<<<g>>, Pair!Second>> \in Seq(Seq(Pair!Fields))
  <2>1. <<g>> \in Seq(Pair!Fields)
    OBVIOUS
  <2> QED
    BY <1>2, <2>1
<1>5. f.dll \in Seq(Seq(Pair!Fields)) /\ f.host \in Seq(Seq(Pair!Fields))
  BY <1>3, <1>4 DEF Pair!Files
<1> QED
  BY <1>5, ZenonT(60) DEF Pair!Files

(* At the first translation of the DLL's table, with nothing taken.        *)
LEMMA PairInit == Pair!Init => PairInv
<1> SUFFICES ASSUME Pair!Init PROVE PairInv
  OBVIOUS
<1> USE PairConstants DEF Pair!Init
<1>1. PairTypeOK
  <2>1. Pair!Zeroes \in [1 .. Components -> 0 .. MaxValue]
    BY DEF Pair!Zeroes
  <2>2. input \in [{"dll", "host"} -> Seq(Seq(Pair!Fields))]
    BY FilesAreTables
  <2> QED
    BY <2>1, <2>2 DEF PairTypeOK
<1>2. Position(input[at], work)
  <2>1. input["dll"] \in Seq(Seq(Pair!Fields)) /\ at = "dll"
    BY <1>1 DEF PairTypeOK
  <2>2. work.entry = 1 /\ work.field = 1 /\ work.seen = 0 /\ work.parts = Pair!Zeroes
    OBVIOUS
  <2>3. work.entry \in 1 .. Len(input["dll"]) + 1 /\ 1 .. work.entry - 1 = {}
    BY <2>1, <2>2
  <2> QED
    BY <2>1, <2>2, <2>3, FreshPosition
<1> QED
  BY <1>1, <1>2 DEF PairInv

(* The next file is read from its beginning.                               *)
LEMMA NextFileKeepsInv ==
  ASSUME PairInv, at \in {"dll", "host"}, NEW v, ReadAs(Pair!Stated(at), v), Pair!NextFile(v)
  PROVE  PairInv'
<1> USE PairConstants
<1>1. /\ work'[at] = v /\ (at = "host" => work'.dll = work.dll)
      /\ work'.entry = 1 /\ work'.field = 1 /\ work'.seen = 0 /\ work'.parts = Pair!Zeroes
      /\ DOMAIN work' = DOMAIN work
      /\ input' = input /\ at' = IF at = "dll" THEN "host" ELSE "compare"
  BY DEF PairInv, PairTypeOK, Pair!NextFile
<1>2. PairTypeOK'
  <2>1. Pair!Zeroes \in [1 .. Components -> 0 .. MaxValue]
    BY DEF Pair!Zeroes
  <2> QED
    BY <1>1, <2>1 DEF PairInv, PairTypeOK
<1>3. at' = "host" => Position(input[at'], work')
  <2>1. input["host"] \in Seq(Seq(Pair!Fields))
    BY DEF PairInv, PairTypeOK
  <2> QED
    BY <1>1, <2>1, FreshPosition
<1>4. /\ Pair!Stated("dll")' = Pair!Stated("dll")
      /\ Pair!Stated("host")' = Pair!Stated("host")
  BY <1>1 DEF Pair!Stated
<1> QED
  BY <1>1, <1>2, <1>3, <1>4 DEF PairInv

(* One more field with digits.                                             *)
LEMMA DigitsGrow ==
  ASSUME NEW t \in Seq(Pair!Fields), NEW seen \in 0 .. Components - 1,
         NEW parts \in [1 .. Components -> 0 .. MaxValue],
         Digits(t, parts, seen), seen < Len(t), seen > 0 => Pair!IsNumber(t[seen]),
         Pair!HasDigits(t[seen + 1]),
         NEW q, q = [parts EXCEPT ![seen + 1] = t[seen + 1].digits]
  PROVE  /\ q \in [1 .. Components -> 0 .. MaxValue]
         /\ Digits(t, q, seen + 1)
<1> USE PairConstants
<1>1. t[seen + 1].digits \in 0 .. MaxValue
  BY DEF Pair!HasDigits
<1>2. q \in [1 .. Components -> 0 .. MaxValue]
  BY <1>1
<1>3. \A i \in 1 .. Components : q[i] = IF i = seen + 1 THEN t[seen + 1].digits ELSE parts[i]
  OBVIOUS
<1>4. ASSUME NEW i \in 1 .. seen + 1 PROVE Pair!HasDigits(t[i]) /\ q[i] = t[i].digits
  BY <1>3 DEF Digits
<1>5. ASSUME NEW i \in 1 .. (seen + 1) - 1 PROVE Pair!IsNumber(t[i])
  <2>1. i = seen \/ i \in 1 .. seen - 1
    OBVIOUS
  <2> QED
    BY <2>1 DEF Digits
<1>6. ASSUME NEW i \in (seen + 1) + 1 .. Components PROVE q[i] = 0
  BY <1>3 DEF Digits
<1> QED
  BY <1>2, <1>4, <1>5, <1>6 DEF Digits

(* A position is never the zeroth.                                         *)
LEMMA Successor == \A n \in Nat : n + 1 \in Nat \ {0}
OBVIOUS

(* A field with digits, or one without any, is read.                       *)
LEMMA FieldKeepsPosition ==
  ASSUME NEW T \in Seq(Seq(Pair!Fields)), NEW w, NEW w2,
         w.entry \in 1 .. Len(T), w.seen \in 0 .. Components,
         w.parts \in [1 .. Components -> 0 .. MaxValue],
         Position(T, w), w.field <= Len(T[w.entry]), w.seen < Components,
         w2.entry = w.entry, NEW f, f = T[w.entry][w.field],
         \/ /\ Pair!HasDigits(f) /\ w2.seen = w.seen + 1
            /\ w2.parts = [w.parts EXCEPT ![w.seen + 1] = f.digits]
            /\ \/ w2.field = w.field + 1 /\ Pair!IsNumber(f)
               \/ w2.field = Len(T[w.entry]) + 1 /\ ~Pair!IsNumber(f)
         \/ /\ ~Pair!HasDigits(f) /\ w2.seen = w.seen /\ w2.parts = w.parts
            /\ w2.field = Len(T[w.entry]) + 1
  PROVE  /\ Position(T, w2) /\ w2.field \in Nat \ {0} /\ w2.seen \in 0 .. Components
         /\ w2.parts \in [1 .. Components -> 0 .. MaxValue]
<1> USE PairConstants
<1>1. PICK t \in Seq(Pair!Fields) :
        t = T[w.entry] /\ Len(t) \in Nat /\ w.seen \in Nat
  BY SMTT(30)
<1>2. /\ Digits(t, w.parts, w.seen)
      /\ \/ w.field = w.seen + 1 /\ (w.seen > 0 => Pair!IsNumber(t[w.seen]))
         \/ w.field = Len(t) + 1 /\ EndsAt(t, w.seen)
  BY <1>1 DEF Position
<1>3. /\ w.field = w.seen + 1 /\ (w.seen > 0 => Pair!IsNumber(t[w.seen]))
      /\ w.field \in 1 .. Len(t) /\ t # <<>>
  <2>1. w.field <= Len(t)
    BY <1>1
  <2>2. w.field = w.seen + 1 /\ (w.seen > 0 => Pair!IsNumber(t[w.seen]))
    BY <1>1, <1>2, <2>1
  <2>3. w.field \in 1 .. Len(t)
    BY <1>1, <2>1, <2>2
  <2>4. t # <<>>
    BY <2>3
  <2> QED
    BY <2>2, <2>3, <2>4
<1>4. CASE Pair!HasDigits(t[w.field])
  <2>1. /\ w2.seen = w.seen + 1
        /\ w2.parts = [w.parts EXCEPT ![w.seen + 1] = t[w.field].digits]
        /\ \/ w2.field = w.field + 1 /\ Pair!IsNumber(t[w.field])
           \/ w2.field = Len(t) + 1 /\ ~Pair!IsNumber(t[w.field])
    BY <1>1, <1>4
  <2>2. w2.parts \in [1 .. Components -> 0 .. MaxValue] /\ Digits(t, w2.parts, w2.seen)
    <3>1. w.seen \in 0 .. Components - 1 /\ w.seen < Len(t)
      BY <1>3
    <3>2. w2.parts = [w.parts EXCEPT ![w.seen + 1] = t[w.seen + 1].digits]
      BY <1>3, <2>1
    <3>3. Pair!HasDigits(t[w.seen + 1])
      BY <1>3, <1>4
    <3> QED
      <4>1. w2.seen = w.seen + 1 /\ (w.seen > 0 => Pair!IsNumber(t[w.seen]))
        BY <1>3, <2>1
      <4>2. /\ w2.parts \in [1 .. Components -> 0 .. MaxValue]
            /\ Digits(t, w2.parts, w.seen + 1)
        BY <1>2, <3>1, <3>2, <3>3, <4>1, DigitsGrow
      <4> QED
        BY <4>1, <4>2
  <2>3. w2.seen \in 1 .. Len(t) /\ w2.seen \in 0 .. Components /\ w2.field \in Nat \ {0}
    <3>1. w.seen \in Nat /\ w.field \in Nat /\ Len(t) \in Nat
      BY <1>1, <1>3
    <3>2. w2.seen = w.seen + 1 /\ w2.seen \in 1 .. Len(t)
      BY <1>3, <2>1, <3>1
    <3>3. w2.seen \in 0 .. Components
      <4>1. Components \in Nat /\ w.seen + 1 <= Components
        BY <3>1
      <4> QED
        BY <3>2, <4>1
    <3>4. w2.field \in Nat \ {0}
      <4>1. w2.field = w.field + 1 \/ w2.field = Len(t) + 1
        BY <2>1
      <4> QED
        BY <3>1, <4>1, Successor, Zenon
    <3> QED
      BY <3>2, <3>3, <3>4
  <2>4. \/ w2.field = w2.seen + 1 /\ (w2.seen > 0 => Pair!IsNumber(t[w2.seen]))
        \/ w2.field = Len(t) + 1 /\ EndsAt(t, w2.seen)
    BY <1>3, <2>1, <2>3, SMTT(30) DEF EndsAt
  <2>5. /\ w2.entry \in 1 .. Len(T) /\ T[w2.entry] = t
        /\ \A j \in 1 .. w2.entry - 1 : T[j] = Pair!Blank
    BY <1>1 DEF Position
  <2>6. w2.entry <= Len(T) /\ w2.entry # Len(T) + 1 /\ T[w2.entry] # Pair!Blank
    BY <1>3, <2>5 DEF Pair!Blank
  <2> QED
    BY <2>2, <2>3, <2>4, <2>5, <2>6 DEF Position
<1>5. CASE ~Pair!HasDigits(t[w.field])
  <2>1. w2.seen = w.seen /\ w2.parts = w.parts /\ w2.field = Len(t) + 1
    BY <1>1, <1>5
  <2>2. EndsAt(t, w2.seen)
    BY <1>3, <1>5, <2>1 DEF EndsAt
  <2>3. Digits(t, w2.parts, w2.seen)
    BY <1>2, <2>1
  <2>4. w2.seen \in 0 .. Components /\ w2.field \in Nat \ {0}
    BY <1>3, <2>1
  <2>5. /\ w2.entry \in 1 .. Len(T) /\ T[w2.entry] = t
        /\ \A j \in 1 .. w2.entry - 1 : T[j] = Pair!Blank
    BY <1>1 DEF Position
  <2>6. w2.entry <= Len(T) /\ w2.entry # Len(T) + 1 /\ T[w2.entry] # Pair!Blank
    BY <1>3, <2>5 DEF Pair!Blank
  <2> QED
    BY <2>1, <2>2, <2>3, <2>4, <2>5, <2>6 DEF Position
<1> QED
  BY <1>4, <1>5

(* What a text comes to when no field is left, or none counts.             *)
LEMMA TextIsRead ==
  ASSUME NEW T \in Seq(Seq(Pair!Fields)), NEW w,
         w.entry \in 1 .. Len(T), w.seen \in 0 .. Components,
         w.parts \in [1 .. Components -> 0 .. MaxValue], w.field \in Nat,
         Position(T, w), T[w.entry] # Pair!Blank,
         ~(w.field <= Len(T[w.entry]) /\ w.seen < Components)
  PROVE  ReadAs(T[w.entry], IF w.seen > 0 THEN w.parts ELSE <<>>)
<1> USE PairConstants
<1>1. PICK t \in Seq(Pair!Fields) : t = T[w.entry]
  OBVIOUS
<1>2. Digits(t, w.parts, w.seen)
  BY <1>1 DEF Position
<1>3. w.seen = Components \/ w.seen = Len(t) \/ EndsAt(t, w.seen)
  BY <1>1, <1>2, SMTT(30) DEF Position, Digits
<1> QED
  BY <1>1, <1>2, <1>3 DEF ReadAs

(* Every step of a comparison keeps the invariant.                         *)
LEMMA PairStep == ASSUME PairInv, Pair!Next PROVE PairInv'
<1> USE PairConstants
<1>1. at \in {"dll", "host"} =>
        /\ input[at] \in Seq(Seq(Pair!Fields)) /\ Position(input[at], work)
        /\ work.entry \in 1 .. Len(input[at]) + 1
        /\ \A j \in 1 .. work.entry - 1 : input[at][j] = Pair!Blank
  BY DEF PairInv, PairTypeOK, Position
<1>2. CASE Pair!SkipEntry
  <2>1. /\ at \in {"dll", "host"} /\ input' = input /\ at' = at
        /\ work.entry <= Len(input[at]) /\ input[at][work.entry] = Pair!Blank
        /\ work'.entry = work.entry + 1 /\ work'.field = work.field
        /\ work'.seen = work.seen /\ work'.parts = work.parts
        /\ work'.dll = work.dll /\ DOMAIN work' = DOMAIN work
    BY <1>2 DEF PairInv, PairTypeOK, Pair!SkipEntry, Pair!Reading, Pair!MoreEntries, Pair!Table
  <2>2. work'.seen = 0 /\ work'.field = 1 /\ work'.parts = Pair!Zeroes
    BY <1>1, <2>1 DEF Position
  <2>3. Position(input[at], work')
    <3>1. work'.entry \in 1 .. Len(input[at]) + 1
      BY <1>1, <2>1
    <3>2. \A j \in 1 .. work'.entry - 1 : input[at][j] = Pair!Blank
      BY <1>1, <2>1
    <3> QED
      BY <1>1, <2>1, <2>2, <3>1, <3>2, FreshPosition
  <2>4. PairTypeOK' /\ Pair!Stated("dll")' = Pair!Stated("dll")
    BY <2>1, SMTT(30) DEF PairInv, PairTypeOK, Pair!Stated
  <2> QED
    BY <2>1, <2>3, <2>4 DEF PairInv
<1>3. CASE Pair!Unreadable
  <2>1. at \in {"dll", "host"} /\ ~(work.entry <= Len(input[at])) /\ Pair!NextFile(<<>>)
    BY <1>3 DEF Pair!Unreadable, Pair!Reading, Pair!MoreEntries, Pair!Table
  <2>2. Pair!Stated(at) = Pair!Blank
    BY <1>1, <2>1, StatedIsFirst
  <2>3. ReadAs(Pair!Stated(at), <<>>)
    BY <2>2 DEF ReadAs
  <2> QED
    BY <2>1, <2>3, NextFileKeepsInv
<1>4. CASE Pair!Parsed
  <2>1. /\ at \in {"dll", "host"} /\ work.entry <= Len(input[at])
        /\ input[at][work.entry] # Pair!Blank
        /\ ~(work.field <= Len(input[at][work.entry]) /\ work.seen < Components)
        /\ Pair!NextFile(IF work.seen > 0 THEN work.parts ELSE <<>>)
    BY <1>4 DEF Pair!Parsed, Pair!HasText, Pair!Parsing, Pair!Text, Pair!Reading,
         Pair!MoreEntries, Pair!Table, Pair!AnySeen
  <2>2. Pair!Stated(at) = input[at][work.entry]
    BY <1>1, <2>1, StatedIsFirst
  <2>3. /\ work.entry \in 1 .. Len(input[at]) /\ work.seen \in 0 .. Components
        /\ work.parts \in [1 .. Components -> 0 .. MaxValue] /\ work.field \in Nat
    BY <1>1, <2>1 DEF PairInv, PairTypeOK
  <2>4. ReadAs(input[at][work.entry], IF work.seen > 0 THEN work.parts ELSE <<>>)
    BY <1>1, <2>1, <2>3, TextIsRead
  <2> QED
    BY <2>1, <2>2, <2>4, NextFileKeepsInv
<1>5. CASE Pair!NumericField \/ Pair!LabelledField
  <2>1. /\ at \in {"dll", "host"} /\ work.entry <= Len(input[at])
        /\ input[at][work.entry] # Pair!Blank
        /\ work.field <= Len(input[at][work.entry]) /\ work.seen < Components
    BY <1>5 DEF Pair!NumericField, Pair!LabelledField, Pair!HasText, Pair!Parsing,
         Pair!Text, Pair!Reading, Pair!MoreEntries, Pair!Table
  <2>2. PICK t \in Seq(Pair!Fields) : t = input[at][work.entry]
    BY <1>1, <2>1
  <2>3. /\ work.entry \in 1 .. Len(input[at]) /\ work.seen \in 0 .. Components
        /\ work.parts \in [1 .. Components -> 0 .. MaxValue]
    BY <1>1, <2>1, SMTT(30) DEF PairInv, PairTypeOK
  <2>4. /\ input' = input /\ at' = at /\ DOMAIN work' = DOMAIN work
        /\ work'.dll = work.dll /\ work'.entry = work.entry
        /\ \/ /\ Pair!HasDigits(t[work.field]) /\ work'.seen = work.seen + 1
              /\ work'.parts = [work.parts EXCEPT ![work.seen + 1] = t[work.field].digits]
              /\ \/ work'.field = work.field + 1 /\ Pair!IsNumber(t[work.field])
                 \/ work'.field = Len(t) + 1 /\ ~Pair!IsNumber(t[work.field])
           \/ /\ ~Pair!HasDigits(t[work.field]) /\ work'.seen = work.seen
              /\ work'.parts = work.parts /\ work'.field = Len(t) + 1
    BY <1>5, <2>2 DEF PairInv, PairTypeOK, Pair!NumericField, Pair!LabelledField, Pair!Text,
         Pair!Table, Pair!Take, Pair!KeepDigits, Pair!IsNumber, Pair!HasDigits
  <2>5. /\ Position(input[at], work') /\ work'.field \in Nat \ {0}
        /\ work'.seen \in 0 .. Components
        /\ work'.parts \in [1 .. Components -> 0 .. MaxValue]
    BY <1>1, <2>1, <2>2, <2>3, <2>4, FieldKeepsPosition, ZenonT(60)
  <2>6. PairTypeOK' /\ Pair!Stated("dll")' = Pair!Stated("dll")
    BY <2>4, <2>5 DEF PairInv, PairTypeOK, Pair!Stated
  <2> QED
    BY <2>1, <2>4, <2>5, <2>6 DEF PairInv
<1>6. CASE Pair!Compare
  <2>1. PairTypeOK' /\ input' = input /\ at' = "decided" /\ at = "compare"
    BY <1>6 DEF PairInv, PairTypeOK, Pair!Compare
  <2>2. work'.dll = work.dll /\ work'.host = work.host
    BY <1>6 DEF PairInv, PairTypeOK, Pair!Compare
  <2>3. work'.compatible = (work'.dll # <<>> /\ work'.dll = work'.host)
    <3>1. work'.compatible = (work.dll # <<>> /\ work.dll = work.host)
      BY <1>6 DEF PairInv, PairTypeOK, Pair!Compare
    <3> QED
      BY <2>2, <3>1
  <2>4. /\ Pair!Stated("dll")' = Pair!Stated("dll")
        /\ Pair!Stated("host")' = Pair!Stated("host")
    BY <2>1 DEF Pair!Stated
  <2> QED
    BY <2>1, <2>2, <2>3, <2>4 DEF PairInv
<1>7. CASE Pair!Decided
  <2>1. UNCHANGED <<input, at, work>>
    BY <1>7 DEF Pair!Decided, Pair!vars
  <2>2. /\ PairTypeOK' /\ Pair!Stated("dll")' = Pair!Stated("dll")
        /\ Pair!Stated("host")' = Pair!Stated("host")
    BY <2>1 DEF PairInv, PairTypeOK, Pair!Stated
  <2> QED
    BY <2>1, <2>2 DEF PairInv
<1> QED
  BY <1>2, <1>3, <1>4, <1>5, <1>6, <1>7 DEF Pair!Next

(* What the invariant says of a comparison that is over.                   *)
LEMMA InvGivesProven == PairInv => Pair!PairIsProven
<1> SUFFICES ASSUME PairInv, at = "decided" PROVE Pair!PairIsProven
  BY DEF Pair!PairIsProven
<1> DEFINE d == Pair!Stated("dll")
           h == Pair!Stated("host")
<1>1. ReadAs(d, work.dll) /\ ReadAs(h, work.host)
  BY DEF PairInv
<1>2. work.compatible = (work.dll # <<>> /\ work.dll = work.host)
  BY DEF PairInv
<1>3. d \in Seq(Pair!Fields) /\ h \in Seq(Pair!Fields)
  <2>1. Pair!Blank \in Seq(Pair!Fields)
    BY DEF Pair!Blank
  <2> HIDE DEF d, h
  <2> QED
    BY <1>1, <2>1 DEF ReadAs
<1> HIDE DEF d, h
<1>4. Pair!ReleasesDecide(d, h)
  <2> SUFFICES ASSUME d # Pair!Blank, h # Pair!Blank, Pair!Plain(d), Pair!Plain(h)
               PROVE  work.compatible =
                        (\A i \in 1 .. Components : Pair!Number(d, i) = Pair!Number(h, i))
    BY DEF Pair!ReleasesDecide
  <2>1. /\ work.dll # <<>> /\ work.dll \in [1 .. Components -> 0 .. MaxValue]
        /\ \A i \in 1 .. Components : work.dll[i] = Pair!Number(d, i)
    BY <1>1, <1>3, PlainIsRead
  <2>2. /\ work.host \in [1 .. Components -> 0 .. MaxValue]
        /\ \A i \in 1 .. Components : work.host[i] = Pair!Number(h, i)
    BY <1>1, <1>3, PlainIsRead
  <2>3. CASE work.dll = work.host
    BY <1>2, <2>1, <2>2, <2>3
  <2>4. CASE work.dll # work.host
    <3>1. PICK i \in 1 .. Components : work.dll[i] # work.host[i]
      <4> DEFINE S == 1 .. Components
                 T == 0 .. MaxValue
      <4>1. work.dll \in [S -> T] /\ work.host \in [S -> T]
        BY <2>1, <2>2
      <4> HIDE DEF S, T
      <4>2. \E i \in S : work.dll[i] # work.host[i]
        BY <2>4, <4>1, SameFunction
      <4> QED
        BY <4>2 DEF S
    <3> QED
      BY <1>2, <2>1, <2>2, <2>4, <3>1
  <2> QED
    BY <2>3, <2>4
<1>5. Pair!DigitsTellApart(d, h)
  <2> SUFFICES ASSUME NEW i \in 1 .. Components, i <= Len(d), i <= Len(h),
                      Pair!Plain(SubSeq(d, 1, i - 1)), Pair!Plain(SubSeq(h, 1, i - 1)),
                      Pair!HasDigits(d[i]), Pair!HasDigits(h[i]),
                      d[i].digits # h[i].digits
               PROVE  ~work.compatible
    BY DEF Pair!DigitsTellApart
  <2>1. work.dll[i] = d[i].digits
    BY <1>1, <1>3, DigitsAreRead
  <2>2. work.host[i] = h[i].digits
    BY <1>1, <1>3, DigitsAreRead
  <2> QED
    BY <1>2, <2>1, <2>2
<1>6. work.compatible => \A t \in {d, h} : t # Pair!Blank /\ Pair!HasDigits(t[1])
  BY <1>1, <1>2, ReadHasDigits
<1> QED
  BY <1>4, <1>5, <1>6 DEF Pair!PairIsProven, d, h

(* Only a check of a version pair works on these variables.                *)
THEOREM PairInvHolds == Spec => [](command = "load" => PairInv)
<1>1. Init => (command = "load" => PairInv)
  BY PairInit DEF Init
<1>2. (command = "load" => PairInv) /\ [Next]_vars => (command = "load" => PairInv)'
  <2> SUFFICES ASSUME PairInv, [Next]_vars, command = "load" PROVE PairInv'
    BY DEF Next, vars
  <2>1. CASE Pair!Next
    BY <2>1, PairStep
  <2>2. CASE UNCHANGED vars
    <3>1. UNCHANGED <<input, at, work>>
      BY <2>2 DEF vars, sequential
    <3>2. PairTypeOK' /\ Pair!Stated("dll")' = Pair!Stated("dll")
          /\ Pair!Stated("host")' = Pair!Stated("host")
      BY <3>1 DEF PairInv, PairTypeOK, Pair!Stated
    <3> QED
      BY <3>1, <3>2 DEF PairInv
  <2> QED
    BY <2>1, <2>2 DEF Next
<1> QED
  BY <1>1, <1>2, PTL DEF Spec

(* A DLL and a host pass as a pair only if their release numbers prove it  *)
(* (bundle.rs:189-283).                                                    *)
THEOREM PairsAreProven == Spec => []PairIsProven
<1>1. (command = "load" => PairInv) => PairIsProven
  BY InvGivesProven DEF PairIsProven
<1> QED
  BY <1>1, PairInvHolds, PTL

-----------------------------------------------------------------------------
(* The evidence for a release.                                             *)

(* The stages of verify-release, from each of them to its end.             *)
FromAttest == {"attest", "verified"}
FromVcs    == FromAttest \cup {"vcs"}
FromTag    == FromVcs \cup {"tag"}
FromSbom   == FromTag \cup {"sbom"}
FromIndex  == FromSbom \cup {"index"}
FromLines  == FromIndex \cup {"lines"}

EvidenceTypeOK ==
  /\ at \in FromLines \cup {"release", "download", "refused"}
  /\ DOMAIN work =
       {"release", "files", "lines", "index", "sbom", "chain", "recorded", "attested"}
  /\ work.lines \in Seq(Release!Lines)
  /\ work.chain \in Seq(Release!Objects)
  /\ work.attested \in Seq(SUBSET (Release!Documents \cup {Release!Absent}))

(* The lines of a complete SHA256SUMS.                                     *)
Checksums == {[name |-> t, hash |-> work.files[t]] : t \in Targets}

SbomAgrees ==
  /\ work.sbom \in Release!Documents
  /\ Release!HashAgrees(work.sbom.hashes)
  /\ Len(work.sbom.distributions) = 1 /\ work.sbom.distributions[1].url
  /\ Release!HashAgrees(work.sbom.distributions[1].hashes)

(* All but the last object of the chain are tags.                          *)
IsTagChain ==
  /\ Len(work.chain) <= MaxNesting + 1
  /\ \A i \in 1 .. Len(work.chain) - 1 : work.chain[i].type = "tag"

SbomAttested ==
  \A i \in 1 .. Len(work.attested) :
    i \in Release!Provenance \/ work.attested[i] = {work.sbom}

(* Nothing is there before its time; what has been accepted stays, and the *)
(* later evidence has been compared to it.                                 *)
EvidenceInv ==
  /\ EvidenceTypeOK
  /\ at \notin FromTag \cup {"refused"} => work.chain = <<>>
  /\ at \notin FromAttest \cup {"refused"} => work.attested = <<>>
  /\ at \in FromLines \cup {"download"} =>
       Release!ToSet(work.release.assets) = Release!Assets
  /\ at \in FromIndex => Release!ToSet(work.lines) = Checksums
  /\ at \in FromSbom => work.index = <<Release!CrateSha256>>
  /\ at \in FromTag => SbomAgrees /\ IsTagChain
  /\ at \in FromVcs => work.chain # <<>> /\ Release!Tip.type = "commit"
  /\ at \in FromAttest => work.recorded[1].sha1 = Release!Tip.id /\ SbomAttested
  /\ at = "verified" => Len(work.attested) = Len(Release!Attestations)

(* A bounded sequence is one.                                              *)
LEMMA BoundedIsSequence ==
  ASSUME NEW S, NEW n, NEW s \in Release!BoundedSeq(S, n)
  PROVE  s \in Seq(S)
BY DEF Release!BoundedSeq, Release!SeqOf

(* A list with as many entries as there are names, and with every name,    *)
(* has no other entry and none twice.                                      *)
LEMMA ExactList ==
  ASSUME NEW A, NEW n \in Nat, NEW T, NEW s \in [1 .. n -> T], n = Cardinality(A),
         \A a \in A : \E i \in 1 .. n : s[i] = a
  PROVE  s \in Injection(1 .. n, A)
<1> DEFINE D == 1 .. n
           R == {s[i] : i \in D}
<1>1. IsFiniteSet(D) /\ Cardinality(D) = n
  BY FS_Interval
<1>2. s \in Surjection(D, R)
  BY DEF Surjection
<1>3. IsFiniteSet(R) /\ Cardinality(R) <= n
      /\ (Cardinality(R) = n => s \in Injection(D, R))
  <2> HIDE DEF D, R
  <2> QED
    BY <1>1, <1>2, FS_Surjection
<1>4. A \in SUBSET R
  OBVIOUS
<1>5. n <= Cardinality(R) /\ (Cardinality(R) = n => R = A)
  <2> HIDE DEF R
  <2> QED
    BY <1>3, <1>4, FS_Subset
<1>6. Cardinality(R) = n
  <2> HIDE DEF R
  <2>1. Cardinality(R) \in Nat
    BY <1>3, FS_CardinalityType
  <2> QED
    BY <1>3, <1>5, <2>1
<1>7. R = A /\ s \in Injection(D, R)
  BY <1>3, <1>5, <1>6
<1> QED
  BY <1>7

(* The model's own copy of a library operator.                             *)
LEMMA SameCardinality == \A S : Release!Cardinality(S) = Cardinality(S)
BY DEF Release!Cardinality, Cardinality, Release!IsFiniteSet, IsFiniteSet

(* A component whose single digest agrees states the digest of the crate   *)
(* and no other.                                                           *)
LEMMA AgreedDigest ==
  ASSUME NEW S, NEW h \in Seq(S), Release!HashAgrees(h)
  PROVE  Release!DigestsIn(h) = {Release!CrateSha256}
<1> DEFINE I == Release!Sha256(h)
<1>1. IsFiniteSet(I)
  <2>1. IsFiniteSet(1 .. Len(h)) /\ I \in SUBSET (1 .. Len(h))
    BY FS_Interval DEF Release!Sha256
  <2> HIDE DEF I
  <2> QED
    BY <2>1, FS_Subset
<1>2. Cardinality(I) = 1
  BY SameCardinality DEF Release!HashAgrees, Release!SingleSha256
<1>3. \E i : I = {i}
  <2> HIDE DEF I
  <2> QED
    BY <1>1, <1>2, FS_Singleton
<1>4. PICK i \in 1 .. Len(h) : h[i].alg = "SHA-256" /\ h[i].content = Release!CrateSha256
  BY <1>3 DEF Release!Sha256, Release!HashAgrees
<1>5. \A j \in DOMAIN h : h[j].alg = "SHA-256" => h[j].content = Release!CrateSha256
  BY DEF Release!Sha256, Release!HashAgrees
<1> QED
  BY <1>4, <1>5 DEF Release!DigestsIn, Release!ToSet

(* Exactly the expected assets.                                            *)
LEMMA GoodReleaseIsExact ==
  ASSUME NEW r \in Release!Releases, Release!GoodRelease(r)
  PROVE  Release!ToSet(r.assets) = Release!Assets
<1> DEFINE A == Release!Assets
           s == r.assets
<1>1. PICK T : s \in Seq(T)
  BY BoundedIsSequence DEF Release!Releases
<1>2. /\ s \in [1 .. Len(s) -> T] /\ Len(s) \in Nat
      /\ Len(s) = Cardinality(A) /\ \A a \in A : \E i \in 1 .. Len(s) : s[i] = a
  BY <1>1, SameCardinality DEF Release!GoodRelease, Release!ToSet
<1>3. \A i \in 1 .. Len(s) : s[i] \in A
  <2> HIDE DEF A, s
  <2>1. s \in Injection(1 .. Len(s), A)
    BY <1>2, ExactList
  <2> QED
    BY <2>1 DEF Injection
<1> QED
  BY <1>1, <1>2, <1>3 DEF Release!ToSet

(* As many lines as targets, and each target's among them: exactly those.  *)
LEMMA MatchingLinesAreExact ==
  ASSUME NEW lines \in Seq(Release!Lines), NEW files,
         Len(lines) = Cardinality(Targets),
         \A t \in Targets : \E i \in 1 .. Len(lines) :
           lines[i] = [name |-> t, hash |-> files[t]]
  PROVE  Release!ToSet(lines) = {[name |-> t, hash |-> files[t]] : t \in Targets}
<1> DEFINE n == Len(lines)
           names == [i \in 1 .. n |-> lines[i].name]
           T == Targets \cup {Stranger}
           Line(t) == [name |-> t, hash |-> files[t]]
<1>1. n \in Nat /\ DOMAIN lines = 1 .. n
  OBVIOUS
<1>2. n = Cardinality(Targets)
  OBVIOUS
<1>3. \A t \in Targets : \E i \in 1 .. n : lines[i] = Line(t)
  OBVIOUS
<1>4. \A t : Line(t).name = t
  OBVIOUS
<1>5. names \in [1 .. n -> T]
  <2>1. \A i \in 1 .. n : lines[i] \in Release!Lines
    OBVIOUS
  <2>2. \A i \in 1 .. n : lines[i].name \in T
    BY <2>1 DEF Release!Lines
  <2> HIDE DEF T
  <2> QED
    BY <2>2
<1>6. \A i \in 1 .. n : names[i] = lines[i].name
  OBVIOUS
<1> HIDE DEF n, names, T, Line
<1>7. \A t \in Targets : \E i \in 1 .. n : names[i] = t
  BY <1>3, <1>4, <1>6
<1>8. /\ \A i \in 1 .. n : names[i] \in Targets
      /\ \A i, j \in 1 .. n : names[i] = names[j] => i = j
  <2>1. names \in Injection(1 .. n, Targets)
    BY <1>1, <1>2, <1>5, <1>7, ExactList
  <2> QED
    BY <2>1 DEF Injection, IsInjective
<1>9. \A i \in 1 .. n : lines[i] = Line(names[i])
  BY <1>3, <1>4, <1>6, <1>8
<1>10. Release!ToSet(lines) = {Line(t) : t \in Targets}
  BY <1>1, <1>3, <1>8, <1>9 DEF Release!ToSet
<1> QED
  BY <1>10 DEF Line

(* The same of the lines at hand.                                          *)
LEMMA MatchingChecksumsAreExact ==
  ASSUME work.lines \in Seq(Release!Lines), Release!ChecksumsMatch
  PROVE  Release!ToSet(work.lines) = Checksums
BY SameCardinality, MatchingLinesAreExact DEF Release!ChecksumsMatch, Checksums

(* What a later stage may not change without its evidence being in doubt.  *)
LEMMA EvidenceStays ==
  /\ UNCHANGED <<work.release>> =>
       UNCHANGED Release!ToSet(work.release.assets)
  /\ UNCHANGED <<work.lines, work.files>> =>
       UNCHANGED <<Release!ToSet(work.lines), Checksums, Release!CrateSha256>>
  /\ UNCHANGED <<work.files, work.sbom>> => UNCHANGED SbomAgrees
  /\ UNCHANGED work.chain => UNCHANGED <<IsTagChain, Release!Tip>>
  /\ UNCHANGED <<work.sbom, work.attested>> => UNCHANGED SbomAttested
BY DEF Checksums, Release!CrateSha256, SbomAgrees, Release!HashAgrees,
       IsTagChain, Release!Tip, Release!Last, SbomAttested

(* What is assumed of the constants.                                       *)
LEMMA ReleaseConstants == MaxNesting \in Nat /\ Crate \in Targets
BY ConstantsFit DEF Release!ConstantsFit

(* Nothing is known of a release that was refused.                         *)
LEMMA RefusalKeepsInv ==
  ASSUME EvidenceInv, Release!Refuse
  PROVE  EvidenceInv'
BY DEF EvidenceInv, EvidenceTypeOK, Release!Refuse, FromLines, FromIndex, FromSbom,
       FromTag, FromVcs, FromAttest

(* The release, its files and their checksums.                             *)
LEMMA AssetsKeepInv ==
  ASSUME EvidenceInv,
         \/ Release!ResolveRelease \/ Release!Download \/ Release!ReadLine
         \/ Release!VerifyChecksums
  PROVE  EvidenceInv'
<1> USE DEF EvidenceInv, EvidenceTypeOK, Release!Accept, FromLines, FromIndex, FromSbom,
            FromTag, FromVcs, FromAttest
<1>1. CASE Release!ResolveRelease
  <2>1. PICK r \in Release!Releases :
          Release!Accept(Release!GoodRelease(r), "release", r, "download") /\ at = "release"
    BY <1>1 DEF Release!ResolveRelease
  <2>2. CASE Release!GoodRelease(r)
    <3>1. work' = [work EXCEPT !["release"] = r] /\ at' = "download"
      BY <2>1, <2>2
    <3>2. Release!ToSet(r.assets) = Release!Assets
      BY <2>2, GoodReleaseIsExact
    <3>3. work'.release = r /\ UNCHANGED <<work.chain, work.attested>>
      BY <3>1
    <3>4. EvidenceTypeOK'
      BY <3>1
    <3> QED
      BY <2>1, <3>1, <3>2, <3>3, <3>4
  <2> QED
    BY <2>1, <2>2, RefusalKeepsInv
<1>2. CASE Release!Download
  <2>1. PICK empty \in BOOLEAN, files \in [Targets -> Digests] :
          Release!Accept(empty, "files", files, "lines") /\ at = "download"
    BY <1>2 DEF Release!Download
  <2>2. CASE empty
    <3>1. work' = [work EXCEPT !["files"] = files] /\ at' = "lines"
      BY <2>1, <2>2
    <3>2. EvidenceTypeOK' /\ work'.release = work.release
      BY <3>1
    <3> QED
      BY <2>1, <3>1, <3>2, EvidenceStays
  <2> QED
    BY <2>1, <2>2, RefusalKeepsInv
<1>3. CASE Release!ReadLine
  <2>1. PICK l \in Release!Lines :
          /\ Release!Accept(l.hash # Release!Absent /\ l.name \notin Release!Names,
                            "lines", Append(work.lines, l), "lines")
          /\ at = "lines"
    BY <1>3 DEF Release!ReadLine
  <2>2. CASE ~Release!Refuse
    <3>1. work' = [work EXCEPT !["lines"] = Append(work.lines, l)] /\ at' = "lines"
      BY <2>1, <2>2
    <3>2. Append(work.lines, l) \in Seq(Release!Lines)
      BY <2>1
    <3>3. EvidenceTypeOK' /\ work'.release = work.release
      BY <3>1, <3>2
    <3> QED
      BY <2>1, <3>1, <3>3, EvidenceStays
  <2> QED
    BY <2>2, RefusalKeepsInv
<1>4. CASE Release!VerifyChecksums
  <2>1. CASE Release!ChecksumsMatch
    <3>1. work' = [work EXCEPT !["lines"] = work.lines] /\ at = "lines" /\ at' = "index"
      BY <1>4, <2>1 DEF Release!VerifyChecksums
    <3>2. EvidenceTypeOK' /\ UNCHANGED <<work.release, work.lines, work.files>>
      BY <3>1
    <3>3. Release!ToSet(work.lines) = Checksums
      BY <2>1, MatchingChecksumsAreExact
    <3> QED
      BY <3>1, <3>2, <3>3, EvidenceStays
  <2> QED
    BY <1>4, <2>1, RefusalKeepsInv DEF Release!VerifyChecksums
<1> QED
  BY <1>1, <1>2, <1>3, <1>4

(* The digests that the registry and the SBOM state.                       *)
LEMMA DigestsKeepInv ==
  ASSUME EvidenceInv, Release!VerifySparseIndex \/ Release!VerifyCycloneDx
  PROVE  EvidenceInv'
<1> USE DEF EvidenceInv, EvidenceTypeOK, Release!Accept, FromLines, FromIndex, FromSbom,
            FromTag, FromVcs, FromAttest
<1>1. CASE Release!VerifySparseIndex
  <2>1. PICK entries :
          /\ Release!Accept(entries = <<Release!CrateSha256>>, "index", entries, "sbom")
          /\ at = "index"
    BY <1>1 DEF Release!VerifySparseIndex
  <2>2. CASE entries = <<Release!CrateSha256>>
    <3>1. work' = [work EXCEPT !["index"] = entries] /\ at' = "sbom"
      BY <2>1, <2>2
    <3>2. /\ EvidenceTypeOK' /\ work'.index = entries
          /\ UNCHANGED <<work.release, work.lines, work.files>>
      BY <3>1
    <3> QED
      BY <2>1, <2>2, <3>1, <3>2, EvidenceStays
  <2> QED
    BY <2>1, <2>2, RefusalKeepsInv
<1>2. CASE Release!VerifyCycloneDx
  <2>1. PICK d \in Release!Documents :
          /\ Release!Accept(/\ d.format /\ d.root /\ Release!HashAgrees(d.hashes)
                            /\ Len(d.distributions) = 1
                            /\ d.distributions[1].url
                            /\ Release!HashAgrees(d.distributions[1].hashes),
                            "sbom", d, "tag")
          /\ at = "sbom"
    BY <1>2 DEF Release!VerifyCycloneDx
  <2>2. CASE ~Release!Refuse
    <3>1. /\ work' = [work EXCEPT !["sbom"] = d] /\ at' = "tag"
          /\ d.format /\ d.root /\ Release!HashAgrees(d.hashes)
          /\ Len(d.distributions) = 1 /\ d.distributions[1].url
          /\ Release!HashAgrees(d.distributions[1].hashes)
      BY <2>1, <2>2
    <3>2. /\ EvidenceTypeOK' /\ work'.sbom = d
          /\ UNCHANGED <<work.release, work.lines, work.files, work.index, work.chain>>
      BY <3>1
    <3>3. SbomAgrees'
      BY <2>1, <3>1, <3>2 DEF SbomAgrees, Release!HashAgrees, Release!CrateSha256
    <3>4. IsTagChain'
      BY <2>1, <3>2, ReleaseConstants DEF IsTagChain
    <3> QED
      BY <2>1, <3>1, <3>2, <3>3, <3>4, EvidenceStays
  <2> QED
    BY <2>2, RefusalKeepsInv
<1> QED
  BY <1>1, <1>2

(* The chain of tags and the commit it ends in.                            *)
LEMMA ChainKeepsInv ==
  ASSUME EvidenceInv,
         Release!ResolveTag \/ Release!Dereference \/ Release!ConfirmCommit
  PROVE  EvidenceInv'
<1> USE DEF EvidenceInv, EvidenceTypeOK, Release!Accept, FromLines, FromIndex, FromSbom,
            FromTag, FromVcs, FromAttest
<1>1. CASE Release!ResolveTag
  <2>1. PICK o \in Release!Objects :
          /\ work' = [work EXCEPT !["chain"] = <<o>>] /\ at = "tag" /\ at' = "tag"
    BY <1>1 DEF Release!ResolveTag
  <2>2. /\ EvidenceTypeOK' /\ work'.chain = <<o>>
        /\ UNCHANGED <<work.release, work.lines, work.files, work.index, work.sbom>>
    BY <2>1
  <2>3. IsTagChain'
    BY <2>2, ReleaseConstants DEF IsTagChain
  <2> QED
    BY <2>1, <2>2, <2>3, EvidenceStays
<1>2. CASE Release!Dereference
  <2>1. PICK o \in Release!Objects :
          /\ Release!Accept(Len(work.chain) <= MaxNesting /\ Release!Tip.id # Release!Absent,
                            "chain", Append(work.chain, o), "tag")
          /\ at = "tag" /\ work.chain # <<>> /\ Release!Tip.type = "tag"
    BY <1>2 DEF Release!Dereference
  <2>2. CASE ~Release!Refuse
    <3>1. /\ work' = [work EXCEPT !["chain"] = Append(work.chain, o)] /\ at' = "tag"
          /\ Len(work.chain) <= MaxNesting
      BY <2>1, <2>2
    <3>2. Append(work.chain, o) \in Seq(Release!Objects)
      BY <2>1
    <3>3. /\ EvidenceTypeOK' /\ work'.chain = Append(work.chain, o)
          /\ UNCHANGED <<work.release, work.lines, work.files, work.index, work.sbom>>
      BY <3>1, <3>2
    <3>4. IsTagChain'
      <4>1. /\ Len(work.chain) \in Nat /\ Len(work'.chain) = Len(work.chain) + 1
            /\ \A i \in 1 .. Len(work.chain) : work'.chain[i] = work.chain[i]
        BY <2>1, <3>3
      <4>2. work.chain[Len(work.chain)].type = "tag" /\ IsTagChain
        BY <2>1 DEF Release!Tip, Release!Last
      <4>3. \A i \in 1 .. Len(work.chain) : work.chain[i].type = "tag"
        BY <4>1, <4>2 DEF IsTagChain
      <4> HIDE DEF EvidenceInv, EvidenceTypeOK
      <4> QED
        BY <3>1, <4>1, <4>3, ReleaseConstants DEF IsTagChain
    <3> QED
      BY <2>1, <3>1, <3>3, <3>4, EvidenceStays
  <2> QED
    BY <2>2, RefusalKeepsInv
<1>3. CASE Release!ConfirmCommit
  <2>1. PICK confirmed \in Commits :
          /\ Release!Accept(Release!Tip.type = "commit" /\ Release!Tip.id = confirmed,
                            "chain", work.chain, "vcs")
          /\ at = "tag" /\ work.chain # <<>>
    BY <1>3 DEF Release!ConfirmCommit
  <2>2. CASE ~Release!Refuse
    <3>1. /\ work' = [work EXCEPT !["chain"] = work.chain] /\ at' = "vcs"
          /\ Release!Tip.type = "commit"
      BY <2>1, <2>2
    <3>2. /\ EvidenceTypeOK'
          /\ UNCHANGED <<work.release, work.lines, work.files, work.index, work.sbom,
                         work.chain>>
      BY <3>1
    <3> QED
      BY <2>1, <3>1, <3>2, EvidenceStays
  <2> QED
    BY <2>2, RefusalKeepsInv
<1> QED
  BY <1>1, <1>2, <1>3

(* What the archive and the attestations state.                            *)
LEMMA AttestationsKeepInv ==
  ASSUME EvidenceInv, Release!VerifyVcsInfo \/ Release!Attest
  PROVE  EvidenceInv'
<1> USE DEF EvidenceInv, EvidenceTypeOK, Release!Accept, FromLines, FromIndex, FromSbom,
            FromTag, FromVcs, FromAttest
<1>1. CASE Release!VerifyVcsInfo
  <2>1. PICK info \in Release!BoundedSeq(Release!VcsInfos, 1) :
          /\ Release!Accept(info # <<>> /\ info[1].sha1 = Release!Tip.id
                              /\ info[1].dirty # "true", "recorded", info, "attest")
          /\ at = "vcs"
    BY <1>1 DEF Release!VerifyVcsInfo
  <2>2. CASE ~Release!Refuse
    <3>1. /\ work' = [work EXCEPT !["recorded"] = info] /\ at' = "attest"
          /\ info[1].sha1 = Release!Tip.id
      BY <2>1, <2>2
    <3>2. /\ EvidenceTypeOK' /\ work'.recorded = info
          /\ UNCHANGED <<work.release, work.lines, work.files, work.index, work.sbom,
                         work.chain, work.attested>>
      BY <3>1
    <3>3. SbomAttested'
      BY <2>1, <3>2 DEF SbomAttested
    <3> QED
      BY <2>1, <3>1, <3>2, <3>3, EvidenceStays
  <2> QED
    BY <2>2, RefusalKeepsInv
<1>2. CASE Release!Attest
  <2> DEFINE n == Len(work.attested)
             next == IF n + 1 = Len(Release!Attestations) THEN "verified" ELSE "attest"
  <2>1. PICK results \in Release!BoundedSeq(IF n + 1 \in Release!Provenance
                                            THEN {Release!Absent}
                                            ELSE Release!Predicates, 2) :
          /\ Release!Accept(results # <<>>
                              /\ (n + 1 \in Release!Provenance \/ Release!AllEqual(results)),
                            "attested", Append(work.attested, Release!ToSet(results)), next)
          /\ at = "attest"
    BY <1>2 DEF Release!Attest
  <2>2. CASE ~Release!Refuse
    <3> DEFINE D == SUBSET (Release!Documents \cup {Release!Absent})
               r == Release!ToSet(results)
    <3>1. /\ work' = [work EXCEPT !["attested"] = Append(work.attested, r)] /\ at' = next
          /\ results # <<>> /\ (n + 1 \in Release!Provenance \/ Release!AllEqual(results))
      BY <2>1, <2>2
    <3>2. results \in Seq(IF n + 1 \in Release!Provenance THEN {Release!Absent}
                                                          ELSE Release!Predicates)
      BY <2>1, BoundedIsSequence
    <3>3. Len(results) \in Nat \ {0} /\ DOMAIN results = 1 .. Len(results)
      BY <3>1, <3>2
    <3>4. r \in D
      <4>1. CASE n + 1 \in Release!Provenance
        BY <3>2, <4>1 DEF Release!ToSet
      <4>2. CASE Release!AllEqual(results)
        BY <2>1, <3>3, <4>2 DEF Release!AllEqual, Release!ToSet, SbomAgrees
      <4> QED
        BY <3>1, <4>1, <4>2
    <3>5. n + 1 \in Release!Provenance \/ r = {work.sbom}
      <4>1. 1 \in DOMAIN results
        BY <3>3
      <4>2. Release!AllEqual(results) => \A i \in DOMAIN results : results[i] = work.sbom
        BY <3>3 DEF Release!AllEqual
      <4>3. Release!AllEqual(results) => r = {work.sbom}
        BY <4>1, <4>2 DEF Release!ToSet
      <4> QED
        BY <3>1, <4>3
    <3> HIDE DEF r, D
    <3>6. /\ EvidenceTypeOK' /\ work'.attested = Append(work.attested, r)
          /\ UNCHANGED <<work.release, work.lines, work.files, work.index, work.sbom,
                         work.chain, work.recorded>>
      BY <2>1, <3>1, <3>4 DEF D
    <3>7. /\ n \in Nat /\ Len(work'.attested) = n + 1 /\ work'.attested[n + 1] = r
          /\ \A i \in 1 .. n : work'.attested[i] = work.attested[i]
      BY <3>6
    <3>8. SbomAttested /\ UNCHANGED work.sbom
      BY <2>1, <3>6
    <3>9. SbomAttested'
      BY <3>5, <3>7, <3>8 DEF SbomAttested
    <3> QED
      BY <2>1, <3>1, <3>6, <3>7, <3>9, EvidenceStays
  <2> QED
    BY <2>2, RefusalKeepsInv
<1> QED
  BY <1>1, <1>2

(* Nothing has been gathered yet.                                          *)
LEMMA EvidenceInit == Release!Init => EvidenceInv
BY DEF Release!Init, Release!Absent, EvidenceInv, EvidenceTypeOK, FromLines, FromIndex,
       FromSbom, FromTag, FromVcs, FromAttest

(* The element of a sequence that has one.                                 *)
LEMMA OnlyElement ==
  ASSUME NEW S, NEW s \in Seq(S), Len(s) = 1
  PROVE  s[1] \in S
OBVIOUS

(* What the invariant says of a release that is reported as verified.      *)
LEMMA InvGivesAgreement == EvidenceInv => Release!EvidenceAgrees
<1> SUFFICES ASSUME EvidenceInv, at = "verified" PROVE Release!EvidenceAgrees
  BY DEF Release!EvidenceAgrees
<1> USE DEF EvidenceInv, EvidenceTypeOK, FromLines, FromIndex, FromSbom, FromTag, FromVcs,
            FromAttest
<1>1. /\ Release!ToSet(work.release.assets) = Release!Assets
      /\ Release!ToSet(work.lines) = Checksums
      /\ work.index = <<Release!CrateSha256>> /\ SbomAgrees /\ IsTagChain
      /\ work.chain # <<>> /\ Release!Tip.type = "commit"
      /\ work.recorded[1].sha1 = Release!Tip.id /\ SbomAttested
      /\ Len(work.attested) = Len(Release!Attestations)
      /\ work.chain \in Seq(Release!Objects)
  OBVIOUS
<1> HIDE DEF EvidenceInv, EvidenceTypeOK
<1>2. Release!ToSet(work.index) = {Release!CrateSha256}
  BY <1>1 DEF Release!ToSet
<1>3. PICK S : work.sbom.hashes \in Seq(S)
  BY <1>1, BoundedIsSequence DEF SbomAgrees, Release!Documents, Release!Hashes
<1>4. Release!DigestsIn(work.sbom.hashes) = {Release!CrateSha256}
  BY <1>1, <1>3, AgreedDigest DEF SbomAgrees
<1>5. PICK T : work.sbom.distributions[1].hashes \in Seq(T)
  <2> DEFINE D == [url : {TRUE}, hashes : Release!Hashes]
             s == work.sbom.distributions
  <2>1. s \in Release!BoundedSeq(D, 1) \cup {<<Release!Odd>>, <<Release!Odd, Release!Odd>>}
        /\ Len(s) = 1 /\ s[1].url
    BY <1>1 DEF SbomAgrees, Release!Documents
  <2>2. s \in Seq(D)
    BY <2>1, BoundedIsSequence DEF Release!Odd
  <2>3. s[1] \in D
    <3> HIDE DEF D, s
    <3> QED
      BY <2>1, <2>2, OnlyElement
  <2> QED
    BY <2>3, BoundedIsSequence DEF Release!Hashes
<1>6. Release!DigestsIn(work.sbom.distributions[1].hashes) = {Release!CrateSha256}
  BY <1>1, <1>5, AgreedDigest DEF SbomAgrees
<1>7. UNION {Release!ToSet(work.index), Release!DigestsIn(work.sbom.hashes),
             Release!DigestsIn(work.sbom.distributions[1].hashes)} = {Release!CrateSha256}
  BY <1>2, <1>4, <1>6
<1>8. \A i \in 1 .. Len(work.chain) : (work.chain[i].type = "commit") = (i = Len(work.chain))
  BY <1>1 DEF IsTagChain, Release!Tip, Release!Last
<1>9. \A i \in DOMAIN Release!Attestations \ Release!Provenance :
        work.attested[i] = {work.sbom}
  BY <1>1 DEF SbomAttested, Release!Attestations
<1> QED
  BY <1>1, <1>7, <1>8, <1>9 DEF Release!EvidenceAgrees, Checksums, IsTagChain

(* Only verify-release works on these variables.                           *)
THEOREM EvidenceInvHolds == Spec => [](command = "verify-release" => EvidenceInv)
<1>1. Init => (command = "verify-release" => EvidenceInv)
  BY EvidenceInit DEF Init
<1>2. (command = "verify-release" => EvidenceInv) /\ [Next]_vars
        => (command = "verify-release" => EvidenceInv)'
  <2> SUFFICES ASSUME EvidenceInv, [Next]_vars, command = "verify-release" PROVE EvidenceInv'
    BY DEF Next, vars
  <2>1. CASE Release!CallFails
    BY <2>1, RefusalKeepsInv DEF Release!CallFails
  <2>2. CASE UNCHANGED <<at, work>>
    BY <2>2, EvidenceStays DEF EvidenceInv, EvidenceTypeOK
  <2> QED
    BY <2>1, <2>2, AssetsKeepInv, DigestsKeepInv, ChainKeepsInv, AttestationsKeepInv
    DEF Next, vars, sequential, Release!Next, Release!Ended, Release!vars
<1> QED
  BY <1>1, <1>2, PTL DEF Spec

(* All evidence for a release that is reported as verified speaks of the   *)
(* same bytes and the same commit (verify_release.rs:36-222).              *)
THEOREM VerifiedEvidenceAgrees == Spec => []EvidenceAgrees
<1>1. (command = "verify-release" => EvidenceInv) => EvidenceAgrees
  BY InvGivesAgreement DEF EvidenceAgrees
<1> QED
  BY <1>1, EvidenceInvHolds, PTL

-----------------------------------------------------------------------------
(* The walk of the source policy.                                          *)

Items == [kind : {"impl", "fn"}, node : Nat, ofError : BOOLEAN,
          inErrorImpl : BOOLEAN, allowed : Nat]

WalkTypeOK ==
  /\ at \in {"files", "walk", "passed", "refused"}
  /\ DOMAIN work = {"open", "inErrorImpl", "allowed", "nodes", "reported", "forbidden"}
  /\ work.open \in Seq(Items)
  /\ work.inErrorImpl \in BOOLEAN /\ work.allowed \in Nat /\ work.nodes \in Nat

(* What the visitor's two fields say directly inside an item.              *)
Tells(item, inErrorImpl, allowed) ==
  /\ item.kind = "impl" => inErrorImpl = item.ofError
  /\ item.kind = "fn" => (allowed = item.node) = item.ofError

(* The fields are right for the innermost item, and what each item saved   *)
(* is right for the one around it.                                         *)
Stack(open, inErrorImpl, allowed) ==
  /\ Len(open) > 0 => Tells(open[Len(open)], inErrorImpl, allowed)
  /\ \A k \in 1 .. Len(open) - 1 : Tells(open[k], open[k + 1].inErrorImpl, open[k + 1].allowed)

WalkInv ==
  /\ WalkTypeOK
  /\ Stack(work.open, work.inErrorImpl, work.allowed)
  /\ work.reported = work.forbidden
  /\ at \in {"files", "passed"} => work.forbidden = {}

(* An item is opened inside another.                                       *)
LEMMA StackOpens ==
  ASSUME NEW open \in Seq(Items), NEW inErrorImpl \in BOOLEAN, NEW allowed \in Nat,
         Stack(open, inErrorImpl, allowed), NEW item \in Items,
         item.inErrorImpl = inErrorImpl, item.allowed = allowed,
         NEW inner, NEW fresh, Tells(item, inner, fresh)
  PROVE  Stack(Append(open, item), inner, fresh)
<1> DEFINE deeper == Append(open, item)
           n == Len(open)
<1>1. /\ n \in Nat /\ Len(deeper) = n + 1 /\ deeper[n + 1] = item
      /\ \A k \in 1 .. n : deeper[k] = open[k]
  OBVIOUS
<1> HIDE DEF deeper
<1>2. Tells(deeper[Len(deeper)], inner, fresh)
  BY <1>1
<1>3. ASSUME NEW k \in 1 .. Len(deeper) - 1
      PROVE  Tells(deeper[k], deeper[k + 1].inErrorImpl, deeper[k + 1].allowed)
  <2>1. CASE k = n
    BY <1>1, <2>1 DEF Stack
  <2>2. CASE k \in 1 .. n - 1
    <3>1. deeper[k] = open[k] /\ deeper[k + 1] = open[k + 1]
      BY <1>1, <2>2
    <3> QED
      BY <2>2, <3>1 DEF Stack
  <2> QED
    BY <1>1, <2>1, <2>2
<1>4. Stack(deeper, inner, fresh)
  BY <1>2, <1>3 DEF Stack
<1> QED
  BY <1>4 DEF deeper

(* The first elements of a sequence.                                       *)
LEMMA PrefixOf ==
  ASSUME NEW S, NEW s \in Seq(S), NEW n \in 0 .. Len(s)
  PROVE  /\ SubSeq(s, 1, n) \in Seq(S) /\ Len(SubSeq(s, 1, n)) = n
         /\ \A i \in 1 .. n : SubSeq(s, 1, n)[i] = s[i]
<1>1. n \in Int /\ 1 \in Int /\ (\A i \in 1 .. n : s[i] \in S)
  OBVIOUS
<1>2. /\ SubSeq(s, 1, n) \in Seq(S)
      /\ Len(SubSeq(s, 1, n)) = IF 1 <= n THEN n - 1 + 1 ELSE 0
      /\ \A i \in 1 .. n - 1 + 1 : SubSeq(s, 1, n)[i] = s[1 + i - 1]
  BY <1>1, SubSeqProperties
<1> QED
  BY <1>2

(* The innermost item is closed.                                           *)
LEMMA StackCloses ==
  ASSUME NEW open \in Seq(Items), open # <<>>, NEW inErrorImpl, NEW allowed,
         Stack(open, inErrorImpl, allowed)
  PROVE  /\ Policy!Front(open) \in Seq(Items)
         /\ Stack(Policy!Front(open), Policy!Last(open).inErrorImpl, Policy!Last(open).allowed)
<1> DEFINE outer == Policy!Front(open)
           n == Len(open)
<1>1. /\ n \in Nat \ {0} /\ outer \in Seq(Items) /\ Len(outer) = n - 1
      /\ \A k \in 1 .. n - 1 : outer[k] = open[k]
      /\ Policy!Last(open) = open[n]
  <2>1. n \in Nat \ {0} /\ n - 1 \in 0 .. Len(open)
    OBVIOUS
  <2> QED
    BY <2>1, PrefixOf DEF Policy!Front, Policy!Last
<1> HIDE DEF outer
<1>2. Len(outer) > 0 =>
        Tells(outer[Len(outer)], open[n].inErrorImpl, open[n].allowed)
  BY <1>1 DEF Stack
<1>3. ASSUME NEW k \in 1 .. Len(outer) - 1
      PROVE  Tells(outer[k], outer[k + 1].inErrorImpl, outer[k + 1].allowed)
  BY <1>1 DEF Stack
<1>4. Stack(outer, open[n].inErrorImpl, open[n].allowed)
  BY <1>2, <1>3 DEF Stack
<1> QED
  BY <1>1, <1>4 DEF outer

(* The signature that the visitor lets pass is the one that may.           *)
LEMMA SourceReturnIsAccepted ==
  ASSUME NEW s \in Policy!Interesting
  PROVE  Policy!SourceReturn(s) <=> s \in Policy!Accepted
<1> DEFINE o == Policy!Ordinary
<1>1. /\ DOMAIN s = {"name", "plain", "receiver", "option", "reference", "bounds"}
      /\ s.plain \in BOOLEAN
      /\ s.option \in {"Option", "std::option::Option", "core::option::Option", "other"}
      /\ s.bounds \in {{"std::error::Error", "'static"}, {"std::error::Error"},
                       {"Send", "'static"}, {"std::error::Error", "'static", "Send"}}
  BY DEF Policy!Interesting, Policy!Signatures
<1>2. /\ o.name = "source" /\ o.plain = TRUE /\ o.receiver = "&self" /\ o.reference = "&"
      /\ o.bounds = {"std::error::Error", "'static"}
  BY DEF Policy!Ordinary
<1> HIDE DEF o
<1>3. s \in Policy!Accepted <=>
        /\ s.option # "other" /\ s.name = o.name /\ s.plain = o.plain
        /\ s.receiver = o.receiver /\ s.reference = o.reference /\ s.bounds = o.bounds
  BY <1>1 DEF Policy!Accepted, o
<1>4. s.bounds = o.bounds <=>
        \E p \in {"std::error::Error", "core::error::Error"} : s.bounds = {p, "'static"}
  BY <1>1, <1>2
<1> QED
  BY <1>1, <1>2, <1>3, <1>4 DEF Policy!SourceReturn

(* A bounded sequence is a sequence.                                       *)
LEMMA TokensAreSequence ==
  ASSUME NEW S, NEW n, NEW s \in Policy!BoundedSeq(S, n)
  PROVE  s \in Seq(S)
BY DEF Policy!BoundedSeq, Policy!SeqOf

(* What may stand in an argument list.                                     *)
Dyn   == Policy!Leaf("dyn")
Metas == Policy!Attributes \cup {Dyn}

(* The three levels of attributes.                                         *)
LEMMA AttributeForms ==
  ASSUME NEW m
  PROVE  /\ m \in Policy!Plain \cup {Dyn} =>
              /\ m[1] # "cfg_attr" /\ m[1] # "[" /\ m[2] \in {<<>>, <<Dyn>>}
         /\ m \in Policy!CfgAttrs =>
              m[1] = "cfg_attr" /\ m[2] \in Seq(Policy!Plain \cup {Dyn})
         /\ m \in Policy!Nested =>
              m[1] = "cfg_attr" /\ m[2] \in Seq(Policy!Plain \cup Policy!CfgAttrs)
<1>1. m \in Policy!Plain \cup {Dyn} =>
              /\ m[1] # "cfg_attr" /\ m[1] # "[" /\ m[2] \in {<<>>, <<Dyn>>}
  BY DEF Policy!Plain, Policy!Leaf, Dyn
<1>2. ASSUME m \in Policy!CfgAttrs
      PROVE  m[1] = "cfg_attr" /\ m[2] \in Seq(Policy!Plain \cup {Dyn})
  <2> DEFINE S == Policy!Plain \cup {Policy!Leaf("dyn")}
  <2>1. PICK l \in Policy!BoundedSeq(S, 3) : m = <<"cfg_attr", l>>
    BY <1>2 DEF Policy!CfgAttrs
  <2> HIDE DEF S
  <2>2. l \in Seq(S)
    BY TokensAreSequence
  <2> QED
    BY <2>1, <2>2 DEF S, Dyn
<1>3. ASSUME m \in Policy!Nested
      PROVE  m[1] = "cfg_attr" /\ m[2] \in Seq(Policy!Plain \cup Policy!CfgAttrs)
  <2> DEFINE o == Policy!Leaf("other")
             S == Policy!Plain \cup Policy!CfgAttrs
  <2>1. o \in S
    BY DEF Policy!Plain
  <2>2. PICK c \in Policy!CfgAttrs :
          m = <<"cfg_attr", <<o, c>>>> \/ m = <<"cfg_attr", <<o, o, c>>>>
    BY <1>3 DEF Policy!Nested
  <2>3. c \in S
    OBVIOUS
  <2> HIDE DEF o, S
  <2>4. <<o, c>> \in Seq(S) /\ <<o, o, c>> \in Seq(S)
    BY <2>1, <2>3
  <2>5. m[1] = "cfg_attr" /\ (m[2] = <<o, c>> \/ m[2] = <<o, o, c>>)
    BY <2>2
  <2>6. m[2] \in Seq(S)
    BY <2>4, <2>5
  <2> QED
    BY <2>5, <2>6 DEF S
<1> QED
  BY <1>1, <1>2, <1>3

(* What a cfg_attr selects is an attribute, and two levels are all.        *)
LEMMA BehindEnds ==
  ASSUME NEW m \in Metas
  PROVE  /\ Policy!Behind(m) \subseteq Metas
         /\ \A n \in Policy!Behind(m) : \A o \in Policy!Behind(n) : Policy!Behind(o) = {}
<1> DEFINE P == Policy!Plain \cup {Dyn}
<1>1. ASSUME NEW S, NEW n, n[2] \in Seq(S) PROVE Policy!Behind(n) \subseteq S
  <2>1. \A i \in 2 .. Len(n[2]) : n[2][i] \in S
    BY <1>1
  <2> QED
    BY <2>1 DEF Policy!Behind
<1>2. ASSUME NEW n \in P PROVE Policy!Behind(n) = {}
  BY <1>2, AttributeForms DEF Policy!Behind
<1>3. ASSUME NEW n \in Policy!CfgAttrs PROVE Policy!Behind(n) \subseteq P
  BY <1>1, <1>3, AttributeForms
<1>4. ASSUME NEW n \in Policy!Nested PROVE Policy!Behind(n) \subseteq P \cup Policy!CfgAttrs
  <2>1. Policy!Behind(n) \subseteq Policy!Plain \cup Policy!CfgAttrs
    BY <1>1, <1>4, AttributeForms
  <2> QED
    BY <2>1
<1>5. Metas = P \cup Policy!CfgAttrs \cup Policy!Nested
  BY DEF Metas, Policy!Attributes
<1> HIDE DEF P
<1> QED
  BY <1>2, <1>3, <1>4, <1>5

(* An attribute that may not stand anywhere.                               *)
Unfit(m) == m[1] \in {"allow", "expect", "ignore"} \/ Policy!Malformed(m)

(* An attribute suppresses by itself or by what it selects.                *)
LEMMA SuppressingUnfolds ==
  ASSUME NEW m \in Metas
  PROVE  Policy!Suppressing(m) <=> Unfit(m) \/ \E n \in Policy!Behind(m) : Policy!Suppressing(n)
<1>1. ASSUME NEW x
      PROVE  Policy!Suppressing(x) <=>
               \/ Unfit(x)
               \/ \E n \in Policy!Behind(x) : Unfit(n)
               \/ \E n \in Policy!Behind(x) : \E o \in Policy!Behind(n) : Unfit(o)
  <2>1. Policy!Suppressing(x) <=> \E n \in Policy!Selected(x) : Unfit(n)
    BY DEF Policy!Suppressing, Unfit
  <2>2. \A n : n \in Policy!Selected(x) <=>
          \/ n = x \/ n \in Policy!Behind(x)
          \/ \E o \in Policy!Behind(x) : n \in Policy!Behind(o)
    BY DEF Policy!Selected
  <2> QED
    BY <2>1, <2>2
<1> QED
  BY <1>1, BehindEnds

(* The recursion has a solution, so that its definition can be unfolded.   *)
LEMMA InspectUnfolds ==
  ASSUME NEW a \in Metas
  PROVE  Policy!Inspect[a] <=> Unfit(a) \/ \E n \in Policy!Behind(a) : Policy!Inspect[n]
<1> DEFINE Look(f, m) == Unfit(m) \/ \E n \in Policy!Behind(m) : f[n]
           Step(f) == [m \in Metas |-> Look(f, m)]
           F == [m \in Metas |-> Policy!Suppressing(m)]
<1>1. ASSUME NEW m \in Metas PROVE Policy!Suppressing(m) = Look(F, m)
  <2>1. \A n \in Policy!Behind(m) : F[n] = Policy!Suppressing(n)
    BY BehindEnds
  <2>2. Policy!Suppressing(m) <=> Look(F, m)
    BY <2>1, SuppressingUnfolds
  <2>3. Policy!Suppressing(m) \in BOOLEAN /\ Look(F, m) \in BOOLEAN
    BY Zenon DEF Policy!Suppressing
  <2> DEFINE P == Policy!Suppressing(m)
             Q == Look(F, m)
  <2> HIDE DEF P, Q
  <2>4. P = Q
    BY <2>2, <2>3 DEF P, Q
  <2> QED
    BY <2>4 DEF P, Q
<1>2. F = Step(F)
  <2> HIDE DEF Look
  <2> QED
    BY <1>1, Zenon
<1>3. Policy!Inspect = CHOOSE f : f = Step(f)
  <2> DEFINE Written(f) == [m \in Policy!Attributes \cup {Policy!Leaf("dyn")} |->
                       \/ m[1] \in {"allow", "expect", "ignore"}
                       \/ Policy!Malformed(m)
                       \/ \E n \in Policy!Behind(m) : f[n]]
  <2>1. Policy!Inspect = CHOOSE f : f = Written(f)
    BY Zenon DEF Policy!Inspect
  <2>2. ASSUME NEW f PROVE Written(f) = Step(f)
    <3>1. ASSUME NEW m \in Metas
          PROVE  Look(f, m) = (\/ m[1] \in {"allow", "expect", "ignore"}
                               \/ Policy!Malformed(m)
                               \/ \E n \in Policy!Behind(m) : f[n])
      BY Zenon DEF Unfit
    <3> HIDE DEF Look
    <3> QED
      BY <3>1, Zenon DEF Metas, Dyn
  <2> HIDE DEF Written, Step
  <2> QED
    BY <2>1, <2>2, Zenon
<1>4. Policy!Inspect = Step(Policy!Inspect)
  <2> HIDE DEF Step, F
  <2> QED
    BY <1>2, <1>3, Zenon
<1>5. Policy!Inspect[a] = Look(Policy!Inspect, a)
  <2> HIDE DEF Look
  <2> QED
    BY <1>4, Zenon
<1> QED
  BY <1>5

(* However deep an attribute lies in cfg_attr, it is found.                *)
LEMMA InspectIsSuppressing ==
  ASSUME NEW a \in Metas
  PROVE  Policy!Inspect[a] <=> Policy!Suppressing(a)
<1> DEFINE Agree(m) == Policy!Inspect[m] <=> Policy!Suppressing(m)
<1>1. ASSUME NEW m \in Metas, \A n \in Policy!Behind(m) : Agree(n) PROVE Agree(m)
  BY <1>1, InspectUnfolds, SuppressingUnfolds
<1> HIDE DEF Agree
<1>2. Policy!Behind(a) \subseteq Metas
      /\ \A n \in Policy!Behind(a) : /\ Policy!Behind(n) \subseteq Metas
                                     /\ \A o \in Policy!Behind(n) : Policy!Behind(o) = {}
  BY BehindEnds
<1>3. \A n \in Policy!Behind(a) : \A o \in Policy!Behind(n) : Agree(o)
  BY <1>1, <1>2
<1>4. \A n \in Policy!Behind(a) : Agree(n)
  BY <1>1, <1>2, <1>3
<1>5. Agree(a)
  BY <1>1, <1>4
<1> QED
  BY <1>5 DEF Agree

(* The trees a token list may have, and the lists inside it.               *)
AllTrees == Policy!Trees \cup Metas
Kids(ts) == {t[2] : t \in Policy!Range(ts)}

(* Lists with at most none, one, two and three levels of others in them.   *)
Flat(ts)     == Kids(ts) \subseteq {<<>>}
Shallow(ts)  == \A k \in Kids(ts) : Flat(k)
Deep(ts)     == \A k \in Kids(ts) : Shallow(k)
Deepest(ts)  == \A k \in Kids(ts) : Deep(k)

LEMMA KidsOf ==
  ASSUME NEW S, NEW ts \in Seq(S)
  PROVE  /\ \A k \in Kids(ts) : \E t \in S : k = t[2]
         /\ \A i \in 1 .. Len(ts) : ts[i] \in S /\ ts[i][2] \in Kids(ts)
         /\ \A k \in Kids(ts) : \E i \in 1 .. Len(ts) : k = ts[i][2]
BY DEF Kids, Policy!Range

(* The fewer levels, the more that is true of.                             *)
LEMMA FlatIsDeep ==
  /\ Kids(<<>>) = {} /\ Kids(<<Dyn>>) = {<<>>}
  /\ \A ts : (Flat(ts) => Shallow(ts)) /\ (Shallow(ts) => Deep(ts)) /\ (Deep(ts) => Deepest(ts))
<1>1. Kids(<<>>) = {} /\ Kids(<<Dyn>>) = {<<>>}
  BY DEF Kids, Policy!Range, Dyn, Policy!Leaf
<1>2. ASSUME NEW ts, Flat(ts) PROVE Shallow(ts)
  BY <1>1, <1>2 DEF Flat, Shallow
<1>3. ASSUME NEW ts, Shallow(ts) PROVE Deep(ts)
  BY <1>2, <1>3 DEF Shallow, Deep
<1>4. ASSUME NEW ts, Deep(ts) PROVE Deepest(ts)
  BY <1>3, <1>4 DEF Deep, Deepest
<1> QED
  BY <1>1, <1>2, <1>3, <1>4

(* The lists of attributes.                                                *)
LEMMA AttributeLists ==
  ASSUME NEW m \in Metas
  PROVE  m[2] \in Seq(Metas) /\ Deep(m[2])
<1> DEFINE P == Policy!Plain \cup {Dyn}
<1>1. ASSUME NEW n \in P PROVE n[2] \in Seq(Metas) /\ Flat(n[2])
  <2>1. n[2] = <<>> \/ n[2] = <<Dyn>>
    BY <1>1, AttributeForms
  <2>2. Dyn \in Metas
    BY DEF Metas
  <2>3. <<>> \in Seq(Metas) /\ <<Dyn>> \in Seq(Metas)
    BY <2>2
  <2> QED
    BY <2>1, <2>3, FlatIsDeep DEF Flat
<1>2. ASSUME NEW n \in Policy!CfgAttrs PROVE n[2] \in Seq(P) /\ Shallow(n[2])
  <2>1. n[2] \in Seq(P)
    BY <1>2, AttributeForms
  <2> HIDE DEF P
  <2> QED
    BY <1>1, <2>1, KidsOf DEF Shallow
<1>3. ASSUME NEW n \in Policy!Nested
      PROVE  n[2] \in Seq(Policy!Plain \cup Policy!CfgAttrs) /\ Deep(n[2])
  <2> DEFINE S == Policy!Plain \cup Policy!CfgAttrs
  <2>1. n[2] \in Seq(S)
    BY <1>3, AttributeForms
  <2>2. \A t \in S : Shallow(t[2])
    BY <1>1, <1>2, FlatIsDeep
  <2> HIDE DEF S
  <2>3. Deep(n[2])
    BY <2>1, <2>2, KidsOf DEF Deep
  <2> QED
    BY <2>1, <2>3 DEF S
<1>4. /\ Metas = P \cup Policy!CfgAttrs \cup Policy!Nested /\ P \subseteq Metas
      /\ Policy!Plain \cup Policy!CfgAttrs \subseteq Metas
  BY DEF Metas, Policy!Attributes
<1> HIDE DEF P
<1>5. ASSUME NEW S, S \subseteq Metas PROVE Seq(S) \subseteq Seq(Metas)
  BY <1>5
<1> QED
  BY <1>1, <1>2, <1>3, <1>4, <1>5, FlatIsDeep

(* The groups of a macro call, and what is a list in them.                 *)
LEMMA GroupLists ==
  ASSUME NEW g \in Policy!Groups
  PROVE  /\ g[2] \in Seq(AllTrees) /\ Deep(g[2])
         /\ g[1] = "[" /\ Len(g[2]) = 1 => \E m \in Metas : g = <<"[", <<m>>>>
<1> DEFINE ce == <<"cfg_attr", <<Policy!Leaf("other"), Policy!Leaf("expect")>>>>
           al == Policy!Leaf("allow")
           x  == Policy!Leaf("x")
           hash == Policy!Leaf("#")
           br == <<"[", <<al>>>>
<1>1. \/ \E m \in Policy!Plain \cup {ce} : g = <<"[", <<m>>>>
      \/ g \in {<<"[", <<>>>>, <<"[", <<Dyn>>>>, <<"[", <<al, x>>>>}
      \/ g \in {<<"(", <<x, Dyn>>>>, <<"(", <<hash, br>>>>}
  BY DEF Policy!Groups, Dyn
<1>2. ce \in Metas
  <2> DEFINE S == Policy!Plain \cup {Policy!Leaf("dyn")}
             a == Policy!Leaf("other")
             b == Policy!Leaf("expect")
  <2>1. a \in S /\ b \in S
    BY DEF Policy!Plain
  <2>2. <<a, b>> \in Policy!BoundedSeq(S, 3)
    <3> HIDE DEF S, a, b
    <3>1. <<a, b>> \in [1 .. 2 -> S] /\ 2 \in 0 .. 3
      BY <2>1
    <3> QED
      BY <3>1 DEF Policy!BoundedSeq, Policy!SeqOf
  <2> QED
    BY <2>2 DEF Metas, Policy!Attributes, Policy!CfgAttrs
<1>3. al \in Metas /\ Dyn \in Metas /\ Policy!Plain \subseteq Metas
  BY DEF Metas, Policy!Attributes, Policy!Plain
<1>4. al[2] = <<>> /\ x[2] = <<>> /\ hash[2] = <<>> /\ Dyn[2] = <<>> /\ br[2] = <<al>>
  BY DEF Policy!Leaf, Dyn
<1>5. {al, x, hash, Dyn} \subseteq AllTrees /\ Metas \subseteq AllTrees
  BY <1>3 DEF AllTrees, Policy!Trees, Dyn
<1>6. br \in AllTrees
  BY DEF AllTrees, Policy!Trees, Policy!Groups, Policy!Plain
<1> HIDE DEF ce, al, x, hash, br
<1>7. CASE \E m \in Policy!Plain \cup {ce} : g = <<"[", <<m>>>>
  <2>1. PICK m \in Policy!Plain \cup {ce} : g = <<"[", <<m>>>>
    BY <1>7
  <2>2. m \in Metas /\ g[2] = <<m>> /\ <<m>> \in Seq(AllTrees)
    BY <1>2, <1>3, <1>5, <2>1
  <2>3. Kids(<<m>>) = {m[2]}
    BY DEF Kids, Policy!Range
  <2>4. m = ce => Shallow(m[2])
    <3>1. ASSUME m = ce PROVE \A k \in Kids(m[2]) : k = <<>>
      BY <3>1 DEF ce, Kids, Policy!Range, Policy!Leaf
    <3> QED
      BY <3>1, FlatIsDeep DEF Shallow, Flat
  <2>5. m \in Policy!Plain => Flat(m[2])
    <3>1. ASSUME m \in Policy!Plain PROVE m[2] = <<>> \/ m[2] = <<Dyn>>
      BY <3>1, AttributeForms
    <3> QED
      BY <3>1, FlatIsDeep DEF Flat
  <2>6. Deep(g[2])
    <3>1. Shallow(m[2])
      BY <2>1, <2>4, <2>5, FlatIsDeep
    <3> QED
      BY <2>2, <2>3, <3>1 DEF Deep
  <2> QED
    BY <2>1, <2>2, <2>6
<1>8. CASE g \in {<<"[", <<>>>>, <<"[", <<Dyn>>>>, <<"[", <<al, x>>>>}
  <2>1. /\ <<>> \in Seq(AllTrees) /\ <<Dyn>> \in Seq(AllTrees) /\ <<al, x>> \in Seq(AllTrees)
        /\ Len(<<>>) = 0 /\ Len(<<al, x>>) = 2
    BY <1>5
  <2>2. Kids(<<al, x>>) \subseteq {<<>>}
    BY <1>4 DEF Kids, Policy!Range
  <2>3. g[2] \in {<<>>, <<Dyn>>, <<al, x>>} /\ (g[2] = <<Dyn>> => g = <<"[", <<Dyn>>>>)
    BY <1>8
  <2>4. g[2] \in Seq(AllTrees) /\ Flat(g[2])
    BY <2>1, <2>2, <2>3, FlatIsDeep DEF Flat
  <2>5. Len(g[2]) = 1 => g[2] = <<Dyn>>
    BY <2>1, <2>3
  <2>6. Deep(g[2])
    BY <2>4, FlatIsDeep
  <2>7. Len(g[2]) = 1 => g = <<"[", <<Dyn>>>> /\ Dyn \in Metas
    BY <1>3, <2>3, <2>5
  <2> QED
    BY <2>4, <2>6, <2>7, Zenon
<1>9. CASE g \in {<<"(", <<x, Dyn>>>>, <<"(", <<hash, br>>>>}
  <2>1. g[1] = "(" /\ g[2] \in {<<x, Dyn>>, <<hash, br>>}
    BY <1>9
  <2>2. <<x, Dyn>> \in Seq(AllTrees) /\ <<hash, br>> \in Seq(AllTrees)
    BY <1>5, <1>6
  <2>3. Kids(<<x, Dyn>>) \subseteq {<<>>} /\ Kids(<<hash, br>>) \subseteq {<<>>, <<al>>}
    <3>1. ASSUME NEW p, NEW q PROVE Kids(<<p, q>>) = {p[2], q[2]}
      BY DEF Kids, Policy!Range
    <3>2. Kids(<<x, Dyn>>) = {x[2], Dyn[2]}
      BY <3>1, Zenon
    <3>3. Kids(<<hash, br>>) = {hash[2], br[2]}
      BY <3>1, Zenon
    <3> HIDE DEF Kids
    <3> QED
      BY <1>4, <3>2, <3>3
  <2>4. Kids(<<al>>) \subseteq {<<>>}
    BY <1>4 DEF Kids, Policy!Range
  <2>5. Flat(<<x, Dyn>>) /\ Flat(<<al>>) /\ Flat(<<>>)
    BY <2>3, <2>4, FlatIsDeep DEF Flat
  <2>6. Shallow(<<x, Dyn>>) /\ Shallow(<<hash, br>>)
    BY <2>3, <2>5, FlatIsDeep DEF Shallow
  <2> QED
    BY <2>1, <2>2, <2>6, FlatIsDeep
<1> QED
  BY <1>1, <1>7, <1>8, <1>9

(* Whatever is in a token list is one, and four levels are all.            *)
LEMMA ListsInside ==
  ASSUME NEW ts \in Policy!TokenLists
  PROVE  /\ ts \in Seq(AllTrees) /\ Kids(ts) \subseteq Policy!TokenLists
         /\ Deepest(ts)
<1>1. ASSUME NEW t \in AllTrees PROVE t[2] \in Policy!TokenLists /\ Deep(t[2])
  <2>1. CASE t \in Metas
    <3>1. t = Dyn => t[2] = Policy!Leaf("allow")[2] /\ Policy!Leaf("allow") \in Policy!Attributes
      BY DEF Dyn, Policy!Leaf, Policy!Attributes, Policy!Plain
    <3>2. \E m \in Policy!Attributes : t[2] = m[2]
      BY <2>1, <3>1 DEF Metas
    <3> QED
      BY <2>1, <3>2, AttributeLists DEF Policy!TokenLists
  <2>2. CASE t \in Policy!Groups
    BY <2>2, GroupLists DEF Policy!TokenLists
  <2>3. CASE t \in {Policy!Leaf(n) : n \in {"dyn", "#", "!", "x"}}
    <3>1. t[2] = <<>>
      BY <2>3 DEF Policy!Leaf
    <3>2. t[2] = Policy!Leaf("allow")[2] /\ Policy!Leaf("allow") \in Policy!Attributes
      BY <3>1 DEF Policy!Leaf, Policy!Attributes, Policy!Plain
    <3> QED
      BY <3>1, <3>2, FlatIsDeep DEF Flat, Policy!TokenLists
  <2> QED
    BY <2>1, <2>2, <2>3 DEF AllTrees, Policy!Trees
<1>2. ts \in Seq(AllTrees)
  <2>1. CASE ts \in Policy!BoundedSeq(Policy!Trees, 3)
    <3>1. ts \in Seq(Policy!Trees)
      BY <2>1, TokensAreSequence
    <3>2. Policy!Trees \subseteq AllTrees
      BY DEF AllTrees
    <3> QED
      BY <3>1, <3>2
  <2>2. CASE \E m \in Policy!Attributes : ts = m[2]
    <3>1. ts \in Seq(Metas)
      BY <2>2, AttributeLists DEF Metas
    <3>2. Metas \subseteq AllTrees
      BY DEF AllTrees
    <3> QED
      BY <3>1, <3>2
  <2>3. CASE \E g \in Policy!Groups : ts = g[2]
    BY <2>3, GroupLists
  <2> QED
    BY <2>1, <2>2, <2>3 DEF Policy!TokenLists
<1>3. \A k \in Kids(ts) : k \in Policy!TokenLists /\ Deep(k)
  BY <1>1, <1>2, KidsOf
<1> QED
  BY <1>2, <1>3 DEF Deepest

(* What is forbidden in a list itself, the lists inside it apart.          *)
Flagged(ts) == Dyn \in Policy!Range(ts) \/ Policy!SuppressedIn(ts)

(* A token list has what is forbidden in itself or further inside.         *)
LEMMA ForbiddenUnfolds ==
  ASSUME NEW ts \in Policy!TokenLists
  PROVE  Policy!ForbiddenTokens(ts) <=>
           Flagged(ts) \/ \E k \in Kids(ts) : Policy!ForbiddenTokens(k)
<1> DEFINE In(L) == Policy!Inner(L)
<1>1. ASSUME NEW L PROVE \A k : k \in In(L) <=> \E l \in L : k \in Kids(l)
  BY Zenon DEF Policy!Inner, Kids
<1>2. ASSUME NEW l
      PROVE  Policy!ForbiddenTokens(l) <=>
               \/ Flagged(l)
               \/ \E k \in In({l}) : Flagged(k)
               \/ \E k \in In(In({l})) : Flagged(k)
               \/ \E k \in In(In(In({l}))) : Flagged(k)
               \/ \E k \in In(In(In(In({l})))) : Flagged(k)
  <2>1. Policy!Within(l) = {l} \cup In({l}) \cup In(In({l})) \cup In(In(In({l})))
                               \cup In(In(In(In({l}))))
    BY Zenon DEF Policy!Within
  <2>2. Policy!ForbiddenTokens(l) <=> \E k \in Policy!Within(l) : Flagged(k)
    BY Zenon DEF Policy!ForbiddenTokens, Flagged, Dyn
  <2> HIDE DEF In
  <2> QED
    BY <2>1, <2>2
<1> HIDE DEF In
<1> DEFINE I1(l) == \E k \in Kids(l) : Flagged(k)
           I2(l) == \E k \in Kids(l) : I1(k)
           I3(l) == \E k \in Kids(l) : I2(k)
           I4(l) == \E k \in Kids(l) : I3(k)
<1>3. ASSUME NEW l
      PROVE  Policy!ForbiddenTokens(l) <=> Flagged(l) \/ I1(l) \/ I2(l) \/ I3(l) \/ I4(l)
  <2>1. \A k : k \in In({l}) <=> k \in Kids(l)
    BY <1>1
  <2>2. \A k : k \in In(In({l})) <=> \E a \in Kids(l) : k \in Kids(a)
    BY <1>1, <2>1
  <2>3. \A k : k \in In(In(In({l}))) <=> \E a \in Kids(l) : \E b \in Kids(a) : k \in Kids(b)
    BY <1>1, <2>2
  <2>4. \A k : k \in In(In(In(In({l})))) <=>
          \E a \in Kids(l) : \E b \in Kids(a) : \E c \in Kids(b) : k \in Kids(c)
    BY <1>1, <2>3
  <2> QED
    BY <1>2, <2>1, <2>2, <2>3, <2>4
<1>4. \A k \in Kids(ts) : ~I4(k)
  <2>1. ASSUME NEW a \in Kids(ts), NEW b \in Kids(a), NEW c \in Kids(b), NEW d \in Kids(c)
        PROVE  Kids(d) = {}
    BY <2>1, ListsInside, FlatIsDeep DEF Deepest, Deep, Shallow, Flat
  <2> QED
    BY <2>1
<1> HIDE DEF I4
<1>5. I4(ts) <=> \E k \in Kids(ts) : I3(k)
  BY DEF I4
<1> HIDE DEF I3
<1>6. I3(ts) <=> \E k \in Kids(ts) : I2(k)
  BY DEF I3
<1> HIDE DEF I2
<1>7. I2(ts) <=> \E k \in Kids(ts) : I1(k)
  BY DEF I2
<1> HIDE DEF I1
<1>8. I1(ts) <=> \E k \in Kids(ts) : Flagged(k)
  BY DEF I1
<1> QED
  BY <1>3, <1>4, <1>5, <1>6, <1>7, <1>8

(* What the visitor finds in a list itself is what is forbidden there.     *)
Noticed(ts) ==
  \E i \in 1 .. Len(ts) :
    \/ ts[i] = Dyn
    \/ /\ Policy!BeginsAttribute(ts, i)
       /\ Policy!Inspect[ts[Policy!AttributeAt(ts, i)][2][1]]

(* A sequence of nothing, or only b.                                       *)
AtMost(r, b) == r \in {<<>>, <<b>>}

(* Nothing, or only the element b, lies between two places of a sequence.  *)
LEMMA Between ==
  ASSUME NEW S, NEW s \in Seq(S), NEW b, NEW i \in 1 .. Len(s), NEW j \in 1 .. Len(s), i < j
  PROVE  AtMost(SubSeq(s, i + 1, j - 1), b)
           <=> j = i + 1 \/ (j = i + 2 /\ s[i + 1] = b)
<1> DEFINE r == SubSeq(s, i + 1, j - 1)
<1>1. i + 1 \in Int /\ j - 1 \in Int /\ (\A k \in i + 1 .. j - 1 : s[k] \in S)
  OBVIOUS
<1>2. /\ r \in Seq(S)
      /\ Len(r) = IF i + 1 <= j - 1 THEN j - 1 - (i + 1) + 1 ELSE 0
      /\ \A k \in 1 .. j - 1 - (i + 1) + 1 : r[k] = s[i + 1 + k - 1]
  BY <1>1, SubSeqProperties
<1>3. Len(r) = j - i - 1
  BY <1>2
<1> HIDE DEF r
<1>4. ASSUME j = i + 2 PROVE r[1] = s[i + 1]
  <2>1. 1 \in 1 .. j - 1 - (i + 1) + 1 /\ i + 1 + 1 - 1 = i + 1
    BY <1>4
  <2>2. r[1] = s[i + 1 + 1 - 1]
    BY <1>2, <2>1
  <2> QED
    BY <2>1, <2>2
<1>5. r = <<>> <=> Len(r) = 0
  BY <1>2, EmptySeq
<1>6. j = i + 2 => (r = <<b>> <=> s[i + 1] = b)
  <2> SUFFICES ASSUME j = i + 2 PROVE r = <<b>> <=> s[i + 1] = b
    OBVIOUS
  <2>1. Len(r) = 1 /\ r[1] = s[i + 1]
    BY <1>3, <1>4
  <2>2. s[i + 1] = b => <<b>> \in Seq(S) /\ Len(<<b>>) = 1 /\ <<b>>[1] = b
    BY <1>1
  <2>3. s[i + 1] = b => r = <<b>>
    BY <1>2, <2>1, <2>2, SeqEqual
  <2> QED
    BY <2>1, <2>3
<1>7. r = <<b>> => j = i + 2
  BY <1>3
<1> QED
  BY <1>3, <1>5, <1>6, <1>7 DEF r, AtMost

(* Where an attribute stands behind its `#': next to it, or after a `!'.   *)
LEMMA AttributePlaces ==
  ASSUME NEW ts \in Seq(AllTrees), NEW i \in 1 .. Len(ts), NEW j \in 1 .. Len(ts),
         i < j, ts[j][1] = "["
  PROVE  j = Policy!AttributeAt(ts, i)
           <=> SubSeq(ts, i + 1, j - 1) \in {<<>>, <<Policy!Leaf("!")>>}
<1> DEFINE bang == Policy!Leaf("!")
<1>1. AtMost(SubSeq(ts, i + 1, j - 1), bang)
        <=> j = i + 1 \/ (j = i + 2 /\ ts[i + 1] = bang)
  <2> HIDE DEF bang
  <2> QED
    BY Between
<1>2. i + 1 \in 1 .. Len(ts) /\ i + 1 <= Len(ts)
  OBVIOUS
<1>3. ts[i + 1] = bang => j # i + 1
  BY DEF Policy!Leaf
<1>4. j = Policy!AttributeAt(ts, i) <=> j = i + 1 \/ (j = i + 2 /\ ts[i + 1] = bang)
  <2> HIDE DEF bang
  <2>1. CASE ts[i + 1] = bang
    <3>1. Policy!AttributeAt(ts, i) = i + 2
      BY <1>2, <2>1 DEF Policy!AttributeAt, bang
    <3> QED
      BY <1>3, <2>1, <3>1
  <2>2. CASE ts[i + 1] # bang
    <3>1. Policy!AttributeAt(ts, i) = i + 1
      BY <1>2, <2>2 DEF Policy!AttributeAt, bang
    <3> QED
      BY <2>2, <3>1
  <2> QED
    BY <2>1, <2>2
<1> QED
  BY <1>1, <1>4 DEF AtMost

(* A tree that is an attribute in brackets.                                *)
LEMMA BracketForm ==
  ASSUME NEW t \in AllTrees
  PROVE  /\ t[1] = "[" /\ Len(t[2]) = 1 => \E m \in Metas : t = <<"[", <<m>>>>
         /\ \A m : t = <<"[", <<m>>>> => t[1] = "[" /\ Len(t[2]) = 1 /\ t[2][1] = m
<1>1. \A m : t = <<"[", <<m>>>> => t[1] = "[" /\ Len(t[2]) = 1 /\ t[2][1] = m
  OBVIOUS
<1>2. ASSUME t \in Metas PROVE t[1] # "["
  <2>1. "cfg_attr" # "["
    OBVIOUS
  <2> QED
    BY <1>2, <2>1, AttributeForms DEF Metas, Policy!Attributes
<1>3. ASSUME t \in {Policy!Leaf(n) : n \in {"dyn", "#", "!", "x"}} PROVE t[1] # "["
  BY <1>3 DEF Policy!Leaf
<1> QED
  BY <1>1, <1>2, <1>3, GroupLists DEF AllTrees, Policy!Trees

LEMMA NoticedIsFlagged ==
  ASSUME NEW ts \in Seq(AllTrees)
  PROVE  Noticed(ts) <=> Flagged(ts)
<1> DEFINE n == Len(ts)
           At(i) == Policy!AttributeAt(ts, i)
           Shown(i, j) == /\ ts[i] = Policy!Leaf("#")
                          /\ \E m \in Policy!Attributes :
                               ts[j] = <<"[", <<m>>>> /\ Policy!Suppressing(m)
           Near(i, j) == SubSeq(ts, i + 1, j - 1) \in {<<>>, <<Policy!Leaf("!")>>}
<1>0. n \in Nat /\ \A i \in 1 .. n : ts[i] \in AllTrees
  OBVIOUS
<1>1. ~Policy!Inspect[Dyn]
  <2>1. Policy!Behind(Dyn) = {} /\ ~Unfit(Dyn) /\ Dyn \in Metas
    BY DEF Policy!Behind, Unfit, Policy!Malformed, Dyn, Policy!Leaf, Metas
  <2> QED
    BY <2>1, InspectUnfolds
<1>2. \A i \in 1 .. n : At(i) \in i + 1 .. n + 2
  <2> SUFFICES ASSUME NEW i \in 1 .. n PROVE At(i) \in i + 1 .. n + 2
    OBVIOUS
  <2>1. At(i) = i + 1 \/ (At(i) = i + 2 /\ i + 1 <= n)
    BY DEF Policy!AttributeAt
  <2> QED
    BY <1>0, <2>1
<1>3. \A i, j \in 1 .. n : i < j /\ Shown(i, j) => (j = At(i) <=> Near(i, j))
  <2> SUFFICES ASSUME NEW i \in 1 .. n, NEW j \in 1 .. n, i < j, Shown(i, j)
               PROVE  j = At(i) <=> Near(i, j)
    OBVIOUS
  <2>1. ts[j][1] = "["
    OBVIOUS
  <2> QED
    BY <2>1, AttributePlaces
<1>4. Flagged(ts) <=>
        \/ \E i \in 1 .. n : ts[i] = Dyn
        \/ \E i, j \in 1 .. n : i < j /\ Shown(i, j) /\ Near(i, j)
  <2>1. Dyn \in Policy!Range(ts) <=> \E i \in 1 .. n : ts[i] = Dyn
    BY DEF Policy!Range
  <2>2. Policy!SuppressedIn(ts) <=> \E i, j \in 1 .. n : i < j /\ Shown(i, j) /\ Near(i, j)
    BY Zenon DEF Policy!SuppressedIn
  <2> QED
    BY <2>1, <2>2 DEF Flagged
<1>5. Noticed(ts) <=>
        \E i \in 1 .. n : ts[i] = Dyn \/ (At(i) <= n /\ Shown(i, At(i)))
  <2>1. ASSUME NEW i \in 1 .. n
        PROVE  (/\ Policy!BeginsAttribute(ts, i)
                /\ Policy!Inspect[ts[At(i)][2][1]])
                 <=> At(i) <= n /\ Shown(i, At(i))
    <3>1. At(i) <= n => At(i) \in 1 .. n
      BY <1>0, <1>2
    <3> DEFINE t == ts[At(i)]
    <3>2. Policy!BeginsAttribute(ts, i) <=>
            ts[i] = Policy!Leaf("#") /\ At(i) <= n /\ t[1] = "[" /\ Len(t[2]) = 1
      BY Zenon DEF Policy!BeginsAttribute
    <3>3. At(i) <= n => t \in AllTrees
      BY <1>0, <3>1
    <3> HIDE DEF At, t, n
    <3>4. ASSUME t \in AllTrees
          PROVE  (t[1] = "[" /\ Len(t[2]) = 1 /\ Policy!Inspect[t[2][1]])
                   <=> \E m \in Policy!Attributes : t = <<"[", <<m>>>> /\ Policy!Suppressing(m)
      <4>1. ASSUME t[1] = "[", Len(t[2]) = 1, Policy!Inspect[t[2][1]]
            PROVE  \E m \in Policy!Attributes : t = <<"[", <<m>>>> /\ Policy!Suppressing(m)
        <5>1. PICK m \in Metas : t = <<"[", <<m>>>>
          BY <3>4, <4>1, BracketForm
        <5>2. t[2][1] = m /\ m # Dyn
          BY <1>1, <3>4, <4>1, <5>1, BracketForm
        <5>3. m \in Policy!Attributes
          BY <5>2 DEF Metas
        <5> QED
          BY <4>1, <5>1, <5>2, <5>3, InspectIsSuppressing
      <4>2. ASSUME NEW m \in Policy!Attributes, t = <<"[", <<m>>>>, Policy!Suppressing(m)
            PROVE  t[1] = "[" /\ Len(t[2]) = 1 /\ Policy!Inspect[t[2][1]]
        <5>1. m \in Metas
          BY DEF Metas
        <5>2. t[1] = "[" /\ Len(t[2]) = 1 /\ t[2][1] = m
          BY <3>4, <4>2, BracketForm
        <5> QED
          BY <4>2, <5>1, <5>2, InspectIsSuppressing
      <4> QED
        BY <4>1, <4>2
    <3>5. Shown(i, At(i)) <=> /\ ts[i] = Policy!Leaf("#")
                              /\ \E m \in Policy!Attributes :
                                   t = <<"[", <<m>>>> /\ Policy!Suppressing(m)
      BY Zenon DEF t
    <3>6. Policy!Inspect[ts[At(i)][2][1]] <=> Policy!Inspect[t[2][1]]
      BY DEF t
    <3> HIDE DEF Shown
    <3> QED
      BY <3>2, <3>3, <3>4, <3>5, <3>6
  <2> HIDE DEF Shown
  <2> QED
    BY <2>1 DEF Noticed
<1> HIDE DEF At, Shown, Near
<1>6. ASSUME NEW i \in 1 .. n, At(i) <= n, Shown(i, At(i))
      PROVE  \E j \in 1 .. n : i < j /\ Shown(i, j) /\ Near(i, j)
  <2>1. At(i) \in 1 .. n /\ i < At(i)
    BY <1>0, <1>2, <1>6
  <2> QED
    BY <1>3, <1>6, <2>1
<1>7. ASSUME NEW i \in 1 .. n, NEW j \in 1 .. n, i < j, Shown(i, j), Near(i, j)
      PROVE  At(i) <= n /\ Shown(i, At(i))
  BY <1>0, <1>3, <1>7
<1> HIDE DEF n
<1> QED
  BY <1>4, <1>5, <1>6, <1>7

(* The second recursion has a solution, too.                               *)
LEMMA TokensUnfold ==
  ASSUME NEW l \in Policy!TokenLists
  PROVE  Policy!InspectTokens[l] <=> Noticed(l) \/ \E k \in Kids(l) : Policy!InspectTokens[k]
<1> DEFINE Look(f, ts) ==
             \E i \in 1 .. Len(ts) :
               \/ ts[i] = Policy!Leaf("dyn")
               \/ /\ Policy!BeginsAttribute(ts, i)
                  /\ Policy!Inspect[ts[Policy!AttributeAt(ts, i)][2][1]]
               \/ f[ts[i][2]]
           Step(f) == [ts \in Policy!TokenLists |-> Look(f, ts)]
           F == [ts \in Policy!TokenLists |-> Policy!ForbiddenTokens(ts)]
<1>0. ASSUME NEW f, NEW ts \in Policy!TokenLists
      PROVE  Look(f, ts) <=> Noticed(ts) \/ \E k \in Kids(ts) : f[k]
  <2>1. ts \in Seq(AllTrees)
    BY ListsInside
  <2>2. (\E k \in Kids(ts) : f[k]) <=> \E i \in 1 .. Len(ts) : f[ts[i][2]]
    BY <2>1, KidsOf
  <2>3. Look(f, ts) <=> Noticed(ts) \/ \E i \in 1 .. Len(ts) : f[ts[i][2]]
    BY Zenon DEF Noticed, Dyn
  <2> QED
    BY <2>2, <2>3
<1>1. ASSUME NEW ts \in Policy!TokenLists PROVE Policy!ForbiddenTokens(ts) = Look(F, ts)
  <2>1. \A k \in Kids(ts) : F[k] = Policy!ForbiddenTokens(k)
    BY ListsInside
  <2>2. Policy!ForbiddenTokens(ts) <=> Look(F, ts)
    <3>1. Look(F, ts) <=> Noticed(ts) \/ \E k \in Kids(ts) : F[k]
      BY <1>0
    <3> HIDE DEF Look, F
    <3> QED
      BY <2>1, <3>1, ListsInside, NoticedIsFlagged, ForbiddenUnfolds
  <2>3. Policy!ForbiddenTokens(ts) \in BOOLEAN /\ Look(F, ts) \in BOOLEAN
    BY Zenon DEF Policy!ForbiddenTokens
  <2> DEFINE P == Policy!ForbiddenTokens(ts)
             Q == Look(F, ts)
  <2> HIDE DEF P, Q
  <2>4. P = Q
    BY <2>2, <2>3 DEF P, Q
  <2> QED
    BY <2>4 DEF P, Q
<1>2. F = Step(F)
  <2> HIDE DEF Look
  <2> QED
    BY <1>1, Zenon
<1>3. Policy!InspectTokens = CHOOSE f : f = Step(f)
  BY Zenon DEF Policy!InspectTokens
<1>4. Policy!InspectTokens = Step(Policy!InspectTokens)
  <2> HIDE DEF Step, F
  <2> QED
    BY <1>2, <1>3, Zenon
<1>5. Policy!InspectTokens[l] = Look(Policy!InspectTokens, l)
  <2> HIDE DEF Look
  <2> QED
    BY <1>4, Zenon
<1> HIDE DEF Look
<1> QED
  BY <1>0, <1>5

(* Whatever group it is in, what is forbidden in a macro call is found.    *)
LEMMA InspectTokensIsForbidden ==
  ASSUME NEW ts \in Policy!TokenLists
  PROVE  Policy!InspectTokens[ts] <=> Policy!ForbiddenTokens(ts)
<1> DEFINE Agree(l) == l \in Policy!TokenLists =>
                         (Policy!InspectTokens[l] <=> Policy!ForbiddenTokens(l))
<1>1. ASSUME NEW l, \A k \in Kids(l) : Agree(k) PROVE Agree(l)
  <2> SUFFICES ASSUME l \in Policy!TokenLists
               PROVE  Policy!InspectTokens[l] <=> Policy!ForbiddenTokens(l)
    OBVIOUS
  <2>1. l \in Seq(AllTrees) /\ Kids(l) \subseteq Policy!TokenLists
    BY ListsInside
  <2>2. \A k \in Kids(l) : Policy!InspectTokens[k] <=> Policy!ForbiddenTokens(k)
    BY <1>1, <2>1
  <2> QED
    BY <2>1, <2>2, TokensUnfold, NoticedIsFlagged, ForbiddenUnfolds
<1> HIDE DEF Agree
<1>2. Agree(<<>>)
  BY <1>1, FlatIsDeep
<1>3. \A l : Flat(l) => Agree(l)
  BY <1>1, <1>2 DEF Flat
<1>4. \A l : Shallow(l) => Agree(l)
  BY <1>1, <1>3 DEF Shallow
<1>5. \A l : Deep(l) => Agree(l)
  BY <1>1, <1>4 DEF Deep
<1>6. Agree(ts)
  BY <1>1, <1>5, ListsInside DEF Deepest
<1> QED
  BY <1>6 DEF Agree

(* What the visitor reports of attributes and of macro calls is forbidden. *)
LEMMA VerdictsAgree ==
  ASSUME NEW v \in Policy!AttributeVerdicts \cup Policy!TokenVerdicts
  PROVE  v.found <=> v.forbidden
<1>1. CASE v \in Policy!AttributeVerdicts
  <2>1. PICK m \in Policy!Attributes :
          v = [found |-> Policy!Inspect[m] \/ Policy!InspectTokens[m[2]],
               forbidden |-> Policy!Suppressing(m) \/ Policy!ForbiddenTokens(m[2])]
    BY <1>1, Zenon DEF Policy!AttributeVerdicts
  <2>2. m \in Metas /\ m[2] \in Policy!TokenLists
    BY DEF Metas, Policy!TokenLists
  <2>3. /\ v.found <=> Policy!Inspect[m] \/ Policy!InspectTokens[m[2]]
        /\ v.forbidden <=> Policy!Suppressing(m) \/ Policy!ForbiddenTokens(m[2])
    BY <2>1
  <2> QED
    BY <2>2, <2>3, InspectIsSuppressing, InspectTokensIsForbidden
<1>2. CASE v \in Policy!TokenVerdicts
  <2>1. PICK ts \in Policy!BoundedSeq(Policy!Trees, 3) :
          v = [found |-> Policy!InspectTokens[ts], forbidden |-> Policy!ForbiddenTokens(ts)]
    BY <1>2, Zenon DEF Policy!TokenVerdicts
  <2>2. ts \in Policy!TokenLists
    BY DEF Policy!TokenLists
  <2> QED
    BY <2>1, <2>2, InspectTokensIsForbidden
<1> QED
  BY <1>1, <1>2

(* Nothing has been visited before the walk.                               *)
LEMMA WalkInit == Policy!Init => WalkInv
<1> SUFFICES ASSUME Policy!Init PROVE WalkInv
  OBVIOUS
<1>1. /\ at = "files"
      /\ work = [open |-> <<>>, inErrorImpl |-> FALSE, allowed |-> 0,
                 nodes |-> 0, reported |-> {}, forbidden |-> {}]
  BY DEF Policy!Init
<1>2. WalkTypeOK
  BY <1>1 DEF WalkTypeOK
<1>3. Stack(work.open, work.inErrorImpl, work.allowed)
  BY <1>1 DEF Stack
<1> QED
  BY <1>1, <1>2, <1>3 DEF WalkInv

(* Opening an item whose fields the visitor sets right.                    *)
LEMMA OpenKeepsInv ==
  ASSUME WalkInv, NEW kind \in {"impl", "fn"}, NEW ofError \in BOOLEAN, NEW inner \in BOOLEAN,
         NEW fresh \in Nat, Policy!Open(kind, ofError, inner, fresh),
         kind = "impl" => inner = ofError,
         kind = "fn" => (fresh = work.nodes + 1) = ofError
  PROVE  WalkInv'
<1> DEFINE item == [kind |-> kind, node |-> work.nodes + 1, ofError |-> ofError,
                    inErrorImpl |-> work.inErrorImpl, allowed |-> work.allowed]
<1>1. WalkTypeOK /\ Stack(work.open, work.inErrorImpl, work.allowed)
  BY DEF WalkInv
<1>2. /\ work' = [work EXCEPT !.open = Append(@, item), !.inErrorImpl = inner,
                              !.allowed = fresh, !.nodes = work.nodes + 1]
      /\ at' = at
  BY Zenon DEF Policy!Open, Policy!Node
<1>3. item \in Items
  BY <1>1 DEF Items, WalkTypeOK
<1>4. Tells(item, inner, fresh)
  BY DEF Tells
<1>5. /\ item.inErrorImpl = work.inErrorImpl /\ item.allowed = work.allowed
      /\ work.inErrorImpl \in BOOLEAN /\ work.allowed \in Nat /\ work.open \in Seq(Items)
  BY <1>1 DEF WalkTypeOK
<1> HIDE DEF item
<1>6. Stack(Append(work.open, item), inner, fresh)
  BY <1>1, <1>3, <1>4, <1>5, StackOpens
<1>7. /\ work'.open = Append(work.open, item) /\ work'.inErrorImpl = inner
      /\ work'.allowed = fresh /\ work'.nodes = work.nodes + 1
      /\ work'.reported = work.reported /\ work'.forbidden = work.forbidden
      /\ DOMAIN work' = DOMAIN work
  BY <1>1, <1>2 DEF WalkTypeOK
<1>8. WalkTypeOK'
  BY <1>1, <1>2, <1>3, <1>7 DEF WalkTypeOK
<1> QED
  BY <1>2, <1>6, <1>7, <1>8 DEF WalkInv

(* The end of an item.                                                     *)
LEMMA CloseKeepsInv == ASSUME WalkInv, Policy!Close PROVE WalkInv'
<1>1. WalkTypeOK /\ Stack(work.open, work.inErrorImpl, work.allowed) /\ work.open # <<>>
  BY DEF WalkInv, Policy!Close
<1>2. /\ work' = [work EXCEPT !.open = Policy!Front(@),
                              !.inErrorImpl = Policy!Last(work.open).inErrorImpl,
                              !.allowed = Policy!Last(work.open).allowed]
      /\ at' = at
  BY DEF Policy!Close
<1>3. /\ Policy!Front(work.open) \in Seq(Items)
      /\ Stack(Policy!Front(work.open), Policy!Last(work.open).inErrorImpl,
               Policy!Last(work.open).allowed)
  BY <1>1, StackCloses DEF WalkTypeOK
<1>4. Policy!Last(work.open) \in Items
  BY <1>1 DEF WalkTypeOK, Policy!Last
<1>5. /\ work'.open = Policy!Front(work.open)
      /\ work'.inErrorImpl = Policy!Last(work.open).inErrorImpl
      /\ work'.allowed = Policy!Last(work.open).allowed /\ work'.nodes = work.nodes
      /\ work'.reported = work.reported /\ work'.forbidden = work.forbidden
      /\ DOMAIN work' = DOMAIN work
  BY <1>1, <1>2 DEF WalkTypeOK
<1>6. WalkTypeOK'
  BY <1>1, <1>2, <1>3, <1>4, <1>5 DEF WalkTypeOK, Items
<1> QED
  BY <1>2, <1>3, <1>5, <1>6 DEF WalkInv

(* A node that is reported exactly if it is forbidden.                     *)
LEMMA ReportKeepsInv ==
  ASSUME WalkInv, at = "walk", NEW noticed, NEW forbidden, noticed <=> forbidden,
         Policy!Report(noticed, forbidden)
  PROVE  WalkInv'
<1>1. WalkTypeOK /\ work.reported = work.forbidden
  BY DEF WalkInv
<1>2. /\ work' = [work EXCEPT !.nodes = work.nodes + 1,
                   !.reported = IF noticed THEN @ \cup {work.nodes + 1} ELSE @,
                   !.forbidden = IF forbidden THEN @ \cup {work.nodes + 1} ELSE @]
      /\ at' = at
  BY Zenon DEF Policy!Report, Policy!Node
<1>3. /\ work'.open = work.open /\ work'.inErrorImpl = work.inErrorImpl
      /\ work'.allowed = work.allowed /\ work'.nodes = work.nodes + 1
      /\ work'.reported = IF noticed THEN work.reported \cup {work.nodes + 1} ELSE work.reported
      /\ work'.forbidden = IF forbidden THEN work.forbidden \cup {work.nodes + 1}
                                        ELSE work.forbidden
      /\ DOMAIN work' = DOMAIN work
  BY <1>1, <1>2 DEF WalkTypeOK
<1>4. work'.reported = work'.forbidden
  BY <1>1, <1>3
<1>5. WalkTypeOK'
  BY <1>1, <1>2, <1>3 DEF WalkTypeOK
<1> QED
  BY <1>2, <1>3, <1>4, <1>5 DEF WalkInv

(* The items the walk may come to.                                         *)
LEMMA ItemsKeepInv ==
  ASSUME WalkInv, Policy!VisitItemImpl \/ Policy!VisitImplItemFn
  PROVE  WalkInv'
<1>1. WalkTypeOK
  BY DEF WalkInv
<1>2. CASE Policy!VisitItemImpl
  <2>1. PICK p \in Policy!Traits :
          Policy!Open("impl", Policy!IsStandardErrorPath(p), Policy!EntersErrorImpl(p),
                      work.allowed)
    BY <1>2 DEF Policy!VisitItemImpl
  <2> DEFINE standard == Policy!IsStandardErrorPath(p)
  <2>2. /\ standard \in BOOLEAN /\ work.allowed \in Nat
        /\ Policy!Open("impl", standard, standard, work.allowed)
    <3>1. standard \in BOOLEAN
      BY DEF Policy!IsStandardErrorPath
    <3>2. Policy!Open("impl", standard, standard, work.allowed)
      BY <2>1, Zenon DEF Policy!EntersErrorImpl
    <3> QED
      BY <1>1, <3>1, <3>2 DEF WalkTypeOK
  <2> HIDE DEF standard
  <2> QED
    BY <2>2, OpenKeepsInv
<1>3. CASE Policy!VisitImplItemFn
  <2> DEFINE item == Policy!Last(work.open)
  <2>1. PICK s \in Policy!Interesting :
          Policy!Open("fn", item.ofError /\ s \in Policy!Accepted, work.inErrorImpl,
                      IF work.inErrorImpl /\ Policy!SourceReturn(s) THEN work.nodes + 1 ELSE 0)
    BY <1>3, Zenon DEF Policy!VisitImplItemFn, Policy!Node
  <2> DEFINE ofError == item.ofError /\ s \in Policy!Accepted
             fresh == IF work.inErrorImpl /\ Policy!SourceReturn(s) THEN work.nodes + 1 ELSE 0
  <2>2. work.open # <<>> /\ item.kind = "impl"
    BY <1>3 DEF Policy!VisitImplItemFn, Policy!Directly
  <2>3. item \in Items /\ item = work.open[Len(work.open)] /\ Len(work.open) > 0
    BY <1>1, <2>2 DEF WalkTypeOK, Policy!Last
  <2>4. work.inErrorImpl = item.ofError
    BY <2>2, <2>3 DEF WalkInv, Stack, Tells
  <2>5. Policy!SourceReturn(s) <=> s \in Policy!Accepted
    BY SourceReturnIsAccepted
  <2>6. work.nodes \in Nat /\ work.inErrorImpl \in BOOLEAN
    BY <1>1 DEF WalkTypeOK
  <2>7. fresh \in Nat /\ ofError \in BOOLEAN
    BY <2>6
  <2>8. (fresh = work.nodes + 1) = ofError
    <3>1. fresh = work.nodes + 1 <=> ofError
      BY <2>4, <2>5, <2>6
    <3> DEFINE P == fresh = work.nodes + 1
    <3>2. P \in BOOLEAN
      OBVIOUS
    <3> HIDE DEF P, ofError
    <3>3. P = ofError
      BY <2>7, <3>1, <3>2 DEF P
    <3> QED
      BY <3>3 DEF P
  <2>9. Policy!Open("fn", ofError, work.inErrorImpl, fresh)
    BY <2>1
  <2> HIDE DEF ofError, fresh
  <2> QED
    BY <2>6, <2>7, <2>8, <2>9, OpenKeepsInv
<1> QED
  BY <1>2, <1>3

(* The nodes the walk may come to.                                         *)
LEMMA NodesKeepInv ==
  ASSUME WalkInv, \/ Policy!VisitTypeTraitObject \/ Policy!VisitAttribute \/ Policy!VisitMacro
  PROVE  WalkInv'
<1>1. WalkTypeOK
  BY DEF WalkInv
<1>2. CASE Policy!VisitTypeTraitObject
  <2> DEFINE item == Policy!Last(work.open)
  <2>1. at = "walk"
    BY <1>2 DEF Policy!VisitTypeTraitObject, Policy!More
  <2>2. CASE Policy!Report(TRUE, TRUE)
    BY <2>1, <2>2, ReportKeepsInv, Zenon
  <2>3. CASE Policy!Directly("fn") /\ Policy!Report(work.allowed # item.node, ~item.ofError)
    <3>1. work.open # <<>> /\ item.kind = "fn"
      BY <2>3 DEF Policy!Directly
    <3>2. item \in Items /\ item = work.open[Len(work.open)] /\ Len(work.open) > 0
      BY <1>1, <3>1 DEF WalkTypeOK, Policy!Last
    <3>3. (work.allowed = item.node) = item.ofError
      BY <3>1, <3>2 DEF WalkInv, Stack, Tells
    <3> DEFINE noticed == work.allowed # item.node
               forbidden == ~item.ofError
    <3>4. noticed <=> forbidden
      BY <3>3
    <3>5. Policy!Report(noticed, forbidden)
      BY <2>3
    <3> HIDE DEF noticed, forbidden
    <3> QED
      BY <2>1, <3>4, <3>5, ReportKeepsInv
  <2> QED
    BY <1>2, <2>2, <2>3, Zenon DEF Policy!VisitTypeTraitObject
<1>3. CASE Policy!VisitAttribute \/ Policy!VisitMacro
  <2>1. PICK v \in Policy!AttributeVerdicts \cup Policy!TokenVerdicts :
          at = "walk" /\ Policy!Report(v.found, v.forbidden)
    BY <1>3, Zenon DEF Policy!VisitAttribute, Policy!VisitMacro, Policy!More
  <2> QED
    BY <2>1, VerdictsAgree, ReportKeepsInv
<1> QED
  BY <1>2, <1>3

(* Exactly what is forbidden has been reported, at every moment: the       *)
(* visitor's fields are right for the item it is in, and what it saved     *)
(* for those around it.                                                    *)
THEOREM WalkInvHolds == Spec => [](command = "source-policy" => WalkInv)
<1>1. Init => (command = "source-policy" => WalkInv)
  BY WalkInit DEF Init
<1>2. (command = "source-policy" => WalkInv) /\ [Next]_vars
        => (command = "source-policy" => WalkInv)'
  <2> SUFFICES ASSUME WalkInv, [Next]_vars, command = "source-policy" PROVE WalkInv'
    BY DEF Next, vars
  <2>1. CASE Policy!CollectFiles \/ Policy!InvalidSyntax \/ Policy!Conclude
    <3>1. /\ work' = work /\ at' \in {"walk", "passed", "refused"}
          /\ at' = "passed" => work.forbidden = {}
      BY <2>1 DEF WalkInv, Policy!CollectFiles, Policy!InvalidSyntax, Policy!Conclude
    <3>2. WalkTypeOK'
      BY <3>1 DEF WalkInv, WalkTypeOK
    <3> QED
      BY <3>1, <3>2 DEF WalkInv
  <2>2. CASE UNCHANGED <<at, work>>
    BY <2>2 DEF WalkInv, WalkTypeOK
  <2> QED
    BY <2>1, <2>2, ItemsKeepInv, NodesKeepInv, CloseKeepsInv
    DEF Next, vars, sequential, Policy!Next, Policy!Ended, Policy!vars
<1> QED
  BY <1>1, <1>2, PTL DEF Spec

(* Exactly what the source policy forbids is reported, in a file of any    *)
(* length and with items nested to any depth (source_policy.rs:126-312).   *)
THEOREM PolicyIsReported == Spec => []ReportsForbidden
<1>1. (command = "source-policy" => WalkInv) => ReportsForbidden
  BY DEF WalkInv, ReportsForbidden, Policy!ReportsForbidden
<1> QED
  BY <1>1, WalkInvHolds, PTL

-----------------------------------------------------------------------------
(* The blocks of a workflow.                                               *)

(* A set of natural numbers has a least one.                               *)
LEMMA Least ==
  ASSUME NEW T, T \subseteq Nat, T # {}
  PROVE  \E x \in T : \A y \in T : x <= y
<1> DEFINE R == OpToRel(<, Nat)
<1>1. IsWellFoundedOn(R, Nat)
  BY NatLessThanWellFounded, Zenon
<1>2. \A x, y \in Nat : y < x => <<y, x>> \in R
  BY DEF OpToRel
<1> HIDE DEF R
<1>3. PICK x \in T : \A y \in T : ~(<<y, x>> \in R)
  BY <1>1, WFMin
<1>4. \A y \in T : ~(y < x)
  BY <1>2, <1>3, Zenon
<1>5. \A y \in T : x <= y
  BY <1>4
<1> QED
  BY <1>5

(* Induction along the numbers up to n, over a set in place of a formula.  *)
LEMMA UpTo ==
  ASSUME NEW n \in Nat, NEW S, 1 \in S, \A m \in 1 .. n - 1 : m \in S => m + 1 \in S
  PROVE  \A m \in 1 .. n : m \in S
<1> DEFINE T == (1 .. n) \ S
<1> SUFFICES ASSUME T # {} PROVE FALSE
  OBVIOUS
<1>1. PICK x \in T : \A y \in T : x <= y
  <2>1. T \subseteq Nat
    OBVIOUS
  <2> HIDE DEF T
  <2> QED
    BY <2>1, Least
<1>2. x \in 1 .. n /\ x \notin S /\ x # 1
  OBVIOUS
<1>3. x - 1 \in 1 .. n - 1 /\ x - 1 \in 1 .. n /\ ~(x <= x - 1) /\ x - 1 + 1 = x
  BY <1>2
<1>4. x - 1 \in S
  BY <1>1, <1>3
<1> QED
  BY <1>2, <1>3, <1>4

(* What one sequence behind another holds.                                 *)
IsJoin(T, s, t, u) ==
  /\ u \in Seq(T) /\ Len(u) = Len(s) + Len(t)
  /\ \A i \in 1 .. Len(s) : u[i] = s[i]
  /\ \A k \in 1 .. Len(t) : u[Len(s) + k] = t[k]

LEMMA Behind == ASSUME NEW T, NEW s \in Seq(T), NEW t \in Seq(T) PROVE IsJoin(T, s, t, s \o t)
<1>1. s \o t \in Seq(T) /\ Len(s \o t) = Len(s) + Len(t)
  OBVIOUS
<1>2. \A i \in 1 .. Len(s) + Len(t) :
        (s \o t)[i] = IF i <= Len(s) THEN s[i] ELSE t[i - Len(s)]
  BY ConcatProperties
<1>3. Len(s) \in Nat /\ Len(t) \in Nat
  OBVIOUS
<1>4. ASSUME NEW k \in 1 .. Len(t) PROVE (s \o t)[Len(s) + k] = t[k]
  <2>1. /\ Len(s) + k \in 1 .. Len(s) + Len(t) /\ ~(Len(s) + k <= Len(s))
        /\ Len(s) + k - Len(s) = k
    BY <1>3
  <2> QED
    BY <1>2, <2>1
<1>5. \A i \in 1 .. Len(s) : (s \o t)[i] = s[i]
  BY <1>2, <1>3
<1> QED
  BY <1>1, <1>4, <1>5 DEF IsJoin

(* The place of the first m of some sequences in a long one: where each    *)
(* begins.                                                                 *)
Layout(seqs, m, flat, start) ==
  /\ start \in [1 .. m + 1 -> Nat] /\ start[1] = 1 /\ Len(flat) = start[m + 1] - 1
  /\ \A i \in 1 .. m : start[i + 1] = start[i] + Len(seqs[i])
  /\ \A i, j \in 1 .. m + 1 : i < j => start[i] + Len(seqs[i]) <= start[j]
  /\ \A i \in 1 .. m : \A k \in 1 .. Len(seqs[i]) : flat[start[i] + k - 1] = seqs[i][k]
  /\ \A p \in 1 .. Len(flat) : \E i \in 1 .. m : start[i] <= p /\ p < start[i + 1]

(* One more sequence behind the others.                                    *)
LEMMA LayoutGrows ==
  ASSUME NEW T, NEW seqs \in Seq(Seq(T)), NEW m \in Nat, NEW n \in 1 .. Len(seqs), n = m + 1,
         NEW flat \in Seq(T), NEW start, Layout(seqs, m, flat, start)
  PROVE  \E longer : Layout(seqs, n, flat \o seqs[n], longer)
<1> DEFINE next == seqs[n]
           longer == [i \in 1 .. n + 1 |-> IF i = n + 1 THEN start[n] + Len(next) ELSE start[i]]
           all == flat \o next
           L(i) == Len(seqs[i])
<1>0. n \in Nat /\ m + 1 = n /\ 1 .. m = 1 .. n - 1 /\ n \in 1 .. n /\ n + 1 \in 1 .. n + 1
  OBVIOUS
<1>1. /\ next \in Seq(T) /\ Len(next) \in Nat /\ Len(flat) \in Nat /\ L(n) = Len(next)
      /\ \A i \in 1 .. n : seqs[i] \in Seq(T) /\ L(i) \in Nat
  OBVIOUS
<1>2. /\ all \in Seq(T) /\ Len(all) = Len(flat) + Len(next)
      /\ \A i \in 1 .. Len(flat) : all[i] = flat[i]
      /\ \A k \in 1 .. Len(next) : all[Len(flat) + k] = next[k]
  BY <1>1, Behind DEF IsJoin
<1> HIDE DEF all, L
<1>3. /\ start \in [1 .. n -> Nat] /\ start[1] = 1 /\ Len(flat) = start[n] - 1
      /\ \A i \in 1 .. n - 1 : start[i + 1] = start[i] + L(i)
      /\ \A i, j \in 1 .. n : i < j => start[i] + L(i) <= start[j]
      /\ \A i \in 1 .. n - 1 : \A k \in 1 .. L(i) : flat[start[i] + k - 1] = seqs[i][k]
      /\ \A p \in 1 .. Len(flat) : \E i \in 1 .. n - 1 : start[i] <= p /\ p < start[i + 1]
  <2>1. Layout(seqs, m, flat, start) /\ m + 1 = n /\ 1 .. m = 1 .. n - 1
    BY <1>0
  <2> QED
    BY <2>1 DEF Layout, L
<1>4. /\ longer[n + 1] = start[n] + Len(next)
      /\ \A i \in 1 .. n : longer[i] = start[i] /\ start[i] \in Nat
  BY <1>3
<1>5. longer \in [1 .. n + 1 -> Nat] /\ longer[1] = 1
  BY <1>1, <1>3
<1> HIDE DEF longer, next
<1>12. /\ longer[n + 1] = start[n] + Len(next) /\ start[n] \in Nat
       /\ Len(flat) = start[n] - 1 /\ Len(all) = Len(flat) + Len(next)
       /\ Len(next) \in Nat /\ Len(flat) \in Nat
  <2>1. start[n] \in Nat
    BY <1>0, <1>4
  <2> QED
    BY <1>1, <1>2, <1>3, <1>4, <2>1
<1>6. Len(all) = longer[n + 1] - 1
  <2> DEFINE a == Len(flat)
             b == Len(next)
             c == start[n]
  <2>1. a \in Nat /\ b \in Nat /\ c \in Nat /\ a = c - 1
        /\ Len(all) = a + b /\ longer[n + 1] = c + b
    BY <1>12
  <2> HIDE DEF a, b, c
  <2> QED
    BY <2>1
<1>7. ASSUME NEW i \in 1 .. n PROVE longer[i + 1] = longer[i] + L(i)
  <2>1. CASE i = n
    BY <1>1, <1>4, <2>1
  <2>2. CASE i # n
    <3>1. i \in 1 .. n - 1 /\ i + 1 \in 1 .. n
      BY <1>0, <2>2
    <3> QED
      BY <1>3, <1>4, <3>1
  <2> QED
    BY <2>1, <2>2
<1>8. ASSUME NEW i \in 1 .. n + 1, NEW j \in 1 .. n + 1, i < j
      PROVE  longer[i] + L(i) <= longer[j]
  <2>0. i \in 1 .. n /\ longer[i] = start[i] /\ start[i] \in Nat /\ L(i) \in Nat
    <3>1. i \in 1 .. n
      BY <1>8
    <3> QED
      BY <1>1, <1>4, <3>1
  <2>1. CASE j = n + 1 /\ i = n
    <3>1. longer[i] + L(i) = start[n] + Len(next) /\ longer[j] = start[n] + Len(next)
      BY <1>1, <1>12, <2>0, <2>1
    <3>2. \A x, y \in Nat : x + y <= x + y
      OBVIOUS
    <3>3. start[n] + Len(next) <= start[n] + Len(next)
      BY <1>12, <3>2
    <3> QED
      BY <3>1, <3>3
  <2>2. CASE j = n + 1 /\ i < n
    <3>1. start[i] + L(i) <= start[n] /\ start[n] \in Nat
      BY <1>0, <1>3, <1>4, <2>0, <2>2
    <3>2. longer[j] = start[n] + Len(next)
      BY <1>12, <2>2
    <3>3. \A a, b, c, d \in Nat : a + b <= c => a + b <= c + d
      OBVIOUS
    <3>4. start[i] + L(i) <= start[n] + Len(next)
      BY <1>12, <2>0, <3>1, <3>3
    <3> QED
      BY <2>0, <3>2, <3>4
  <2>3. CASE j \in 1 .. n
    BY <1>3, <1>4, <1>8, <2>0, <2>3
  <2> QED
    BY <1>8, <2>0, <2>1, <2>2, <2>3
<1>9. ASSUME NEW i \in 1 .. n, NEW k \in 1 .. L(i)
      PROVE  all[longer[i] + k - 1] = seqs[i][k]
  <2>0. start[i] \in Nat /\ longer[i] = start[i] /\ L(i) \in Nat
    BY <1>1, <1>4
  <2>1. CASE i = n
    <3>1. longer[i] + k - 1 = Len(flat) + k
      BY <1>1, <1>3, <2>0, <2>1
    <3>2. k \in 1 .. Len(next) /\ seqs[i] = next
      BY <1>1, <2>1 DEF next
    <3> QED
      BY <1>2, <3>1, <3>2
  <2>2. CASE i \in 1 .. n - 1
    <3>1. start[i] + L(i) <= start[n]
      BY <1>0, <1>3, <2>2
    <3>2. start[i] >= 1
      <4>1. i # 1 => start[1] + L(1) <= start[i]
        BY <1>0, <1>3
      <4>2. L(1) \in Nat
        BY <1>1
      <4> QED
        BY <1>3, <2>0, <4>1, <4>2
    <3>3. \A a, b, c, d \in Nat : a + b <= c /\ a >= 1 /\ d = c - 1
                                 => \A e \in 1 .. b : a + e - 1 \in 1 .. d
      OBVIOUS
    <3>4. start[i] + k - 1 \in 1 .. Len(flat)
      BY <1>12, <2>0, <3>1, <3>2, <3>3
    <3> QED
      BY <1>2, <1>3, <2>0, <2>2, <3>4
  <2> QED
    BY <2>1, <2>2
<1>10. ASSUME NEW p \in 1 .. Len(all)
       PROVE  \E i \in 1 .. n : longer[i] <= p /\ p < longer[i + 1]
  <2>1. CASE p <= Len(flat)
    <3>1. PICK i \in 1 .. n - 1 : start[i] <= p /\ p < start[i + 1]
      BY <1>1, <1>3, <2>1
    <3>2. i \in 1 .. n /\ i + 1 \in 1 .. n
      BY <1>0
    <3>3. longer[i] = start[i] /\ longer[i + 1] = start[i + 1]
      BY <1>4, <3>2
    <3> QED
      BY <3>1, <3>2, <3>3
  <2>2. CASE p > Len(flat)
    <3>1. longer[n] = start[n] /\ start[n] \in Nat
      BY <1>0, <1>4
    <3>2. \A a, b, c \in Nat : b = a - 1 => \A q \in 1 .. b + c : q > b => a <= q /\ q < a + c
      OBVIOUS
    <3>3. p \in 1 .. Len(flat) + Len(next)
      BY <1>12
    <3>4. start[n] <= p /\ p < start[n] + Len(next)
      BY <1>12, <2>2, <3>2, <3>3
    <3>5. longer[n] <= p /\ p < longer[n + 1]
      BY <1>12, <3>1, <3>4
    <3> QED
      BY <1>0, <3>5
  <2> QED
    BY <1>1, <2>1, <2>2
<1>11. Layout(seqs, n, all, longer)
  BY <1>5, <1>6, <1>7, <1>8, <1>9, <1>10 DEF Layout, L
<1> QED
  BY <1>11 DEF all, next

(* The recursion of FlattenSeq has a solution on any number of sequences.  *)
LEMMA FlattenRecursion ==
  ASSUME NEW seqs, NEW n \in Nat \ {0}
  PROVE  \E f : f = [i \in 1 .. n |-> IF i = 1 THEN seqs[i] ELSE f[i - 1] \o seqs[i]]
<1> DEFINE Step(f, m) == [i \in 1 .. m |-> IF i = 1 THEN seqs[i] ELSE f[i - 1] \o seqs[i]]
           S == {m \in Nat : \E f : f = Step(f, m)}
<1>1. 1 \in S
  <2> DEFINE f == [i \in 1 .. 1 |-> seqs[i]]
  <2>1. f = Step(f, 1)
    OBVIOUS
  <2> QED
    BY <2>1
<1>2. ASSUME NEW m \in 1 .. n - 1, m \in S PROVE m + 1 \in S
  <2>1. PICK f : f = Step(f, m)
    BY <1>2
  <2> DEFINE g == [i \in 1 .. m + 1 |-> IF i = m + 1 THEN f[m] \o seqs[m + 1] ELSE f[i]]
  <2>2. \A i \in 1 .. m : f[i] = IF i = 1 THEN seqs[i] ELSE f[i - 1] \o seqs[i]
    BY <2>1
  <2>3. ASSUME NEW i \in 1 .. m + 1
        PROVE  g[i] = IF i = 1 THEN seqs[i] ELSE g[i - 1] \o seqs[i]
    <3>1. CASE i = m + 1
      <4>1. i # 1 /\ i - 1 = m /\ i - 1 \in 1 .. m + 1 /\ i - 1 # m + 1
        BY <3>1
      <4> QED
        BY <3>1, <4>1
    <3>2. CASE i # m + 1
      <4>1. i \in 1 .. m /\ (i # 1 => i - 1 \in 1 .. m + 1 /\ i - 1 # m + 1)
        BY <3>2
      <4> QED
        BY <2>2, <3>2, <4>1
    <3> QED
      BY <3>1, <3>2
  <2>4. g = Step(g, m + 1)
    <3> DEFINE G(i) == IF i = m + 1 THEN f[m] \o seqs[m + 1] ELSE f[i]
               H(i) == IF i = 1 THEN seqs[i] ELSE g[i - 1] \o seqs[i]
    <3>1. \A i \in 1 .. m + 1 : g[i] = G(i)
      OBVIOUS
    <3>2. \A i \in 1 .. m + 1 : g[i] = H(i)
      BY <2>3
    <3>3. g = [i \in 1 .. m + 1 |-> G(i)]
      OBVIOUS
    <3> HIDE DEF G, H, g
    <3>4. g = [i \in 1 .. m + 1 |-> H(i)]
      BY <3>1, <3>2, <3>3, Zenon
    <3> QED
      BY <3>4 DEF H
  <2> HIDE DEF g, Step
  <2> QED
    BY <2>4
<1> HIDE DEF S
<1>3. n \in S
  BY <1>1, <1>2, UpTo
<1> QED
  BY <1>3 DEF S

(* What FlattenSeq returns: the sequences, one behind the other.           *)
LEMMA FlattenLayout ==
  ASSUME NEW T, NEW seqs \in Seq(Seq(T))
  PROVE  /\ Shells!FlattenSeq(seqs) \in Seq(T)
         /\ \E start : Layout(seqs, Len(seqs), Shells!FlattenSeq(seqs), start)
<1> DEFINE n == Len(seqs)
           flat == Shells!FlattenSeq(seqs)
           Step(f) == [i \in 1 .. n |-> IF i = 1 THEN seqs[i] ELSE f[i - 1] \o seqs[i]]
           flatten == CHOOSE f : f = Step(f)
<1>0. n \in Nat /\ \A i \in 1 .. n : seqs[i] \in Seq(T)
  OBVIOUS
<1>1. CASE n = 0
  <2>1. flat = <<>>
    BY <1>1 DEF Shells!FlattenSeq
  <2> DEFINE start == [i \in 1 .. 0 + 1 |-> 1]
  <2>2. Layout(seqs, n, flat, start)
    BY <1>1, <2>1 DEF Layout
  <2> QED
    BY <2>1, <2>2
<1>2. CASE n # 0
  <2>1. flat = flatten[n]
    BY <1>2, Zenon DEF Shells!FlattenSeq
  <2>2. \E f : f = Step(f)
    <3>1. n \in Nat \ {0}
      BY <1>0, <1>2
    <3> HIDE DEF n
    <3> QED
      BY <3>1, FlattenRecursion, Zenon
  <2>3. flatten = Step(flatten)
    <3> HIDE DEF Step
    <3> QED
      BY <2>2, Zenon
  <2> HIDE DEF flatten, flat
  <2>4. \A i \in 1 .. n : flatten[i] = IF i = 1 THEN seqs[i] ELSE flatten[i - 1] \o seqs[i]
    BY <2>3
  <2> DEFINE Placed(m) == flatten[m] \in Seq(T) /\ \E start : Layout(seqs, m, flatten[m], start)
             S == {m \in Nat : Placed(m)}
  <2>5. 1 \in S
    <3> DEFINE start == [i \in 1 .. 0 + 1 |-> 1]
    <3>1. Layout(seqs, 0, <<>>, start)
      BY DEF Layout
    <3>2. <<>> \o seqs[1] = seqs[1] /\ seqs[1] \in Seq(T)
      BY <1>0, <1>2
    <3>3. 0 \in Nat /\ 1 \in 1 .. n /\ 1 = 0 + 1 /\ <<>> \in Seq(T)
      BY <1>0, <1>2
    <3>4. \E longer : Layout(seqs, 1, <<>> \o seqs[1], longer)
      <4> HIDE DEF start, n
      <4> QED
        BY <3>1, <3>3, LayoutGrows DEF n
    <3>5. flatten[1] = seqs[1]
      BY <2>4, <3>3
    <3> QED
      BY <3>2, <3>4, <3>5
  <2>6. ASSUME NEW m \in 1 .. n - 1, m \in S PROVE m + 1 \in S
    <3>1. flatten[m] \in Seq(T) /\ \E start : Layout(seqs, m, flatten[m], start)
      BY <2>6
    <3>2. m \in Nat /\ m + 1 \in 1 .. n /\ m + 1 # 1 /\ m + 1 - 1 = m
      BY <1>0
    <3>3. flatten[m + 1] = flatten[m] \o seqs[m + 1]
      <4>1. ASSUME NEW k \in 1 .. n, k = m + 1 PROVE flatten[k] = flatten[m] \o seqs[k]
        <5>1. k # 1 /\ k - 1 = m
          BY <3>2, <4>1
        <5>2. flatten[k] = IF k = 1 THEN seqs[k] ELSE flatten[k - 1] \o seqs[k]
          BY <2>4
        <5> QED
          BY <5>1, <5>2
      <4> QED
        BY <3>2, <4>1
    <3>4. flatten[m + 1] \in Seq(T)
      BY <1>0, <3>1, <3>2, <3>3
    <3>5. PICK start : Layout(seqs, m, flatten[m], start)
      BY <3>1
    <3>6. \E longer : Layout(seqs, m + 1, flatten[m] \o seqs[m + 1], longer)
      BY <3>1, <3>2, <3>5, LayoutGrows
    <3>7. m + 1 \in Nat /\ Placed(m + 1)
      BY <3>2, <3>3, <3>4, <3>6
    <3> HIDE DEF Placed
    <3> QED
      BY <3>7
  <2> HIDE DEF Placed, S
  <2>7. n \in S
    <3> HIDE DEF n
    <3>1. \A m \in 1 .. n - 1 : m \in S => m + 1 \in S
      BY <2>6
    <3>2. n \in 1 .. n
      BY <1>0, <1>2
    <3> QED
      BY <1>0, <2>5, <3>1, <3>2, UpTo
  <2> QED
    BY <2>1, <2>7 DEF Placed, S, flat
<1> QED
  BY <1>0, <1>1, <1>2

-----------------------------------------------------------------------------
(* Where the header of a step is among its lines, and how many lines its   *)
(* block and the whole step have.                                          *)
RunKey(s) == Len(Shells!Opening(s))
Body(s)   == IF s.style = "inline" THEN 0 ELSE Len(s.body)
Length(s) == RunKey(s) + Body(s) + IF s.after = "unset" THEN 0 ELSE 1

LineKinds == Shells!Shells \cup
  {"dash", "arguments", "comment", "|", ">", "inline", "blank", "text", "deeper"}
FileLines == [kind : LineKinds, indent : Nat]
Words     == {"text", "blank", "deeper", "header"}
Bodies    == {<<>>, <<"text">>, <<"blank", "text">>, <<"text", "blank", "deeper">>,
              <<"text", "header">>}

(* What a step's author may write.                                         *)
LEMMA StepCases ==
  ASSUME NEW s \in Shells!Steps
  PROVE  /\ s.before \in Shells!Shells /\ s.after \in Shells!Shells
         /\ s.way \in {"line", "dash", "comment", "arguments"}
         /\ s.style \in {"|", ">", "inline", "-|"}
         /\ s.body \in Bodies
         /\ s.after # "unset" => s.before = "unset" /\ s.style # "inline"
         /\ s.style = "-|" => s.before = "unset" /\ s.way = "line"
         /\ s.before = "unset" => s.way = "line"
         /\ s.body = <<"text", "header">> =>
              s.way = "line" /\ s.after = "unset" /\ s.style # "-|"
<1> DEFINE one == [before : Shells!Shells, way : {"line"}, after : {"unset"},
                   style : {"|", ">", "inline"},
                   body : {<<"text">>, <<"blank", "text">>, <<"text", "blank", "deeper">>,
                           <<"text", "header">>}]
           two == [before : {"bash", "pwsh"}, way : {"dash", "comment", "arguments"},
                   after : {"unset"}, style : {"|"}, body : {<<"text">>}]
           three == [before : {"unset"}, way : {"line"}, after : Shells!Shells,
                     style : {"|", "-|"}, body : {<<>>, <<"text">>}]
<1>1. s \in one \/ s \in two \/ s \in three
  BY DEF Shells!Steps
<1>2. Shells!Shells = {"unset", "bash", "pwsh"}
  BY DEF Shells!Shells
<1>3. /\ <<"text">> # <<"text", "header">> /\ <<>> # <<"text", "header">>
  <2>1. Len(<<"text">>) = 1 /\ Len(<<"text", "header">>) = 2 /\ Len(<<>>) = 0
    OBVIOUS
  <2> QED
    BY <2>1
<1>4. CASE s \in one
  <2>1. s.before \in Shells!Shells /\ s.way = "line" /\ s.after = "unset"
        /\ s.style \in {"|", ">", "inline"}
    BY <1>4
  <2>2. s.body \in Bodies
    BY <1>4 DEF Bodies
  <2> QED
    BY <1>2, <2>1, <2>2
<1>5. CASE s \in two
  <2>1. s.before \in {"bash", "pwsh"} /\ s.way \in {"dash", "comment", "arguments"}
        /\ s.after = "unset" /\ s.style = "|" /\ s.body = <<"text">>
    BY <1>5
  <2>2. s.body \in Bodies
    BY <2>1 DEF Bodies
  <2> QED
    BY <1>2, <1>3, <2>1, <2>2
<1>6. CASE s \in three
  <2>1. s.before = "unset" /\ s.way = "line" /\ s.after \in Shells!Shells
        /\ s.style \in {"|", "-|"} /\ s.body \in {<<>>, <<"text">>}
    BY <1>6
  <2>2. s.body \in Bodies
    BY <2>1 DEF Bodies
  <2> QED
    BY <1>2, <1>3, <2>1, <2>2
<1> QED
  BY <1>1, <1>4, <1>5, <1>6

(* A body is a sequence of words.                                          *)
LEMMA BodyForm ==
  ASSUME NEW s \in Shells!Steps
  PROVE  s.body \in Seq(Words) /\ Len(s.body) \in Nat /\ DOMAIN s.body = 1 .. Len(s.body)
<1> DEFINE w == s.body
           W == Words
<1>1. w \in Bodies
  BY StepCases
<1>2. /\ <<>> \in Seq(W) /\ <<"text">> \in Seq(W) /\ <<"blank", "text">> \in Seq(W)
      /\ <<"text", "blank", "deeper">> \in Seq(W) /\ <<"text", "header">> \in Seq(W)
  BY DEF Words
<1> HIDE DEF w, W
<1>3. w \in Seq(W)
  BY <1>1, <1>2 DEF Bodies
<1>4. Len(w) \in Nat /\ DOMAIN w = 1 .. Len(w)
  BY <1>3
<1> QED
  BY <1>3, <1>4 DEF w, W

(* The lines of a step down to its header, if it has one that can be seen. *)
IsOpening(s, o) ==
  /\ o \in Seq(FileLines) /\ Len(o) \in Nat /\ Len(o) >= 1
  /\ o[1] = Shells!Line("dash", 0)
  /\ \A k \in 1 .. Len(o) :
       o[k].kind \in {"|", ">", "blank"} => k = Len(o) /\ s.style # "-|"
  /\ s.style # "-|" =>
       /\ Len(o) >= 2 /\ o[Len(o)] = Shells!Line(s.style, 1)
       /\ IF s.before # "unset" /\ s.way = "line"
            THEN Len(o) = 3 /\ o[2] = Shells!Line(s.before, 1)
            ELSE \/ Len(o) = 2
                 \/ Len(o) = 3 /\ o[2].kind = "arguments"
                 \/ Len(o) = 4 /\ o[3] = Shells!Line("comment", 0)

LEMMA OpeningForm == ASSUME NEW s \in Shells!Steps PROVE IsOpening(s, Shells!Opening(s))
<1> DEFINE T == FileLines
           dash == Shells!Line("dash", 0)
           run  == Shells!Line(s.style, 1)
           named == Shells!Line(s.before, 1)
           args == Shells!Line("arguments", 1)
           note == Shells!Line("comment", 0)
           o == Shells!Opening(s)
<1>1. /\ s.before \in {"unset", "bash", "pwsh"} /\ s.way \in {"line", "dash", "comment", "arguments"}
      /\ s.style \in {"|", ">", "inline", "-|"}
      /\ s.style = "-|" => s.before = "unset" /\ s.way = "line"
      /\ s.before = "unset" => s.way = "line"
  BY StepCases DEF Shells!Shells
<1>2. /\ dash \in T /\ named \in T /\ args \in T /\ note \in T
      /\ s.style # "-|" => run \in T
  BY <1>1 DEF FileLines, LineKinds, Shells!Line, Shells!Shells
<1>3. /\ dash.kind = "dash" /\ args.kind = "arguments" /\ note.kind = "comment"
      /\ named.kind \notin {"|", ">", "blank"}
  BY <1>1 DEF Shells!Line
<1>4. o = IF s.style = "-|" THEN <<dash>>
          ELSE CASE s.before = "unset" \/ s.way = "dash" -> <<dash, run>>
                 [] s.way = "comment" -> <<dash, named, note, run>>
                 [] s.way = "arguments" -> <<dash, args, run>>
                 [] OTHER -> <<dash, named, run>>
  BY DEF Shells!Opening
<1> HIDE DEF T, dash, run, named, args, note, o
<1>5. CASE s.style = "-|"
  <2>1. o = <<dash>>
    BY <1>1, <1>4, <1>5
  <2>2. o \in Seq(T) /\ Len(o) = 1 /\ o[1] = dash
    BY <1>2, <2>1
  <2>3. \A k \in 1 .. Len(o) : o[k].kind \notin {"|", ">", "blank"}
    BY <1>3, <2>2
  <2> QED
    BY <1>5, <2>2, <2>3 DEF IsOpening, T, dash, o
<1>6. CASE s.style # "-|" /\ (s.before = "unset" \/ s.way = "dash")
  <2>1. o = <<dash, run>>
    BY <1>1, <1>4, <1>6
  <2>2. o \in Seq(T) /\ Len(o) = 2 /\ o[1] = dash /\ o[2] = run
    BY <1>2, <1>6, <2>1
  <2>3. \A k \in 1 .. Len(o) : o[k].kind \in {"|", ">", "blank"} => k = 2
    BY <1>3, <2>2
  <2>4. ~(s.before # "unset" /\ s.way = "line")
    BY <1>6
  <2> HIDE DEF o
  <2> QED
    BY <1>6, <2>2, <2>3, <2>4 DEF IsOpening, T, dash, run, o
<1>7. CASE s.style # "-|" /\ s.before # "unset" /\ s.way = "comment"
  <2>1. o = <<dash, named, note, run>>
    BY <1>1, <1>4, <1>7
  <2>2. o \in Seq(T) /\ Len(o) = 4 /\ o[1] = dash /\ o[2] = named /\ o[3] = note /\ o[4] = run
    BY <1>2, <1>7, <2>1
  <2>3. \A k \in 1 .. Len(o) : o[k].kind \in {"|", ">", "blank"} => k = 4
    BY <1>3, <2>2
  <2> QED
    BY <1>7, <2>2, <2>3 DEF IsOpening, T, dash, run, note, o
<1>8. CASE s.style # "-|" /\ s.before # "unset" /\ s.way = "arguments"
  <2>1. o = <<dash, args, run>>
    BY <1>1, <1>4, <1>8
  <2>2. o \in Seq(T) /\ Len(o) = 3 /\ o[1] = dash /\ o[2] = args /\ o[3] = run
    BY <1>2, <1>8, <2>1
  <2>3. \A k \in 1 .. Len(o) : o[k].kind \in {"|", ">", "blank"} => k = 3
    BY <1>3, <2>2
  <2>4. o[2].kind = "arguments"
    BY <1>3, <2>2
  <2> QED
    BY <1>8, <2>2, <2>3, <2>4 DEF IsOpening, T, dash, run, o
<1>9. CASE s.style # "-|" /\ s.before # "unset" /\ s.way = "line"
  <2>1. o = <<dash, named, run>>
    BY <1>1, <1>4, <1>9
  <2>2. o \in Seq(T) /\ Len(o) = 3 /\ o[1] = dash /\ o[2] = named /\ o[3] = run
    BY <1>2, <1>9, <2>1
  <2>3. \A k \in 1 .. Len(o) : o[k].kind \in {"|", ">", "blank"} => k = 3
    BY <1>3, <2>2
  <2> QED
    BY <1>9, <2>2, <2>3 DEF IsOpening, T, dash, run, named, o
<1> QED
  BY <1>1, <1>5, <1>6, <1>7, <1>8, <1>9 DEF o

(* A shell is named in one line, or not at all.                            *)
LEMMA ShellLineForm ==
  ASSUME NEW shell \in Shells!Shells
  PROVE  /\ Shells!ShellLine(shell) \in Seq(FileLines)
         /\ Len(Shells!ShellLine(shell)) = IF shell = "unset" THEN 0 ELSE 1
         /\ shell # "unset" => Shells!ShellLine(shell)[1] = Shells!Line(shell, 1)
<1> DEFINE T == FileLines
           l == Shells!Line(shell, 1)
<1>1. l \in T
  BY DEF FileLines, LineKinds, Shells!Line
<1> HIDE DEF T, l
<1>2. CASE shell = "unset"
  BY <1>2 DEF Shells!ShellLine, T
<1>3. CASE shell # "unset"
  <2>1. Shells!ShellLine(shell) = <<l>>
    BY <1>3 DEF Shells!ShellLine, l
  <2>2. <<l>> \in Seq(T) /\ Len(<<l>>) = 1 /\ <<l>>[1] = l
    BY <1>1
  <2> QED
    BY <1>3, <2>1, <2>2 DEF T, l
<1> QED
  BY <1>2, <1>3

(* What a line of a block is.                                              *)
Depth(w) == CASE w = "blank" -> 0 [] w = "deeper" -> 3 [] OTHER -> 2

LEMMA WordForm ==
  ASSUME NEW w \in Words
  PROVE  /\ Shells!BodyLine(w) \in FileLines
         /\ Shells!BodyLine(w).kind = IF w = "header" THEN "|" ELSE w
         /\ Shells!BodyLine(w).indent = Depth(w)
<1>1. CASE w = "blank"
  BY <1>1 DEF Shells!BodyLine, Shells!Line, Depth, FileLines, LineKinds
<1>2. CASE w = "text"
  BY <1>2 DEF Shells!BodyLine, Shells!Line, Depth, FileLines, LineKinds
<1>3. CASE w = "header"
  BY <1>3 DEF Shells!BodyLine, Shells!Line, Depth, FileLines, LineKinds
<1>4. CASE w = "deeper"
  BY <1>4 DEF Shells!BodyLine, Shells!Line, Depth, FileLines, LineKinds
<1> QED
  BY <1>1, <1>2, <1>3, <1>4 DEF Words

LEMMA BodyLineForm ==
  ASSUME NEW s \in Shells!Steps, NEW k \in 1 .. Body(s)
  PROVE  /\ s.style # "inline" /\ s.body[k] \in Words
         /\ Body(s) = Len(s.body) /\ k \in 1 .. Len(s.body)
         /\ Shells!BodyLine(s.body[k]).kind = IF s.body[k] = "header" THEN "|" ELSE s.body[k]
         /\ Shells!BodyLine(s.body[k]).indent = Depth(s.body[k])
<1>1. s.style # "inline" /\ Body(s) = Len(s.body)
  BY DEF Body
<1>2. s.body \in Seq(Words)
  BY BodyForm
<1>3. k \in 1 .. Len(s.body)
  BY <1>1
<1>4. s.body[k] \in Words
  BY <1>2, <1>3
<1> QED
  BY <1>1, <1>3, <1>4, WordForm

(* The lines of a step, one by one.                                        *)
StepAt(lines, s, b) ==
  /\ \A k \in 1 .. RunKey(s) : lines[b + k - 1] = Shells!Opening(s)[k]
  /\ \A k \in 1 .. Body(s) : lines[b + RunKey(s) - 1 + k] = Shells!BodyLine(s.body[k])
  /\ s.after # "unset" => lines[b + RunKey(s) + Body(s)] = Shells!Line(s.after, 1)

LEMMA StepForm ==
  ASSUME NEW s \in Shells!Steps
  PROVE  LET lines == Shells!StepLines(s)
         IN  /\ lines \in Seq(FileLines)
             /\ Len(lines) = Length(s) /\ Body(s) \in Nat /\ RunKey(s) \in Nat
             /\ \A k \in 1 .. RunKey(s) : lines[k] = Shells!Opening(s)[k]
             /\ \A k \in 1 .. Body(s) : lines[RunKey(s) + k] = Shells!BodyLine(s.body[k])
             /\ s.after # "unset" => lines[RunKey(s) + Body(s) + 1] = Shells!Line(s.after, 1)
<1> DEFINE T == FileLines
           A == Shells!Opening(s)
           B == IF s.style = "inline" THEN <<>>
                ELSE [i \in DOMAIN s.body |-> Shells!BodyLine(s.body[i])]
           C == Shells!ShellLine(s.after)
           lines == Shells!StepLines(s)
<1>0. s.after \in Shells!Shells
  BY StepCases
<1>1. A \in Seq(T) /\ Len(A) = RunKey(s) /\ RunKey(s) \in Nat
  BY OpeningForm DEF IsOpening, RunKey
<1>3. /\ C \in Seq(T) /\ Len(C) = IF s.after = "unset" THEN 0 ELSE 1
      /\ s.after # "unset" => C[1] = Shells!Line(s.after, 1)
  BY <1>0, ShellLineForm
<1>4. /\ B \in Seq(T) /\ Len(B) = Body(s) /\ Body(s) \in Nat
      /\ \A k \in 1 .. Body(s) : B[k] = Shells!BodyLine(s.body[k])
  <2>1. CASE s.style = "inline"
    BY <2>1 DEF Body
  <2>2. CASE s.style # "inline"
    <3>1. /\ s.body \in Seq(Words) /\ DOMAIN s.body = 1 .. Len(s.body) /\ Len(s.body) \in Nat
      BY BodyForm
    <3>2. \A k \in 1 .. Len(s.body) : Shells!BodyLine(s.body[k]) \in T
      <4>1. \A k \in 1 .. Len(s.body) : s.body[k] \in Words
        BY <3>1
      <4> QED
        BY <4>1, WordForm
    <3> HIDE DEF T
    <3> QED
      BY <2>2, <3>1, <3>2 DEF Body
  <2> QED
    BY <2>1, <2>2
<1>5. lines = ((A \o B) \o C)
  BY DEF Shells!StepLines
<1> HIDE DEF T, A, B, C, lines
<1> DEFINE AB == A \o B
<1>7. /\ AB \in Seq(T) /\ Len(AB) = RunKey(s) + Body(s)
      /\ \A k \in 1 .. RunKey(s) : AB[k] = A[k]
      /\ \A k \in 1 .. Body(s) : AB[RunKey(s) + k] = Shells!BodyLine(s.body[k])
  <2>1. IsJoin(T, A, B, AB)
    BY <1>1, <1>4, Behind
  <2> HIDE DEF AB
  <2>2. /\ AB \in Seq(T) /\ Len(AB) = Len(A) + Len(B)
        /\ \A i \in 1 .. Len(A) : AB[i] = A[i]
        /\ \A k \in 1 .. Len(B) : AB[Len(A) + k] = B[k]
    BY <2>1 DEF IsJoin
  <2> QED
    BY <1>1, <1>4, <2>2
<1>8. /\ lines \in Seq(T) /\ Len(lines) = Len(AB) + Len(C)
      /\ \A i \in 1 .. Len(AB) : lines[i] = AB[i]
      /\ \A k \in 1 .. Len(C) : lines[Len(AB) + k] = C[k]
  <2>1. lines = AB \o C
    BY <1>5
  <2> HIDE DEF AB
  <2>2. IsJoin(T, AB, C, lines)
    BY <1>3, <1>7, <2>1, Behind
  <2> QED
    BY <2>2 DEF IsJoin
<1> HIDE DEF AB
<1>11. Len(lines) = Length(s)
  BY <1>3, <1>7, <1>8 DEF Length
<1>12. \A k \in 1 .. RunKey(s) : lines[k] = A[k]
  <2>1. \A k \in 1 .. RunKey(s) : k \in 1 .. Len(AB)
    BY <1>1, <1>4, <1>7
  <2> QED
    BY <1>7, <1>8, <2>1
<1>14. ASSUME NEW k \in 1 .. Body(s) PROVE lines[RunKey(s) + k] = Shells!BodyLine(s.body[k])
  <2>1. RunKey(s) + k \in 1 .. Len(AB)
    BY <1>1, <1>4, <1>7
  <2> QED
    BY <1>7, <1>8, <2>1
<1>15. s.after # "unset" => lines[RunKey(s) + Body(s) + 1] = Shells!Line(s.after, 1)
  <2>1. s.after # "unset" => 1 \in 1 .. Len(C)
    BY <1>3
  <2> QED
    BY <1>3, <1>7, <1>8, <2>1
<1> QED
  BY <1>1, <1>4, <1>8, <1>11, <1>12, <1>14, <1>15 DEF lines, T, A

(* A workflow of these steps, the ith of which begins at line start[i].    *)
File(lines, steps, start) ==
  /\ start \in [1 .. Len(steps) + 1 -> Nat \ {0}] /\ Len(lines) = start[Len(steps) + 1] - 1
  /\ \A i \in 1 .. Len(steps) : start[i + 1] = start[i] + Length(steps[i])
  /\ \A i, j \in 1 .. Len(steps) + 1 : i < j => start[i] + Length(steps[i]) <= start[j]
  /\ \A p \in 1 .. Len(lines) : \E i \in 1 .. Len(steps) : start[i] <= p /\ p < start[i + 1]
  /\ \A i \in 1 .. Len(steps) : StepAt(lines, steps[i], start[i])

LEMMA LengthIsNat ==
  ASSUME NEW s \in Shells!Steps
  PROVE  /\ RunKey(s) \in Nat /\ RunKey(s) >= 1 /\ Body(s) \in Nat
         /\ Length(s) \in Nat /\ RunKey(s) + Body(s) <= Length(s) /\ RunKey(s) <= Length(s)
<1> DEFINE a == IF s.after = "unset" THEN 0 ELSE 1
           r == RunKey(s)
           c == Body(s)
<1>1. r \in Nat /\ r >= 1
  BY OpeningForm DEF RunKey, IsOpening
<1>2. c \in Nat /\ a \in Nat /\ Length(s) = r + c + a
  BY StepForm DEF Length
<1> HIDE DEF a, r, c
<1>3. r + c + a \in Nat /\ r + c <= r + c + a /\ r <= r + c + a
  BY <1>1, <1>2
<1> QED
  BY <1>1, <1>2, <1>3 DEF r, c

(* What the command reads is such a file.                                  *)
LEMMA LinesAreFile ==
  ASSUME input.steps \in Seq(Shells!Steps)
  PROVE  /\ Shells!Lines \in Seq(FileLines)
         /\ \E start : File(Shells!Lines, input.steps, start)
<1> DEFINE steps == input.steps
           n == Len(steps)
           seqs == [i \in DOMAIN steps |-> Shells!StepLines(steps[i])]
           lines == Shells!Lines
<1>1. n \in Nat /\ DOMAIN steps = 1 .. n /\ \A i \in 1 .. n : steps[i] \in Shells!Steps
  OBVIOUS
<1>2. \A i \in 1 .. n : seqs[i] = Shells!StepLines(steps[i]) /\ seqs[i] \in Seq(FileLines)
  BY <1>1, StepForm
<1>3. seqs \in Seq(Seq(FileLines)) /\ Len(seqs) = n
  <2> HIDE DEF n, steps
  <2>1. seqs = [i \in 1 .. n |-> Shells!StepLines(steps[i])]
    BY <1>1
  <2>2. seqs \in [1 .. n -> Seq(FileLines)]
    BY <1>1, <1>2, <2>1
  <2> HIDE DEF seqs
  <2>3. seqs \in Seq(Seq(FileLines))
    BY <1>1, <2>2
  <2>4. Len(seqs) = n
    BY <1>1, <2>2, <2>3
  <2> QED
    BY <2>3, <2>4
<1>4. lines = Shells!FlattenSeq(seqs)
  BY DEF Shells!Lines
<1> HIDE DEF seqs, lines, n, steps
<1>5. lines \in Seq(FileLines) /\ \E start : Layout(seqs, n, lines, start)
  BY <1>3, <1>4, FlattenLayout
<1>6. PICK start : Layout(seqs, n, lines, start)
  BY <1>5
<1>7. \A i \in 1 .. n : Len(seqs[i]) = Length(steps[i]) /\ Length(steps[i]) \in Nat
  BY <1>1, <1>2, StepForm, LengthIsNat
<1>8. /\ start \in [1 .. n + 1 -> Nat] /\ start[1] = 1 /\ Len(lines) = start[n + 1] - 1
      /\ \A i \in 1 .. n : start[i + 1] = start[i] + Length(steps[i])
      /\ \A i, j \in 1 .. n + 1 : i < j => start[i] + Length(steps[i]) <= start[j]
      /\ \A i \in 1 .. n : \A k \in 1 .. Length(steps[i]) : lines[start[i] + k - 1] = seqs[i][k]
      /\ \A p \in 1 .. Len(lines) : \E i \in 1 .. n : start[i] <= p /\ p < start[i + 1]
  <2>1. \A i, j \in 1 .. n + 1 : i < j => i \in 1 .. n
    BY <1>1
  <2> QED
    BY <1>6, <1>7, <2>1 DEF Layout
<1>9. \A i \in 1 .. n + 1 : start[i] \in Nat \ {0}
  <2>1. ASSUME NEW i \in 1 .. n + 1 PROVE start[i] # 0
    <3>1. i # 1 => 1 \in 1 .. n + 1 /\ 1 < i /\ 1 \in 1 .. n
      BY <1>1
    <3>2. i # 1 => 1 + Length(steps[1]) <= start[i] /\ Length(steps[1]) \in Nat
      BY <1>7, <1>8, <3>1
    <3> QED
      BY <1>8, <3>2
  <2> QED
    BY <1>8, <2>1
<1>10. ASSUME NEW i \in 1 .. n PROVE StepAt(lines, steps[i], start[i])
  <2> DEFINE s == steps[i]
             b == start[i]
             own == Shells!StepLines(s)
             r == RunKey(s)
             c == Body(s)
             l == Length(s)
  <2>1. s \in Shells!Steps /\ b \in Nat
    <3>1. i \in 1 .. n + 1
      BY <1>1
    <3> QED
      BY <1>1, <1>8, <3>1
  <2>2. /\ \A k \in 1 .. r : own[k] = Shells!Opening(s)[k]
        /\ \A k \in 1 .. c : own[r + k] = Shells!BodyLine(s.body[k])
        /\ s.after # "unset" => own[r + c + 1] = Shells!Line(s.after, 1)
    BY <2>1, StepForm
  <2>3. \A k \in 1 .. l : lines[b + k - 1] = own[k]
    BY <1>2, <1>8
  <2>4. /\ r \in Nat /\ c \in Nat /\ l \in Nat /\ r + c <= l
        /\ s.after # "unset" => l = r + c + 1
    BY <2>1, LengthIsNat DEF Length
  <2> HIDE DEF s, b, own, r, c, l
  <2>5. ASSUME NEW k \in 1 .. r PROVE lines[b + k - 1] = Shells!Opening(s)[k]
    <3>1. k \in 1 .. l
      BY <2>4
    <3> QED
      BY <2>2, <2>3, <3>1
  <2>9. ASSUME NEW k \in 1 .. c
        PROVE  lines[b + r - 1 + k] = Shells!BodyLine(s.body[k])
    <3>1. r + k \in 1 .. l /\ b + (r + k) - 1 = b + r - 1 + k
      BY <2>1, <2>4
    <3>2. lines[b + (r + k) - 1] = own[r + k]
      BY <2>3, <3>1
    <3> QED
      BY <2>2, <3>1, <3>2
  <2>10. s.after # "unset" => lines[b + r + c] = Shells!Line(s.after, 1)
    <3>1. s.after # "unset" => r + c + 1 \in 1 .. l
      BY <2>4
    <3>2. b + (r + c + 1) - 1 = b + r + c
      BY <2>1, <2>4
    <3>3. s.after # "unset" => lines[b + (r + c + 1) - 1] = own[r + c + 1]
      BY <2>3, <3>1
    <3> QED
      BY <2>2, <3>2, <3>3
  <2>11. StepAt(lines, s, b)
    BY <2>5, <2>9, <2>10 DEF StepAt, r, c
  <2> QED
    BY <2>11 DEF s, b
<1>11. File(lines, steps, start)
  <2>1. start \in [1 .. n + 1 -> Nat \ {0}]
    BY <1>8, <1>9
  <2> QED
    BY <1>8, <1>10, <2>1 DEF File, n
<1> QED
  BY <1>5, <1>11 DEF lines, steps

-----------------------------------------------------------------------------
(* The line of a step's header, if it has one that the scan can see, the   *)
(* shell the scan finds for it, and whether it takes the block.            *)
Top(steps, start, i) == start[i] + RunKey(steps[i]) - 1
Seen(s)  == s.style \in {"|", ">"}
Read(s)  == IF s.before # "unset" /\ s.way = "line" THEN s.before ELSE input.shell
Found(s) == Seen(s) /\ Read(s) = "bash"

(* A step lies within its file.                                            *)
Within(lines, steps, start, i) ==
  /\ steps[i] \in Shells!Steps /\ start[i] \in Nat \ {0} /\ Len(lines) \in Nat
  /\ RunKey(steps[i]) \in Nat /\ RunKey(steps[i]) >= 1 /\ Body(steps[i]) \in Nat
  /\ start[i + 1] = start[i] + Length(steps[i])
  /\ start[i] + Length(steps[i]) <= Len(lines) + 1
  /\ Top(steps, start, i) = start[i] + RunKey(steps[i]) - 1
  /\ Top(steps, start, i) \in 1 .. Len(lines)

LEMMA StepPlace ==
  ASSUME NEW lines \in Seq(FileLines), NEW steps \in Seq(Shells!Steps), NEW start,
         File(lines, steps, start), NEW i \in 1 .. Len(steps)
  PROVE  Within(lines, steps, start, i)
<1> DEFINE n == Len(steps)
<1>1. n \in Nat /\ steps[i] \in Shells!Steps /\ Len(lines) \in Nat
  OBVIOUS
<1>2. /\ start \in [1 .. n + 1 -> Nat \ {0}] /\ Len(lines) = start[n + 1] - 1
      /\ \A j \in 1 .. n : start[j + 1] = start[j] + Length(steps[j])
      /\ \A j, k \in 1 .. n + 1 : j < k => start[j] + Length(steps[j]) <= start[k]
  BY DEF File
<1>3. RunKey(steps[i]) \in Nat /\ RunKey(steps[i]) >= 1 /\ Body(steps[i]) \in Nat
  BY <1>1, LengthIsNat
<1> HIDE DEF n
<1>4. i \in 1 .. n
  BY DEF n
<1>5. i \in 1 .. n + 1 /\ n + 1 \in 1 .. n + 1 /\ i < n + 1
  BY <1>1, <1>4
<1>6. start[i] \in Nat \ {0} /\ start[i] + Length(steps[i]) <= start[n + 1] /\ start[n + 1] \in Nat
  BY <1>2, <1>5
<1>7. start[i] + Length(steps[i]) <= Len(lines) + 1
  BY <1>1, <1>2, <1>6
<1>8. Top(steps, start, i) = start[i] + RunKey(steps[i]) - 1
  BY DEF Top
<1>9. RunKey(steps[i]) <= Length(steps[i]) /\ Length(steps[i]) \in Nat
  BY <1>1, LengthIsNat
<1>10. Top(steps, start, i) \in 1 .. Len(lines)
  <2> DEFINE b == start[i]
             r == RunKey(steps[i])
             l == Length(steps[i])
             e == Len(lines)
  <2>1. b \in Nat \ {0} /\ r \in Nat /\ r >= 1 /\ l \in Nat /\ e \in Nat /\ b + l <= e + 1 /\ r <= l
    BY <1>1, <1>3, <1>6, <1>7, <1>9
  <2> HIDE DEF b, r, l, e
  <2>2. b + r - 1 \in 1 .. e
    BY <2>1
  <2> QED
    BY <1>8, <2>2 DEF b, r, e
<1> QED
  BY <1>1, <1>2, <1>3, <1>4, <1>6, <1>7, <1>8, <1>10 DEF Within

(* Every line of a step is one of these.                                   *)
LEMMA LineCases ==
  ASSUME NEW lines, NEW s \in Shells!Steps, NEW b \in Nat, StepAt(lines, s, b),
         NEW p \in Nat, b <= p, p < b + Length(s)
  PROVE  \/ \E k \in 1 .. RunKey(s) : p = b + k - 1 /\ lines[p] = Shells!Opening(s)[k]
         \/ \E k \in 1 .. Body(s) :
              p = b + RunKey(s) - 1 + k /\ lines[p] = Shells!BodyLine(s.body[k])
         \/ s.after # "unset" /\ lines[p] = Shells!Line(s.after, 1)
<1>1. Body(s) \in Nat /\ RunKey(s) \in Nat /\ RunKey(s) >= 1
  BY LengthIsNat
<1>2. Length(s) = RunKey(s) + Body(s) + IF s.after = "unset" THEN 0 ELSE 1
  BY DEF Length
<1>3. CASE p < b + RunKey(s)
  <2> DEFINE k == p - b + 1
  <2>1. k \in 1 .. RunKey(s) /\ p = b + k - 1
    BY <1>1, <1>3
  <2> HIDE DEF k
  <2> QED
    BY <2>1 DEF StepAt
<1>6. CASE p >= b + RunKey(s) /\ p < b + RunKey(s) + Body(s)
  <2> DEFINE k == p - (b + RunKey(s) - 1)
  <2>1. k \in 1 .. Body(s) /\ p = b + RunKey(s) - 1 + k
    BY <1>1, <1>6
  <2> HIDE DEF k
  <2>2. lines[b + RunKey(s) - 1 + k] = Shells!BodyLine(s.body[k])
    BY <2>1 DEF StepAt
  <2> QED
    BY <2>1, <2>2
<1>7. CASE p >= b + RunKey(s) + Body(s)
  <2>1. p = b + RunKey(s) + Body(s) /\ s.after # "unset"
    BY <1>1, <1>2, <1>7
  <2> QED
    BY <2>1 DEF StepAt
<1>8. \/ p < b + RunKey(s)
      \/ p >= b + RunKey(s) /\ p < b + RunKey(s) + Body(s)
      \/ p >= b + RunKey(s) + Body(s)
  BY <1>1
<1> QED
  BY <1>3, <1>6, <1>7, <1>8

(* Where a script has a line that reads like a header.                     *)
LEMMA HeaderInBody ==
  ASSUME NEW s \in Shells!Steps, NEW k \in 1 .. Body(s), s.body[k] = "header"
  PROVE  /\ k = 2 /\ Body(s) = 2 /\ s.body[1] = "text" /\ Seen(s)
         /\ s.way = "line" /\ s.after = "unset" /\ "header" \in Shells!Range(s.body)
<1> DEFINE w == s.body
<1>1. w \in Bodies /\ Body(s) = Len(w) /\ k \in 1 .. Len(w) /\ w[k] = "header"
      /\ DOMAIN w = 1 .. Len(w) /\ s.style # "inline"
  BY StepCases, BodyLineForm, BodyForm
<1>2. w = <<"text", "header">> => s.way = "line" /\ s.after = "unset" /\ Seen(s)
  <2>1. s.style \in {"|", ">", "inline", "-|"}
    BY StepCases
  <2>2. w = <<"text", "header">> => s.way = "line" /\ s.after = "unset" /\ s.style # "-|"
    BY StepCases
  <2> HIDE DEF w
  <2> QED
    BY <1>1, <2>1, <2>2 DEF Seen
<1>3. "header" \in Shells!Range(w)
  <2> HIDE DEF w
  <2> QED
    BY <1>1 DEF Shells!Range
<1> HIDE DEF w
<1>4. w = <<"text", "header">>
  <2>1. w # <<>>
    BY <1>1
  <2>2. w # <<"text">>
    <3>1. w = <<"text">> => Len(w) = 1 /\ w[1] = "text"
      OBVIOUS
    <3> QED
      BY <1>1, <3>1
  <2>3. w # <<"blank", "text">>
    <3>1. w = <<"blank", "text">> => Len(w) = 2 /\ w[1] = "blank" /\ w[2] = "text"
      OBVIOUS
    <3> QED
      BY <1>1, <3>1
  <2>4. w # <<"text", "blank", "deeper">>
    <3>1. w = <<"text", "blank", "deeper">>
            => Len(w) = 3 /\ w[1] = "text" /\ w[2] = "blank" /\ w[3] = "deeper"
      OBVIOUS
    <3> QED
      BY <1>1, <3>1
  <2> QED
    BY <1>1, <2>1, <2>2, <2>3, <2>4 DEF Bodies
<1>5. Len(w) = 2 /\ w[1] = "text" /\ k = 2
  BY <1>1, <1>4
<1> QED
  BY <1>1, <1>2, <1>3, <1>4, <1>5 DEF w

(* A line that has the form of a header is the header of a step, or a line *)
(* of its script.                                                          *)
HasHeader(lines, steps, start, p) ==
  \E i \in 1 .. Len(steps) :
    \/ /\ p = Top(steps, start, i) /\ lines[p] = Shells!Line(steps[i].style, 1)
       /\ Seen(steps[i])
    \/ \E k \in 1 .. Body(steps[i]) : p = Top(steps, start, i) + k /\ steps[i].body[k] = "header"

LEMMA HeaderIsStep ==
  ASSUME NEW lines \in Seq(FileLines), NEW steps \in Seq(Shells!Steps), NEW start,
         File(lines, steps, start), NEW p \in 1 .. Len(lines), lines[p].kind \in {"|", ">"}
  PROVE  HasHeader(lines, steps, start, p)
<1>1. PICK i \in 1 .. Len(steps) : start[i] <= p /\ p < start[i + 1]
  BY DEF File
<1> DEFINE s == steps[i]
<1>2. /\ s \in Shells!Steps /\ start[i] \in Nat /\ start[i + 1] = start[i] + Length(s)
      /\ Top(steps, start, i) = start[i] + RunKey(s) - 1
  <2>1. Within(lines, steps, start, i)
    BY StepPlace
  <2> QED
    BY <2>1 DEF Within
<1>3. StepAt(lines, s, start[i])
  BY DEF File
<1>4. SUFFICES \/ /\ p = Top(steps, start, i) /\ lines[p] = Shells!Line(s.style, 1)
                  /\ Seen(s)
               \/ \E k \in 1 .. Body(s) : p = Top(steps, start, i) + k /\ s.body[k] = "header"
  BY <1>1 DEF HasHeader
<1> HIDE DEF s
<1>5. p \in Nat /\ p < start[i] + Length(s)
  BY <1>1, <1>2
<1>6. s.after # "unset" => lines[p] # Shells!Line(s.after, 1)
  <2>1. s.after \in {"unset", "bash", "pwsh"}
    BY <1>2, StepCases DEF Shells!Shells
  <2>2. s.after \notin {"|", ">"}
    BY <2>1
  <2> QED
    BY <2>2 DEF Shells!Line
<1>7. ASSUME NEW k \in 1 .. Body(s), p = start[i] + RunKey(s) - 1 + k,
             lines[p] = Shells!BodyLine(s.body[k])
      PROVE  p = Top(steps, start, i) + k /\ s.body[k] = "header"
  <2>1. s.body[k] \in Words /\ lines[p].kind = IF s.body[k] = "header" THEN "|" ELSE s.body[k]
    BY <1>2, <1>7, BodyLineForm
  <2>2. s.body[k] = "header"
    BY <2>1 DEF Words
  <2> QED
    BY <1>2, <1>7, <2>2
<1>8. ASSUME NEW k \in 1 .. RunKey(s), p = start[i] + k - 1, lines[p] = Shells!Opening(s)[k]
      PROVE  p = Top(steps, start, i) /\ lines[p] = Shells!Line(s.style, 1) /\ Seen(s)
  <2> DEFINE o == Shells!Opening(s)
  <2>1. /\ \A j \in 1 .. Len(o) :
             o[j].kind \in {"|", ">", "blank"} => j = Len(o) /\ s.style # "-|"
        /\ s.style # "-|" => o[Len(o)] = Shells!Line(s.style, 1)
    BY <1>2, OpeningForm DEF IsOpening
  <2>2. RunKey(s) = Len(o)
    BY DEF RunKey
  <2> HIDE DEF o
  <2>3. lines[p] = o[k]
    BY <1>8 DEF o
  <2>4. k = Len(o) /\ s.style # "-|"
    BY <2>1, <2>2, <2>3
  <2>5. lines[p] = Shells!Line(s.style, 1)
    BY <2>1, <2>3, <2>4
  <2>6. lines[p].kind = s.style
    BY <2>5 DEF Shells!Line
  <2> QED
    BY <1>2, <1>8, <2>2, <2>4, <2>5, <2>6 DEF Seen
<1>9. \/ \E k \in 1 .. RunKey(s) : p = start[i] + k - 1 /\ lines[p] = Shells!Opening(s)[k]
      \/ \E k \in 1 .. Body(s) :
           p = start[i] + RunKey(s) - 1 + k /\ lines[p] = Shells!BodyLine(s.body[k])
      \/ s.after # "unset" /\ lines[p] = Shells!Line(s.after, 1)
  BY <1>1, <1>2, <1>3, <1>5, LineCases
<1> QED
  BY <1>6, <1>7, <1>8, <1>9

(* The lines of one step of the workflow, as the command reads them.       *)
LEMMA ReadStep ==
  ASSUME input.steps \in Seq(Shells!Steps), NEW start, File(Shells!Lines, input.steps, start),
         NEW i \in 1 .. Len(input.steps)
  PROVE  /\ Shells!Lines \in Seq(FileLines) /\ Len(Shells!Lines) \in Nat
         /\ input.steps[i] \in Shells!Steps /\ start[i] \in Nat \ {0}
         /\ StepAt(Shells!Lines, input.steps[i], start[i])
         /\ Top(input.steps, start, i) = start[i] + RunKey(input.steps[i]) - 1
         /\ Top(input.steps, start, i) \in 1 .. Len(Shells!Lines)
         /\ RunKey(input.steps[i]) \in Nat /\ RunKey(input.steps[i]) >= 1
         /\ Body(input.steps[i]) \in Nat
         /\ start[i + 1] = start[i] + Length(input.steps[i])
         /\ start[i] + Length(input.steps[i]) <= Len(Shells!Lines) + 1
         /\ Shells!Lines[start[i]] = Shells!Line("dash", 0)
         /\ input.steps[i].style # "-|" =>
              /\ RunKey(input.steps[i]) >= 2
              /\ Shells!Lines[Top(input.steps, start, i)] = Shells!Line(input.steps[i].style, 1)
<1> DEFINE s == input.steps[i]
           b == start[i]
           lines == Shells!Lines
           o == Shells!Opening(s)
<1>1. Shells!Lines \in Seq(FileLines)
  BY LinesAreFile
<1>2. StepAt(Shells!Lines, input.steps[i], start[i])
  BY DEF File
<1>3. Within(Shells!Lines, input.steps, start, i)
  BY <1>1, StepPlace
<1>4. /\ s \in Shells!Steps /\ b \in Nat \ {0} /\ RunKey(s) \in Nat /\ RunKey(s) >= 1
      /\ Top(input.steps, start, i) = b + RunKey(s) - 1
  BY <1>3 DEF Within
<1>5. \A k \in 1 .. RunKey(s) : lines[b + k - 1] = o[k]
  BY <1>2 DEF StepAt
<1>6. /\ o[1] = Shells!Line("dash", 0) /\ RunKey(s) = Len(o)
      /\ s.style # "-|" => Len(o) >= 2 /\ o[Len(o)] = Shells!Line(s.style, 1)
  BY <1>4, OpeningForm DEF IsOpening, RunKey
<1> HIDE DEF s, b, lines, o
<1>7. 1 \in 1 .. RunKey(s) /\ RunKey(s) \in 1 .. RunKey(s) /\ b + 1 - 1 = b
  BY <1>4
<1>8. /\ lines[b] = Shells!Line("dash", 0)
      /\ s.style # "-|" => RunKey(s) >= 2 /\ lines[b + RunKey(s) - 1] = Shells!Line(s.style, 1)
  BY <1>5, <1>6, <1>7
<1> QED
  BY <1>1, <1>2, <1>3, <1>4, <1>8 DEF Within, s, b, lines

(* The shell the command finds for the block of a step: one named plainly  *)
(* before `run', or the default.                                           *)
LEMMA ShellOfStep ==
  ASSUME input.steps \in Seq(Shells!Steps), NEW start, File(Shells!Lines, input.steps, start),
         NEW i \in 1 .. Len(input.steps), input.steps[i].style # "-|"
  PROVE  Shells!ShellOf(Top(input.steps, start, i)) = Read(input.steps[i])
<1> DEFINE s == input.steps[i]
           b == start[i]
           h == Top(input.steps, start, i)
           r == RunKey(s)
           o == Shells!Opening(s)
           lines == Shells!Lines
           keys == Shells!ShellKeys(h)
           stops == {p \in 1 .. h - 1 : ~Shells!Blank(p) /\ Shells!Indent(p) < Shells!Indent(h)}
<1>1. /\ s \in Shells!Steps /\ b \in Nat \ {0} /\ h = b + r - 1
      /\ lines[b] = Shells!Line("dash", 0) /\ lines[h] = Shells!Line(s.style, 1)
      /\ \A k \in 1 .. r : lines[b + k - 1] = o[k]
  <2>1. StepAt(lines, s, b)
    BY ReadStep
  <2>2. \A k \in 1 .. r : lines[b + k - 1] = o[k]
    BY <2>1 DEF StepAt
  <2> QED
    BY <2>2, ReadStep
<1>2. \A p : Shells!Blank(p) <=> lines[p].kind = "blank"
  BY DEF Shells!Blank
<1>3. \A p : Shells!Indent(p) = lines[p].indent
  BY DEF Shells!Indent
<1>4. \A p : p \in keys <=> /\ p \in 1 .. h - 1 /\ \A q \in stops : p > q
                            /\ lines[p].kind \in Shells!Shells /\ lines[p].indent = lines[h].indent
  BY DEF Shells!ShellKeys, Shells!Above, Shells!Indent
<1>5. Shells!ShellOf(h) = IF keys = {} THEN input.shell
                          ELSE lines[CHOOSE p \in keys : \A q \in keys : p <= q].kind
  BY DEF Shells!ShellOf
<1>6. /\ r \in Nat /\ r >= 2
      /\ IF s.before # "unset" /\ s.way = "line"
           THEN r = 3 /\ o[2] = Shells!Line(s.before, 1)
           ELSE \/ r = 2
                \/ r = 3 /\ o[2].kind = "arguments"
                \/ r = 4 /\ o[3] = Shells!Line("comment", 0)
  <2>1. IsOpening(s, o) /\ s.style # "-|"
    BY <1>1, OpeningForm
  <2> QED
    BY <2>1 DEF IsOpening, RunKey
<1> HIDE DEF s, b, h, lines, keys, stops, r, o
<1>7. \A q : q \in stops <=> /\ q \in 1 .. h - 1 /\ lines[q].kind # "blank"
                             /\ lines[q].indent < lines[h].indent
  BY <1>2, <1>3 DEF stops
<1>8. lines[b].kind = "dash" /\ lines[b].indent = 0 /\ lines[h].indent = 1
  BY <1>1 DEF Shells!Line
<1>10. b \in stops
  <2>1. b \in 1 .. h - 1
    BY <1>1, <1>6
  <2>2. lines[b].kind # "blank" /\ lines[b].indent < lines[h].indent
    BY <1>8
  <2> QED
    BY <1>7, <2>1, <2>2
<1>11. CASE s.before # "unset" /\ s.way = "line"
  <2>1. h = b + 2 /\ r = 3
    BY <1>1, <1>6, <1>11
  <2>2. \A p : p \in keys => p = b + 1
    BY <1>1, <1>4, <1>10, <2>1
  <2>3. lines[b + 1].kind = s.before /\ lines[b + 1].indent = 1
    <3>1. lines[b + 2 - 1] = o[2] /\ b + 2 - 1 = b + 1
      BY <1>1, <2>1
    <3>2. lines[b + 1] = Shells!Line(s.before, 1)
      BY <1>6, <1>11, <3>1
    <3> QED
      BY <3>2 DEF Shells!Line
  <2>4. b + 1 \in keys
    <3>1. b + 1 \in 1 .. h - 1
      BY <1>1, <2>1
    <3>2. \A q \in stops : q # b + 1
      BY <1>7, <1>8, <2>3
    <3>3. \A q \in stops : b + 1 > q
      BY <1>1, <1>7, <2>1, <3>2
    <3>4. s.before \in Shells!Shells
      BY <1>1, StepCases
    <3> QED
      BY <1>4, <1>8, <2>3, <3>1, <3>3, <3>4
  <2>5. keys = {b + 1}
    BY <2>2, <2>4
  <2>6. (CHOOSE p \in keys : \A q \in keys : p <= q) = b + 1
    <3>1. b + 1 <= b + 1
      BY <1>1
    <3> QED
      BY <2>5, <3>1
  <2>7. Shells!ShellOf(h) = lines[b + 1].kind
    BY <1>5, <2>4, <2>6
  <2> QED
    BY <1>11, <2>3, <2>7 DEF s, h, Read
<1>12. CASE ~(s.before # "unset" /\ s.way = "line")
  <2>1. keys = {}
    <3>1. CASE r = 2
      <4>1. h = b + 1
        BY <1>1, <3>1
      <4>2. \A p : p \notin keys
        BY <1>1, <1>4, <1>10, <4>1
      <4> QED
        BY <4>2
    <3>2. CASE r = 3 /\ o[2].kind = "arguments"
      <4>1. h = b + 2 /\ lines[b + 2 - 1] = o[2] /\ b + 2 - 1 = b + 1
        BY <1>1, <3>2
      <4>2. \A p : p \in keys => p = b + 1
        BY <1>1, <1>4, <1>10, <4>1
      <4>3. lines[b + 1].kind \notin Shells!Shells
        BY <3>2, <4>1 DEF Shells!Shells
      <4>4. \A p : p \notin keys
        BY <1>4, <4>2, <4>3
      <4> QED
        BY <4>4
    <3>3. CASE r = 4 /\ o[3] = Shells!Line("comment", 0)
      <4>1. h = b + 3 /\ lines[b + 3 - 1] = o[3] /\ b + 3 - 1 = b + 2
        BY <1>1, <3>3
      <4>2. lines[b + 2].kind = "comment" /\ lines[b + 2].indent = 0
        BY <3>3, <4>1 DEF Shells!Line
      <4>3. b + 2 \in stops
        <5>1. b + 2 \in 1 .. h - 1
          BY <1>1, <4>1
        <5> QED
          BY <1>7, <1>8, <4>2, <5>1
      <4>4. \A p : p \notin keys
        BY <1>1, <1>4, <4>1, <4>3
      <4> QED
        BY <4>4
    <3> QED
      BY <1>6, <1>12, <3>1, <3>2, <3>3
  <2> QED
    BY <1>5, <1>12, <2>1 DEF s, h, Read
<1> QED
  BY <1>11, <1>12

(* A line of a script that reads like a header has the default shell.      *)
LEMMA ShellOfText ==
  ASSUME input.steps \in Seq(Shells!Steps), NEW start, File(Shells!Lines, input.steps, start),
         NEW i \in 1 .. Len(input.steps), NEW k \in 1 .. Body(input.steps[i]),
         input.steps[i].body[k] = "header"
  PROVE  Shells!ShellOf(Top(input.steps, start, i) + k) = input.shell
<1> DEFINE s == input.steps[i]
           t == Top(input.steps, start, i)
           h == t + k
           lines == Shells!Lines
           keys == Shells!ShellKeys(h)
           stops == {p \in 1 .. h - 1 : ~Shells!Blank(p) /\ Shells!Indent(p) < Shells!Indent(h)}
<1>1. /\ s \in Shells!Steps /\ StepAt(lines, s, start[i]) /\ t = start[i] + RunKey(s) - 1
      /\ t \in 1 .. Len(lines) /\ Len(lines) \in Nat
      /\ s.style # "-|" => lines[t] = Shells!Line(s.style, 1)
  BY ReadStep
<1>2. k = 2 /\ Body(s) = 2 /\ s.body[1] = "text" /\ Seen(s)
  BY <1>1, HeaderInBody
<1>3. s.body[k] = "header"
  OBVIOUS
<1>4. \A p : p \in keys <=> /\ p \in 1 .. h - 1 /\ \A q \in stops : p > q
                            /\ lines[p].kind \in Shells!Shells /\ lines[p].indent = lines[h].indent
  BY DEF Shells!ShellKeys, Shells!Above, Shells!Indent
<1>5. Shells!ShellOf(h) = IF keys = {} THEN input.shell
                          ELSE lines[CHOOSE p \in keys : \A q \in keys : p <= q].kind
  BY DEF Shells!ShellOf
<1>6. \A q : q \in stops <=> /\ q \in 1 .. h - 1 /\ lines[q].kind # "blank"
                             /\ lines[q].indent < lines[h].indent
  BY DEF Shells!Blank, Shells!Indent
<1> HIDE DEF s, t, h, lines, keys, stops
<1>7. h = t + 2 /\ t \in Nat \ {0}
  BY <1>1, <1>2 DEF h
<1>8. \A j \in 1 .. Body(s) : lines[t + j] = Shells!BodyLine(s.body[j])
  BY <1>1 DEF StepAt
<1>9. /\ lines[t + 1] = Shells!BodyLine("text") /\ lines[h] = Shells!BodyLine("header")
      /\ lines[t] = Shells!Line(s.style, 1)
  <2>1. 1 \in 1 .. Body(s) /\ 2 \in 1 .. Body(s)
    BY <1>2
  <2>2. lines[t + 1] = Shells!BodyLine(s.body[1]) /\ lines[t + 2] = Shells!BodyLine(s.body[2])
    BY <1>8, <2>1
  <2>3. s.style # "-|"
    BY <1>2 DEF Seen
  <2> QED
    BY <1>1, <1>2, <1>3, <1>7, <2>2, <2>3
<1>10. /\ lines[t + 1].kind = "text" /\ lines[h].indent = 2
       /\ lines[t].kind # "blank" /\ lines[t].indent = 1
  BY <1>2, <1>9 DEF Shells!BodyLine, Shells!Line, Seen
<1>11. t \in stops
  <2>1. t \in 1 .. h - 1
    BY <1>7
  <2> QED
    BY <1>6, <1>10, <2>1
<1>12. \A p : p \in keys => p = t + 1
  BY <1>4, <1>7, <1>11
<1>13. keys = {}
  <2>1. "text" \notin Shells!Shells
    BY DEF Shells!Shells
  <2>2. \A p : p \notin keys
    BY <1>4, <1>10, <1>12, <2>1
  <2> QED
    BY <2>2
<1> QED
  BY <1>5, <1>13 DEF h, t

(* The block of a step ends where its body does.                           *)
LEMMA BlockOfStep ==
  ASSUME input.steps \in Seq(Shells!Steps), NEW start, File(Shells!Lines, input.steps, start),
         NEW i \in 1 .. Len(input.steps), work.line = Top(input.steps, start, i),
         input.steps[i].style # "-|"
  PROVE  /\ Shells!BlockEnd = work.line + Body(input.steps[i]) + 1
         /\ Shells!Block = work.line + 1 .. work.line + Body(input.steps[i])
<1> DEFINE n == Len(input.steps)
           s == input.steps[i]
           b == start[i]
           h == work.line
           lines == Shells!Lines
           after == {p \in h + 1 .. Len(lines) :
                       ~Shells!Blank(p) /\ Shells!Indent(p) <= Shells!Indent(h)}
           stop == h + Body(s) + 1
<1>1. /\ s \in Shells!Steps /\ b \in Nat \ {0} /\ StepAt(lines, s, b) /\ h = b + RunKey(s) - 1
      /\ RunKey(s) \in Nat /\ RunKey(s) >= 2 /\ Body(s) \in Nat /\ Len(lines) \in Nat
      /\ start[i + 1] = b + Length(s) /\ b + Length(s) <= Len(lines) + 1
      /\ lines[h] = Shells!Line(s.style, 1)
  BY ReadStep
<1>2. \A p : p \in after <=> /\ p \in h + 1 .. Len(lines) /\ lines[p].kind # "blank"
                             /\ lines[p].indent <= lines[h].indent
  BY DEF Shells!Blank, Shells!Indent
<1>3. /\ Shells!BlockEnd = IF after = {} THEN Len(lines) + 1
                           ELSE CHOOSE p \in after : \A q \in after : p <= q
      /\ Shells!Block = h + 1 .. Shells!BlockEnd - 1
  BY DEF Shells!BlockEnd, Shells!Block
<1>4. n \in Nat /\ start[n + 1] = Len(lines) + 1 /\ i \in 1 .. n
  <2>1. Len(lines) = start[n + 1] - 1 /\ start[n + 1] \in Nat
    BY DEF File
  <2> HIDE DEF lines, n
  <2>2. \A x, y \in Nat : x = y - 1 => y = x + 1
    OBVIOUS
  <2>3. start[n + 1] = Len(lines) + 1
    BY <1>1, <2>1, <2>2
  <2> QED
    BY <2>3 DEF n
<1>5. i # n => i + 1 \in 1 .. n
  BY <1>4
<1>6. i + 1 \in 1 .. n => lines[start[i + 1]].kind = "dash" /\ lines[start[i + 1]].indent = 0
                            /\ start[i + 1] <= Len(lines)
  <2>1. ASSUME NEW j \in 1 .. n
        PROVE  lines[start[j]] = Shells!Line("dash", 0) /\ start[j] <= Len(lines)
    <3>1. /\ Top(input.steps, start, j) \in 1 .. Len(lines) /\ start[j] \in Nat
          /\ Top(input.steps, start, j) = start[j] + RunKey(input.steps[j]) - 1
          /\ RunKey(input.steps[j]) \in Nat /\ RunKey(input.steps[j]) >= 1
          /\ lines[start[j]] = Shells!Line("dash", 0)
      BY ReadStep
    <3>2. \A x, y, z \in Nat : y >= 1 /\ x + y - 1 <= z => x <= z
      OBVIOUS
    <3>3. Len(lines) \in Nat /\ start[j] + RunKey(input.steps[j]) - 1 <= Len(lines)
      BY <1>1, <3>1
    <3> QED
      BY <3>1, <3>2, <3>3
  <2> HIDE DEF lines, n
  <2> QED
    BY <2>1 DEF Shells!Line
<1> HIDE DEF n, s, b, h, lines, after, stop
<1>7. lines[h].indent = 1
  BY <1>1 DEF Shells!Line
<1>8. Length(s) = RunKey(s) + Body(s) + IF s.after = "unset" THEN 0 ELSE 1
  BY DEF Length
<1>9. stop = b + RunKey(s) + Body(s) /\ stop \in Nat /\ h \in Nat /\ stop = h + Body(s) + 1
  <2>1. b \in Nat /\ RunKey(s) \in Nat /\ RunKey(s) >= 2 /\ Body(s) \in Nat
    BY <1>1
  <2> DEFINE r == RunKey(s)
             c == Body(s)
  <2>2. h = b + r - 1 /\ stop = h + c + 1 /\ r \in Nat /\ c \in Nat /\ r >= 2
    BY <1>1, <2>1 DEF stop
  <2> HIDE DEF r, c
  <2>3. h \in Nat
    BY <2>1, <2>2
  <2>4. stop \in Nat /\ stop = b + r + c
    BY <2>1, <2>2, <2>3
  <2> QED
    BY <2>2, <2>3, <2>4 DEF r, c
<1>16. /\ b + Length(s) = IF s.after = "unset" THEN stop ELSE stop + 1
       /\ stop - 1 = h + Body(s) /\ h + 1 <= stop
       /\ s.after # "unset" => stop <= Len(lines)
  <2>1. b \in Nat /\ RunKey(s) \in Nat /\ Body(s) \in Nat
    BY <1>1
  <2>2. s.after = "unset" => Length(s) = RunKey(s) + Body(s)
    BY <1>8, <2>1
  <2>3. s.after # "unset" => Length(s) = RunKey(s) + Body(s) + 1
    BY <1>8, <2>1
  <2>4. \A x, y, z \in Nat : x + (y + z) = x + y + z /\ x + (y + z + 1) = x + y + z + 1
    OBVIOUS
  <2>5. b + Length(s) = IF s.after = "unset" THEN stop ELSE stop + 1
    BY <1>9, <2>1, <2>2, <2>3, <2>4
  <2>6. stop - 1 = h + Body(s) /\ h + 1 <= stop
    <3>1. \A x, y, z \in Nat : z = x + y + 1 => z - 1 = x + y /\ x + 1 <= z
      OBVIOUS
    <3> QED
      BY <1>9, <2>1, <3>1
  <2>7. s.after # "unset" => stop + 1 <= Len(lines) + 1
    BY <1>1, <2>5
  <2> QED
    BY <1>1, <1>9, <2>5, <2>6, <2>7
<1> DEFINE Ends == stop \in after \/ (after = {} /\ stop = Len(lines) + 1)
<1>10. ASSUME NEW p \in after PROVE stop <= p
  <2>1. SUFFICES ASSUME p < stop PROVE FALSE
    BY <1>2, <1>9
  <2> DEFINE k == p - h
  <2>2. p \in Nat /\ h + 1 <= p
    BY <1>2, <1>9
  <2>3. k \in 1 .. Body(s) /\ p = h + k
    <3>1. \A x, y, z \in Nat : x < y + z + 1 /\ y + 1 <= x => x - y \in 1 .. z /\ x = y + (x - y)
      OBVIOUS
    <3>2. p < h + Body(s) + 1 /\ Body(s) \in Nat
      BY <1>1, <1>9, <2>1
    <3> QED
      BY <1>9, <2>2, <3>1, <3>2
  <2> HIDE DEF k
  <2>4. lines[p] = Shells!BodyLine(s.body[k])
    BY <1>1, <2>3 DEF StepAt
  <2> DEFINE w == s.body[k]
             l == Shells!BodyLine(w)
  <2>5. /\ w \in Words /\ l.kind = IF w = "header" THEN "|" ELSE w
        /\ l.indent = Depth(w)
    BY <1>1, <2>3, BodyLineForm
  <2> HIDE DEF w, l
  <2>7. l.kind = "blank" \/ l.indent = 2 \/ l.indent = 3
    BY <2>5 DEF Words, Depth
  <2>6. lines[p].kind = "blank" \/ lines[p].indent = 2 \/ lines[p].indent = 3
    BY <2>4, <2>7 DEF l, w
  <2> QED
    BY <1>2, <1>7, <2>6
<1>11. ASSUME s.after # "unset" PROVE Ends
  <2>1. lines[stop] = Shells!Line(s.after, 1)
    BY <1>1, <1>9, <1>11 DEF StepAt
  <2>2. s.after \in {"unset", "bash", "pwsh"}
    BY <1>1, StepCases DEF Shells!Shells
  <2>3. lines[stop].kind # "blank" /\ lines[stop].indent = 1
    BY <2>1, <2>2 DEF Shells!Line
  <2>4. stop \in h + 1 .. Len(lines)
    <3>1. h + 1 <= stop /\ stop <= Len(lines)
      BY <1>11, <1>16
    <3> QED
      BY <1>1, <1>9, <3>1
  <2>5. stop \in after
    BY <1>2, <1>7, <2>3, <2>4
  <2> QED
    BY <2>5
<1>12. ASSUME s.after = "unset", i # n PROVE Ends
  <2>1. stop = start[i + 1]
    BY <1>16, <1>1, <1>12
  <2>2. stop \in h + 1 .. Len(lines) /\ lines[stop].kind = "dash" /\ lines[stop].indent = 0
    BY <1>5, <1>6, <1>9, <1>12, <1>16, <2>1
  <2>3. stop \in after
    BY <1>2, <1>7, <2>2
  <2> QED
    BY <2>3
<1>13. ASSUME s.after = "unset", i = n PROVE Ends
  <2>1. stop = Len(lines) + 1
    BY <1>1, <1>4, <1>13, <1>16
  <2>2. \A p \in after : p <= Len(lines)
    BY <1>2
  <2>3. after = {}
    <3>1. ASSUME NEW p \in after PROVE FALSE
      <4>1. stop <= p /\ p <= Len(lines) /\ p \in Nat
        BY <1>2, <1>9, <1>10, <2>2
      <4> QED
        BY <1>1, <2>1, <4>1
    <3> QED
      BY <3>1
  <2> QED
    BY <2>1, <2>3
<1>14. stop \in after \/ (after = {} /\ stop = Len(lines) + 1)
  BY <1>11, <1>12, <1>13 DEF Ends
<1>15. Shells!BlockEnd = stop
  <2>1. CASE stop \in after
    <3>1. \A p \in after : p \in Nat
      BY <1>2, <1>9
    <3>2. \A p \in after : (\A q \in after : p <= q) => p = stop
      BY <1>9, <1>10, <2>1, <3>1
    <3>3. (CHOOSE p \in after : \A q \in after : p <= q) = stop
      BY <1>10, <2>1, <3>2
    <3> QED
      BY <1>3, <2>1, <3>3
  <2> QED
    BY <1>3, <1>14, <2>1
<1> QED
  BY <1>3, <1>9, <1>15, <1>16 DEF s, h
LEMMA SameSize == \A S : Shells!Cardinality(S) = Cardinality(S)
BY DEF Shells!Cardinality, Cardinality, Shells!IsFiniteSet, IsFiniteSet

(* The first line of a body that is not blank is as deep as any may be.    *)
LEMMA BodyBegins ==
  ASSUME NEW s \in Shells!Steps, s.body # <<>>
  PROVE  \E f \in 1 .. Len(s.body) :
           s.body[f] = "text" /\ \A k \in 1 .. Len(s.body) : k < f => s.body[k] = "blank"
<1> DEFINE w == s.body
<1>1. w \in {<<"text">>, <<"blank", "text">>, <<"text", "blank", "deeper">>,
             <<"text", "header">>}
  BY StepCases DEF Bodies
<1> HIDE DEF w
<1>2. CASE w = <<"text">>
  <2>1. Len(w) = 1 /\ w[1] = "text"
    BY <1>2
  <2> QED
    BY <2>1 DEF w
<1>3. CASE w = <<"blank", "text">>
  <2>1. Len(w) = 2 /\ w[1] = "blank" /\ w[2] = "text"
    BY <1>3
  <2>2. 2 \in 1 .. Len(w) /\ \A k \in 1 .. Len(w) : k < 2 => k = 1
    BY <2>1
  <2> QED
    BY <2>1, <2>2 DEF w
<1>4. CASE w = <<"text", "blank", "deeper">>
  <2>1. Len(w) = 3 /\ w[1] = "text"
    BY <1>4
  <2> QED
    BY <2>1 DEF w
<1>5. CASE w = <<"text", "header">>
  <2>1. Len(w) = 2 /\ w[1] = "text"
    BY <1>5
  <2> QED
    BY <2>1 DEF w
<1> QED
  BY <1>1, <1>2, <1>3, <1>4, <1>5

(* What the command takes from the file is the script of the step, and it  *)
(* finds a block empty only if it is.                                      *)
LEMMA ContentOfStep ==
  ASSUME input.steps \in Seq(Shells!Steps), NEW start, File(Shells!Lines, input.steps, start),
         NEW i \in 1 .. Len(input.steps), work.line = Top(input.steps, start, i),
         Seen(input.steps[i]), ~ \A p \in Shells!Block : Shells!Blank(p)
  PROVE  Shells!Content = Shells!Script(input.steps[i])
<1> DEFINE s == input.steps[i]
           w == s.body
           h == work.line
           lines == Shells!Lines
           block == Shells!Block
           Clean(p) == ~Shells!Blank(p) /\ \A q \in block : q < p => Shells!Blank(q)
           first == CHOOSE p \in block : Clean(p)
<1>0. s.style # "inline" /\ s.style # "-|"
  BY DEF Seen
<1>1. s \in Shells!Steps /\ Body(s) = Len(w) /\ Len(w) \in Nat /\ DOMAIN w = 1 .. Len(w)
  <2>1. s \in Shells!Steps
    BY ReadStep
  <2>2. Len(w) \in Nat /\ DOMAIN w = 1 .. Len(w)
    BY <2>1, BodyForm
  <2> QED
    BY <1>0, <2>1, <2>2 DEF Body
<1>2. block = h + 1 .. h + Len(w) /\ h \in Nat
  <2>1. block = h + 1 .. h + Body(s)
    BY <1>0, BlockOfStep
  <2>2. h \in 1 .. Len(Shells!Lines) /\ Len(Shells!Lines) \in Nat
    BY ReadStep
  <2> HIDE DEF s, w, h, block
  <2> QED
    BY <1>1, <2>1, <2>2
<1>3. ASSUME NEW k \in 1 .. Len(w)
      PROVE  /\ w[k] \in Words
             /\ Shells!Blank(h + k) <=> w[k] = "blank"
             /\ Shells!Indent(h + k) = Depth(w[k])
  <2>1. StepAt(lines, s, start[i]) /\ h = start[i] + RunKey(s) - 1
    BY ReadStep
  <2>2. k \in 1 .. Body(s)
    BY <1>1
  <2>3. lines[h + k] = Shells!BodyLine(w[k])
    BY <2>1, <2>2 DEF StepAt
  <2>4. /\ Shells!BodyLine(w[k]).kind = IF w[k] = "header" THEN "|" ELSE w[k]
        /\ w[k] \in Words /\ Shells!BodyLine(w[k]).indent = Depth(w[k])
    BY <1>1, <2>2, BodyLineForm
  <2> HIDE DEF s, w, h, lines
  <2>5. lines[h + k].kind = "blank" <=> w[k] = "blank"
    BY <2>3, <2>4
  <2> QED
    BY <2>3, <2>4, <2>5 DEF lines, Shells!Blank, Shells!Indent
<1>4. Shells!Content = [k \in 1 .. Shells!Cardinality(block) |->
                          IF Shells!Blank(h + k) THEN Shells!Line("blank", 0)
                          ELSE Shells!Line("text", Shells!Indent(h + k) - Shells!Indent(first))]
  BY DEF Shells!Content
<1>5. Shells!Script(s) = [k \in DOMAIN w |->
                            CASE w[k] = "blank"  -> Shells!Line("blank", 0)
                              [] w[k] = "deeper" -> Shells!Line("text", 1)
                              [] OTHER           -> Shells!Line("text", 0)]
  BY DEF Shells!Script
<1>6. w # <<>> /\ Len(w) # 0
  <2>1. PICK p \in block : ~Shells!Blank(p)
    OBVIOUS
  <2> HIDE DEF block, w, h
  <2>2. Len(w) # 0
    BY <1>1, <1>2, <2>1
  <2> QED
    BY <2>2
<1>7. PICK f \in 1 .. Len(w) : w[f] = "text" /\ \A k \in 1 .. Len(w) : k < f => w[k] = "blank"
  BY <1>1, <1>6, BodyBegins
<1> HIDE DEF s, w, h, lines, block
<1>8. ASSUME NEW p \in block
      PROVE  \E k \in 1 .. Len(w) : p = h + k
  <2> DEFINE k == p - h
  <2>1. k \in 1 .. Len(w) /\ p = h + k
    BY <1>1, <1>2
  <2> QED
    BY <2>1
<1>9. h + f \in block /\ Clean(h + f)
  <2>1. h + f \in block
    <3>1. \A x, y \in Nat : \A z \in 1 .. y : x + z \in x + 1 .. x + y
      OBVIOUS
    <3> QED
      BY <1>1, <1>2, <3>1
  <2>2. ASSUME NEW q \in block, q < h + f PROVE Shells!Blank(q)
    <3>1. PICK k \in 1 .. Len(w) : q = h + k
      BY <1>8
    <3>2. k < f
      BY <1>2, <2>2, <3>1
    <3> QED
      BY <1>3, <1>7, <3>1, <3>2
  <2>3. ~Shells!Blank(h + f)
    BY <1>3, <1>7
  <2> QED
    BY <2>1, <2>2, <2>3
<1>10. ASSUME NEW p \in block, Clean(p) PROVE p = h + f
  <2>1. p \in Nat /\ h + f \in Nat
    <3>1. \A x, y \in Nat : x + 1 .. x + y \subseteq Nat
      OBVIOUS
    <3> QED
      BY <1>1, <1>2, <1>9, <3>1
  <2>2. ~(p < h + f) /\ ~(h + f < p)
    BY <1>9, <1>10
  <2> QED
    BY <2>1, <2>2
<1>11. first = h + f
  <2>1. \E p \in block : Clean(p)
    BY <1>9
  <2> HIDE DEF Clean
  <2>2. first \in block /\ Clean(first)
    BY <2>1
  <2> QED
    BY <1>10, <2>2
<1>12. Shells!Indent(first) = 2
  BY <1>3, <1>7, <1>11 DEF Depth
<1> HIDE DEF first
<1>13. Shells!Cardinality(block) = Len(w)
  <2>1. /\ h + 1 \in Int /\ h + Len(w) \in Int /\ h + 1 <= h + Len(w)
        /\ (h + Len(w)) - (h + 1) + 1 = Len(w)
    <3>1. \A x \in Nat : \A y \in Nat \ {0} :
            x + 1 \in Int /\ x + y \in Int /\ x + 1 <= x + y /\ (x + y) - (x + 1) + 1 = y
      OBVIOUS
    <3> QED
      BY <1>1, <1>2, <1>6, <3>1
  <2>2. Cardinality(h + 1 .. h + Len(w)) = Len(w)
    <3> DEFINE lo == h + 1
               hi == h + Len(w)
    <3>1. lo \in Int /\ hi \in Int /\ ~(lo > hi) /\ hi - lo + 1 = Len(w)
      BY <2>1
    <3> HIDE DEF lo, hi
    <3>2. Cardinality(lo .. hi) = IF lo > hi THEN 0 ELSE hi - lo + 1
      BY <3>1, FS_Interval
    <3> QED
      BY <3>1, <3>2 DEF lo, hi
  <2> QED
    BY <1>2, <2>2, SameSize
<1> DEFINE Taken(k) == IF Shells!Blank(h + k) THEN Shells!Line("blank", 0)
                       ELSE Shells!Line("text", Shells!Indent(h + k) - Shells!Indent(first))
           Meant(k) == CASE w[k] = "blank"  -> Shells!Line("blank", 0)
                         [] w[k] = "deeper" -> Shells!Line("text", 1)
                         [] OTHER           -> Shells!Line("text", 0)
<1>14. ASSUME NEW k \in 1 .. Len(w) PROVE Taken(k) = Meant(k)
  <2>1. CASE w[k] = "blank"
    BY <1>3, <2>1
  <2>2. CASE w[k] \in {"text", "header"}
    <3>1. ~Shells!Blank(h + k) /\ Shells!Indent(h + k) - Shells!Indent(first) = 0
      BY <1>3, <1>12, <2>2 DEF Depth
    <3> QED
      BY <2>2, <3>1
  <2>3. CASE w[k] = "deeper"
    <3>1. ~Shells!Blank(h + k) /\ Shells!Indent(h + k) - Shells!Indent(first) = 1
      BY <1>3, <1>12, <2>3 DEF Depth
    <3> QED
      BY <2>3, <3>1
  <2> QED
    BY <1>3, <2>1, <2>2, <2>3 DEF Words
<1>15. Shells!Content = [k \in 1 .. Len(w) |-> Taken(k)]
  BY <1>4, <1>13
<1>16. Shells!Script(s) = [k \in 1 .. Len(w) |-> Meant(k)]
  BY <1>1, <1>5
<1> HIDE DEF Taken, Meant
<1>17. Shells!Content = Shells!Script(s)
  BY <1>14, <1>15, <1>16, Zenon
<1> QED
  BY <1>17 DEF s

(* A script is a sequence of lines.                                        *)
ScriptLines == [kind : {"blank", "text"}, indent : {0, 1}]

LEMMA ScriptForm == \A s \in Shells!Steps : Shells!Script(s) \in Seq(ScriptLines)
<1> SUFFICES ASSUME NEW s \in Shells!Steps PROVE Shells!Script(s) \in Seq(ScriptLines)
  OBVIOUS
<1> DEFINE w == s.body
           Meant(k) == CASE w[k] = "blank"  -> Shells!Line("blank", 0)
                         [] w[k] = "deeper" -> Shells!Line("text", 1)
                         [] OTHER           -> Shells!Line("text", 0)
<1>1. Shells!Script(s) = [k \in DOMAIN w |-> Meant(k)]
  BY DEF Shells!Script
<1>2. DOMAIN w = 1 .. Len(w) /\ Len(w) \in Nat
  BY BodyForm
<1>3. \A k \in 1 .. Len(w) : Meant(k) \in ScriptLines
  <2>1. /\ Shells!Line("blank", 0) \in ScriptLines /\ Shells!Line("text", 0) \in ScriptLines
        /\ Shells!Line("text", 1) \in ScriptLines
    BY DEF ScriptLines, Shells!Line
  <2> HIDE DEF w
  <2> QED
    BY <2>1
<1> HIDE DEF Meant, w
<1> QED
  BY <1>1, <1>2, <1>3

(* The blocks handed over so far are the scripts of these steps, in order. *)
Collected(steps, blocks, B) ==
  /\ Len(blocks) = Cardinality(B)
  /\ \A i \in B :
       /\ steps[i].style = "|"
       /\ blocks[Cardinality({j \in B : j <= i})] = Shells!Script(steps[i])

(* The steps whose headers the scan has found, before a line of the file   *)
(* and altogether.                                                         *)
Passed(start, p) ==
  {i \in DOMAIN input.steps : Found(input.steps[i]) /\ Top(input.steps, start, i) < p}
AllFound == {i \in DOMAIN input.steps : Found(input.steps[i])}

(* The block of a step behind the others.                                  *)
LEMMA CollectedGrows ==
  ASSUME NEW T, NEW blocks \in Seq(T), NEW n \in Nat, NEW B \in SUBSET (1 .. n),
         NEW i \in 1 .. n, i \notin B, \A j \in B : j < i, Collected(input.steps, blocks, B),
         input.steps[i].style = "|", Shells!Script(input.steps[i]) \in T
  PROVE  Collected(input.steps, Append(blocks, Shells!Script(input.steps[i])), B \cup {i})
<1> DEFINE C == B \cup {i}
           new == Shells!Script(input.steps[i])
           all == Append(blocks, new)
           Rank(D, k) == {j \in D : j <= k}
<1>1. IsFiniteSet(B) /\ Cardinality(B) \in Nat
  <2>1. IsFiniteSet(1 .. n)
    BY FS_Interval
  <2> QED
    BY <2>1, FS_Subset, FS_CardinalityType
<1>2. Cardinality(C) = Cardinality(B) + 1
  BY <1>1, FS_AddElement
<1>3. Len(blocks) = Cardinality(B)
  BY DEF Collected
<1>4. /\ Len(all) = Len(blocks) + 1 /\ all[Len(blocks) + 1] = new
      /\ \A k \in 1 .. Len(blocks) : all[k] = blocks[k]
  OBVIOUS
<1>5. ASSUME NEW k \in B
      PROVE  /\ input.steps[k].style = "|"
             /\ all[Cardinality(Rank(C, k))] = Shells!Script(input.steps[k])
  <2>1. Rank(C, k) = Rank(B, k)
    <3>1. k < i /\ k \in Nat /\ i \in Nat
      BY <1>5
    <3>2. ~(i <= k)
      BY <3>1
    <3> QED
      BY <3>2
  <2>2. Cardinality(Rank(B, k)) \in 1 .. Len(blocks)
    <3> DEFINE R == Rank(B, k)
    <3>1. R \subseteq B /\ k \in R
      BY <1>5
    <3> HIDE DEF R
    <3>2. IsFiniteSet(R) /\ Cardinality(R) <= Cardinality(B) /\ R # {}
      BY <1>1, <3>1, FS_Subset
    <3>3. Cardinality(R) \in Nat /\ Cardinality(R) # 0
      BY <3>2, FS_CardinalityType, FS_EmptySet
    <3>4. Cardinality(R) \in 1 .. Len(blocks)
      BY <1>1, <1>3, <3>2, <3>3
    <3> QED
      BY <3>4 DEF R
  <2>3. /\ input.steps[k].style = "|"
        /\ blocks[Cardinality(Rank(B, k))] = Shells!Script(input.steps[k])
    BY <1>5 DEF Collected
  <2> HIDE DEF all, Rank
  <2> QED
    BY <1>4, <2>1, <2>2, <2>3
<1>6. input.steps[i].style = "|" /\ all[Cardinality(Rank(C, i))] = new
  <2>1. Rank(C, i) = C
    <3>1. \A j \in C : j <= i
      BY DEF C
    <3> QED
      BY <3>1
  <2> HIDE DEF all, Rank, C
  <2> QED
    BY <1>2, <1>3, <1>4, <2>1
<1>7. Len(all) = Cardinality(C)
  BY <1>2, <1>3, <1>4
<1>8. \A k \in C : /\ input.steps[k].style = "|"
                   /\ all[Cardinality(Rank(C, k))] = Shells!Script(input.steps[k])
  <2>1. \A k \in C : k \in B \/ k = i
    OBVIOUS
  <2> HIDE DEF C, all, Rank
  <2> QED
    BY <1>5, <1>6, <2>1 DEF new
<1> HIDE DEF C, all
<1>9. Collected(input.steps, all, C)
  BY <1>7, <1>8 DEF Collected
<1> QED
  BY <1>9 DEF C, all

(* Headers are in the order of their steps, each after the block before.   *)
LEMMA TopsInOrder ==
  ASSUME input.steps \in Seq(Shells!Steps), NEW start, File(Shells!Lines, input.steps, start),
         NEW i \in DOMAIN input.steps, NEW j \in DOMAIN input.steps, i < j,
         Seen(input.steps[j])
  PROVE  Top(input.steps, start, i) + Body(input.steps[i]) + 1 < Top(input.steps, start, j)
<1> DEFINE n == Len(input.steps)
           s == input.steps[i]
           t == input.steps[j]
<1>1. i \in 1 .. n /\ j \in 1 .. n /\ n \in Nat
  OBVIOUS
<1>2. /\ Top(input.steps, start, i) = start[i] + RunKey(s) - 1
      /\ start[i] \in Nat /\ RunKey(s) \in Nat /\ RunKey(s) >= 1 /\ Body(s) \in Nat
  BY <1>1, ReadStep
<1>3. /\ Top(input.steps, start, j) = start[j] + RunKey(t) - 1
      /\ start[j] \in Nat /\ RunKey(t) \in Nat /\ RunKey(t) >= 2
  <2>1. t.style # "-|"
    BY DEF Seen
  <2> QED
    BY <1>1, <2>1, ReadStep
<1>4. start[i] + Length(s) <= start[j]
  <2>1. i \in 1 .. n + 1 /\ j \in 1 .. n + 1
    BY <1>1
  <2> QED
    BY <2>1 DEF File
<1>5. Length(s) \in Nat /\ RunKey(s) + Body(s) <= Length(s)
  <2>1. s \in Shells!Steps
    BY <1>1
  <2> HIDE DEF s
  <2> QED
    BY <2>1, LengthIsNat
<1> DEFINE a == start[i]
           b == start[j]
           r == RunKey(s)
           q == RunKey(t)
           c == Body(s)
           l == Length(s)
<1>6. /\ a \in Nat /\ b \in Nat /\ r \in Nat /\ q \in Nat /\ c \in Nat /\ l \in Nat
      /\ q >= 2 /\ r >= 1 /\ r + c <= l /\ a + l <= b
  BY <1>2, <1>3, <1>4, <1>5
<1> HIDE DEF a, b, r, q, c, l
<1>7. (a + r - 1) + c + 1 < b + q - 1
  BY <1>6
<1> QED
  BY <1>2, <1>3, <1>7 DEF a, b, r, q, c

(* The scan is behind the block of every header it has found, and no step  *)
(* in another shell can be taken for one in Bash.                          *)
Past(start, p) ==
  \A i \in DOMAIN input.steps :
    Found(input.steps[i]) /\ Top(input.steps, start, i) < p
      => Top(input.steps, start, i) + Body(input.steps[i]) < p
Closed == \A i \in DOMAIN input.steps : ~Shells!Overcounts(input.steps[i])

(* A line the scan skips is the header of no step it looks for.            *)
LEMMA SkippedIsNotFound ==
  ASSUME input.steps \in Seq(Shells!Steps), NEW start, File(Shells!Lines, input.steps, start),
         NEW p \in Nat, ~(Shells!IsHeader(p) /\ Shells!ShellOf(p) = "bash"), Past(start, p)
  PROVE  Passed(start, p + 1) = Passed(start, p) /\ Past(start, p + 1)
<1>1. ASSUME NEW i \in DOMAIN input.steps, Found(input.steps[i])
      PROVE  /\ Top(input.steps, start, i) # p /\ Top(input.steps, start, i) \in Nat
             /\ Body(input.steps[i]) \in Nat
  <2> DEFINE s == input.steps[i]
             h == Top(input.steps, start, i)
  <2>1. i \in 1 .. Len(input.steps) /\ s.style # "-|" /\ s.style \in {"|", ">"}
    BY <1>1 DEF Found, Seen
  <2>2. /\ h \in 1 .. Len(Shells!Lines) /\ Len(Shells!Lines) \in Nat /\ Body(s) \in Nat
        /\ Shells!Lines[h] = Shells!Line(s.style, 1)
    BY <2>1, ReadStep
  <2>3. Shells!ShellOf(h) = "bash"
    BY <1>1, <2>1, ShellOfStep DEF Found
  <2> HIDE DEF s, h
  <2>4. Shells!IsHeader(h)
    BY <2>1, <2>2 DEF Shells!IsHeader, Shells!Line
  <2>5. h # p /\ h \in Nat
    BY <2>2, <2>3, <2>4
  <2> QED
    BY <2>2, <2>5 DEF h, s
<1>2. \A x \in Nat : x # p => (x < p + 1 <=> x < p)
  OBVIOUS
<1>3. Passed(start, p + 1) = Passed(start, p)
  BY <1>1, <1>2 DEF Passed
<1>4. ASSUME NEW i \in DOMAIN input.steps, Found(input.steps[i]),
             Top(input.steps, start, i) < p + 1
      PROVE  Top(input.steps, start, i) + Body(input.steps[i]) < p + 1
  <2>1. Top(input.steps, start, i) < p
    BY <1>1, <1>2, <1>4
  <2>2. Top(input.steps, start, i) + Body(input.steps[i]) < p
    BY <1>4, <2>1 DEF Past
  <2>3. \A x, y \in Nat : x + y < p => x + y < p + 1
    OBVIOUS
  <2> QED
    BY <1>1, <1>4, <2>2, <2>3
<1> QED
  BY <1>3, <1>4 DEF Past

(* A header with the shell "bash" is the header of a step: a line of a     *)
(* script could only be taken for one in the block of a step the scan      *)
(* looks for, and it is past those.                                        *)
LEMMA HeaderIsFound ==
  ASSUME input.steps \in Seq(Shells!Steps), NEW start, File(Shells!Lines, input.steps, start),
         work.line \in 1 .. Len(Shells!Lines), Shells!IsHeader(work.line),
         Shells!ShellOf(work.line) = "bash", Past(start, work.line), Closed
  PROVE  \E i \in 1 .. Len(input.steps) :
           /\ work.line = Top(input.steps, start, i) /\ Found(input.steps[i])
           /\ Shells!Lines[work.line] = Shells!Line(input.steps[i].style, 1)
<1> DEFINE h == work.line
           lines == Shells!Lines
           n == Len(input.steps)
           T(k) == Top(input.steps, start, k)
<1>1. lines[h].kind \in {"|", ">"}
  BY DEF Shells!IsHeader
<1>2. PICK i \in 1 .. n :
        \/ h = T(i) /\ lines[h] = Shells!Line(input.steps[i].style, 1) /\ Seen(input.steps[i])
        \/ \E k \in 1 .. Body(input.steps[i]) : h = T(i) + k /\ input.steps[i].body[k] = "header"
  <2>1. h \in 1 .. Len(lines) /\ lines \in Seq(FileLines)
    BY LinesAreFile
  <2>2. File(lines, input.steps, start)
    OBVIOUS
  <2> HIDE DEF h, lines
  <2>3. HasHeader(lines, input.steps, start, h)
    BY <1>1, <2>1, <2>2, HeaderIsStep
  <2> QED
    BY <2>3 DEF HasHeader
<1> DEFINE s == input.steps[i]
<1>3. CASE h = T(i) /\ lines[h] = Shells!Line(s.style, 1) /\ Seen(s)
  <2>1. s.style # "-|"
    BY <1>3 DEF Seen
  <2>2. Shells!ShellOf(T(i)) = Read(s)
    BY <2>1, ShellOfStep
  <2>3. Found(s)
    BY <1>3, <2>2 DEF Found
  <2> QED
    BY <1>3, <2>3
<1>4. ASSUME NEW k \in 1 .. Body(s), h = T(i) + k, s.body[k] = "header" PROVE FALSE
  <2>1. s \in Shells!Steps /\ T(i) \in Nat
    <3>1. s \in Shells!Steps /\ T(i) \in 1 .. Len(lines) /\ Len(lines) \in Nat
      BY ReadStep
    <3> QED
      BY <3>1
  <2>2. /\ k = 2 /\ Body(s) = 2 /\ Seen(s) /\ s.way = "line" /\ s.after = "unset"
        /\ "header" \in Shells!Range(s.body)
    BY <1>4, <2>1, HeaderInBody
  <2>3. input.shell = "bash"
    BY <1>4, ShellOfText
  <2>4. ~Shells!Overcounts(s)
    BY DEF Closed
  <2>5. Shells!Shell(s) = "bash"
    BY <2>2, <2>3, <2>4 DEF Shells!Overcounts
  <2>6. Found(s)
    BY <2>2, <2>3, <2>5 DEF Found, Read, Shells!Shell
  <2>7. T(i) < h
    <3> HIDE DEF T, h
    <3> QED
      BY <1>4, <2>1, <2>2
  <2>8. T(i) + Body(s) < h
    BY <2>6, <2>7 DEF Past
  <2> HIDE DEF T, h
  <2> QED
    BY <1>4, <2>1, <2>2, <2>8
<1> QED
  BY <1>2, <1>3, <1>4

(* A block the scan takes is the script of the next step it looks for.     *)
LEMMA BlockIsNext ==
  ASSUME input.steps \in Seq(Shells!Steps), NEW start, File(Shells!Lines, input.steps, start),
         work.line \in 1 .. Len(Shells!Lines), Shells!IsHeader(work.line),
         Shells!ShellOf(work.line) = "bash", Shells!IsLiteral, Past(start, work.line), Closed,
         ~ \A p \in Shells!Block : Shells!Blank(p)
  PROVE  \E i \in DOMAIN input.steps :
           /\ Shells!Content = Shells!Script(input.steps[i]) /\ input.steps[i].style = "|"
           /\ i \notin Passed(start, work.line) /\ \A j \in Passed(start, work.line) : j < i
           /\ Passed(start, Shells!BlockEnd) = Passed(start, work.line) \cup {i}
           /\ Shells!BlockEnd \in Nat \ {0} /\ Past(start, Shells!BlockEnd)
<1> DEFINE n == Len(input.steps)
           h == work.line
           lines == Shells!Lines
           T(k) == Top(input.steps, start, k)
<1>1. DOMAIN input.steps = 1 .. n /\ n \in Nat /\ lines \in Seq(FileLines)
  BY LinesAreFile
<1>2. PICK i \in 1 .. n : /\ h = T(i) /\ Found(input.steps[i])
                           /\ lines[h] = Shells!Line(input.steps[i].style, 1)
  BY HeaderIsFound
<1> DEFINE s == input.steps[i]
<1>3. s.style = "|"
  <2>1. lines[h].kind = "|" /\ lines[h].kind = s.style
    BY <1>2 DEF Shells!IsLiteral, Shells!Line
  <2> QED
    BY <2>1
<1>4. Shells!Content = Shells!Script(s)
  <2>1. Seen(s)
    BY <1>2 DEF Found
  <2> QED
    BY <1>2, <2>1, ContentOfStep
<1>5. Shells!BlockEnd = h + Body(s) + 1 /\ Body(s) \in Nat /\ h \in Nat
  <2>1. Shells!BlockEnd = h + Body(s) + 1
    BY <1>2, <1>3, BlockOfStep
  <2>2. Body(s) \in Nat /\ T(i) \in 1 .. Len(lines) /\ Len(lines) \in Nat
    BY ReadStep
  <2> QED
    BY <1>2, <2>1, <2>2
<1>6. Found(s)
  BY <1>2
<1>7. ASSUME NEW j \in 1 .. n, Found(input.steps[j])
      PROVE  /\ T(j) \in Nat /\ j \in Nat
             /\ j < i => T(j) < h
             /\ i < j => h + Body(s) + 1 < T(j)
  <2>1. T(j) \in 1 .. Len(lines) /\ Len(lines) \in Nat /\ Body(input.steps[j]) \in Nat
    BY ReadStep
  <2>0. Seen(s) /\ Seen(input.steps[j])
    BY <1>6, <1>7 DEF Found
  <2>2. j < i => T(j) + Body(input.steps[j]) + 1 < h
    BY <1>1, <1>2, <2>0, TopsInOrder
  <2>3. i < j => h + Body(s) + 1 < T(j)
    BY <1>1, <1>2, <2>0, TopsInOrder
  <2> HIDE DEF T, h, s, lines
  <2>4. T(j) \in Nat /\ j \in Nat
    BY <2>1
  <2>5. \A x, y, z \in Nat : x + y + 1 < z => x < z
    OBVIOUS
  <2>6. j < i => T(j) < h
    BY <1>5, <2>1, <2>2, <2>4, <2>5
  <2> QED
    BY <2>3, <2>4, <2>6
<1>8. \A p : Passed(start, p) = {j \in 1 .. n : Found(input.steps[j]) /\ T(j) < p}
  BY <1>1 DEF Passed
<1> HIDE DEF T, h, lines, n
<1> DEFINE e == h + Body(s) + 1
<1>9. e \in Nat \ {0} /\ h < e /\ ~(h < h)
  <2>1. \A x, y \in Nat : x + y + 1 \in Nat \ {0} /\ x < x + y + 1 /\ ~(x < x)
    OBVIOUS
  <2> QED
    BY <1>5, <2>1
<1>10. i \notin Passed(start, h)
  BY <1>2, <1>8, <1>9
<1>11. \A j \in Passed(start, h) : j < i
  <2>1. ASSUME NEW j \in 1 .. n, Found(input.steps[j]), T(j) < h PROVE j < i
    <3>1. j # i
      BY <1>2, <1>9, <2>1
    <3>2. ~(i < j)
      <4>1. ASSUME i < j PROVE FALSE
        <5>1. e < T(j) /\ T(j) \in Nat
          BY <1>7, <2>1, <4>1
        <5> HIDE DEF e
        <5> QED
          BY <1>5, <1>9, <2>1, <5>1
      <4> QED
        BY <4>1
    <3>3. i \in Nat /\ j \in Nat
      BY <1>6, <1>7, <2>1
    <3> QED
      BY <3>1, <3>2, <3>3
  <2> QED
    BY <1>8, <2>1
<1>12. Passed(start, e) = Passed(start, h) \cup {i}
  <2>1. ASSUME NEW j \in 1 .. n, Found(input.steps[j])
        PROVE  T(j) < e <=> (T(j) < h \/ j = i)
    <3>1. T(j) \in Nat /\ j \in Nat /\ i \in Nat
      BY <1>6, <1>7, <2>1
    <3>2. CASE j = i
      BY <1>2, <1>9, <3>2
    <3>3. CASE j < i
      <4>1. T(j) < h
        BY <1>7, <2>1, <3>3
      <4> HIDE DEF e
      <4> QED
        BY <1>5, <1>9, <3>1, <4>1
    <3>4. CASE i < j
      <4>1. e < T(j) /\ j # i
        BY <1>7, <2>1, <3>1, <3>4
      <4> HIDE DEF e
      <4> QED
        BY <1>5, <1>9, <3>1, <4>1
    <3> QED
      BY <3>1, <3>2, <3>3, <3>4
  <2> HIDE DEF e
  <2> QED
    BY <1>6, <1>8, <2>1
<1>14. Past(start, e)
  <2>1. ASSUME NEW j \in 1 .. n, Found(input.steps[j]), T(j) < e
        PROVE  T(j) + Body(input.steps[j]) < e
    <3>1. CASE j = i
      <4>1. \A x, y \in Nat : x + y < x + y + 1
        OBVIOUS
      <4> QED
        BY <1>2, <1>5, <3>1, <4>1
    <3>2. CASE T(j) < h
      <4>1. T(j) + Body(input.steps[j]) < h
        BY <1>1, <2>1, <3>2 DEF Past, T, n, h
      <4>2. T(j) \in Nat /\ Body(input.steps[j]) \in Nat
        <5>1. j \in 1 .. Len(input.steps)
          BY DEF n
        <5> QED
          BY <1>7, <2>1, <5>1, ReadStep
      <4>3. \A x, y, z, u \in Nat : x + y < z /\ z < u => x + y < u
        OBVIOUS
      <4> HIDE DEF e
      <4> QED
        BY <1>5, <1>9, <4>1, <4>2, <4>3
    <3>3. j \in Passed(start, e)
      BY <1>8, <2>1
    <3>4. j = i \/ T(j) < h
      BY <1>8, <1>12, <3>3
    <3> QED
      BY <3>1, <3>2, <3>4
  <2> HIDE DEF e
  <2> QED
    BY <1>1, <2>1 DEF Past, T, n
<1>13. Shells!BlockEnd = e
  BY <1>5
<1> HIDE DEF e
<1> QED
  BY <1>1, <1>3, <1>4, <1>9, <1>10, <1>11, <1>12, <1>13, <1>14 DEF h

-----------------------------------------------------------------------------
(* Where no step in another shell counts as one in Bash, the scan hands    *)
(* over the script of every step it looks for and whose header it has      *)
(* reached, is past their blocks, and takes nothing else; the check starts *)
(* only with as many as were expected.                                     *)
ScanTypeOK ==
  /\ input \in [steps : Seq(Shells!Steps), shell : {"bash", "none"}, expected : Nat]
  /\ at \in {"scan", "check", "passed", "refused"}
  /\ work \in [line : Nat \ {0}, blocks : Seq(Seq(ScriptLines)), failed : BOOLEAN]

ScanInv ==
  /\ ScanTypeOK
  /\ at = "scan" => \E start : /\ File(Shells!Lines, input.steps, start)
                               /\ Past(start, work.line)
                               /\ Collected(input.steps, work.blocks, Passed(start, work.line))
  /\ at \in {"check", "passed"} =>
       Len(work.blocks) = input.expected /\ Collected(input.steps, work.blocks, AllFound)
  /\ at = "passed" => ~work.failed

LEMMA ScanInit == Shells!Init => ScanInv
<1> SUFFICES ASSUME Shells!Init PROVE ScanInv
  OBVIOUS
<1>1. /\ input \in Shells!Inputs /\ at = "scan"
      /\ work = [line |-> 1, blocks |-> <<>>, failed |-> FALSE]
  BY DEF Shells!Init
<1>2. input \in [steps : Seq(Shells!Steps), shell : {"bash", "none"}, expected : Nat]
  <2>1. input.steps \in Seq(Shells!Steps)
    <3>1. input.steps \in Shells!BoundedSeq(Shells!Steps, MaxSteps)
      BY <1>1 DEF Shells!Inputs
    <3>2. \A S, n : Shells!BoundedSeq(S, n) \subseteq Seq(S)
      BY DEF Shells!BoundedSeq, Shells!SeqOf
    <3> QED
      BY <3>1, <3>2
  <2>2. MaxSteps \in Nat
    BY ConstantsFit DEF Shells!ConstantsFit
  <2>3. 1 .. MaxSteps \subseteq Nat
    BY <2>2
  <2> QED
    BY <1>1, <2>1, <2>3 DEF Shells!Inputs
<1>3. ScanTypeOK
  <2>1. <<>> \in Seq(Seq(ScriptLines)) /\ 1 \in Nat \ {0}
    OBVIOUS
  <2> QED
    BY <1>1, <1>2, <2>1 DEF ScanTypeOK
<1>4. PICK start : File(Shells!Lines, input.steps, start)
  BY <1>2, LinesAreFile
<1>5. Passed(start, 1) = {} /\ Past(start, 1)
  <2>1. ASSUME NEW i \in DOMAIN input.steps PROVE ~(Top(input.steps, start, i) < 1)
    <3>1. i \in 1 .. Len(input.steps) /\ input.steps \in Seq(Shells!Steps)
      BY <1>2
    <3>2. /\ Top(input.steps, start, i) \in 1 .. Len(Shells!Lines)
          /\ Len(Shells!Lines) \in Nat
      BY <1>4, <3>1, ReadStep
    <3> QED
      BY <3>2
  <2> QED
    BY <2>1 DEF Passed, Past
<1>6. Collected(input.steps, <<>>, {})
  BY FS_EmptySet DEF Collected
<1> QED
  BY <1>1, <1>3, <1>4, <1>5, <1>6 DEF ScanInv

(* The command refuses.                                                    *)
LEMMA ShellsRefusal == ASSUME ScanInv, Shells!Refuse PROVE ScanInv'
<1>1. at' = "refused" /\ input' = input /\ work' = work
  BY DEF Shells!Refuse
<1> QED
  BY <1>1 DEF ScanInv, ScanTypeOK

(* A line that is no header, or the header of another shell's block.       *)
LEMMA SkipKeepsInv ==
  ASSUME ScanInv, Shells!SkipLine \/ Shells!SkipHeader
  PROVE  ScanInv'
<1> DEFINE p == work.line
<1>1. /\ at = "scan" /\ ~(Shells!IsHeader(p) /\ Shells!ShellOf(p) = "bash")
      /\ work' = [work EXCEPT !.line = p + 1] /\ input' = input /\ at' = at
  BY DEF Shells!SkipLine, Shells!SkipHeader, Shells!Header, Shells!Scanning, Shells!Advance
<1>2. ScanTypeOK /\ p \in Nat /\ input.steps \in Seq(Shells!Steps)
  BY DEF ScanInv, ScanTypeOK
<1>3. PICK start : /\ File(Shells!Lines, input.steps, start)
                   /\ Past(start, p)
                   /\ Collected(input.steps, work.blocks, Passed(start, p))
  BY <1>1 DEF ScanInv
<1>4. Passed(start, p + 1) = Passed(start, p) /\ Past(start, p + 1)
  BY <1>1, <1>2, <1>3, SkippedIsNotFound
<1>5. /\ work'.line = p + 1 /\ work'.blocks = work.blocks
      /\ work' \in [line : Nat \ {0}, blocks : Seq(Seq(ScriptLines)), failed : BOOLEAN]
  BY <1>1, <1>2 DEF ScanTypeOK
<1>6. ScanTypeOK'
  BY <1>1, <1>2, <1>5 DEF ScanTypeOK
<1>7. File(Shells!Lines, input.steps, start)'
  BY <1>1, <1>3 DEF Shells!Lines
<1>8. Collected(input.steps, work.blocks, Passed(start, work.line))'
  <2>1. Passed(start, work.line)' = Passed(start, p + 1)
    BY <1>1, <1>5 DEF Passed, Found, Read
  <2> HIDE DEF p
  <2> QED
    BY <1>1, <1>3, <1>4, <1>5, <2>1
<1>9. Past(start, work.line)'
  BY <1>1, <1>4, <1>5 DEF Past, Found, Read
<1> QED
  BY <1>1, <1>6, <1>7, <1>8, <1>9 DEF ScanInv

(* The script of a step is handed over.                                    *)
LEMMA CollectKeepsInv == ASSUME ScanInv, Closed, Shells!CollectBlock PROVE ScanInv'
<1>1. CASE \A p \in Shells!Block : Shells!Blank(p)
  BY <1>1, ShellsRefusal DEF Shells!CollectBlock
<1>2. CASE ~ \A p \in Shells!Block : Shells!Blank(p)
  <2> DEFINE h == work.line
             new == Shells!Content
             stop == Shells!BlockEnd
  <2>1. /\ at = "scan" /\ h <= Len(Shells!Lines) /\ Shells!IsHeader(h)
        /\ Shells!ShellOf(h) = "bash" /\ Shells!IsLiteral
        /\ work' = [work EXCEPT !.blocks = Append(@, new), !.line = stop]
        /\ input' = input /\ at' = at
    BY <1>2 DEF Shells!CollectBlock, Shells!Header, Shells!Scanning
  <2>2. ScanTypeOK /\ h \in Nat \ {0} /\ input.steps \in Seq(Shells!Steps)
        /\ work.blocks \in Seq(Seq(ScriptLines))
    BY DEF ScanInv, ScanTypeOK
  <2>3. PICK start : /\ File(Shells!Lines, input.steps, start)
                     /\ Past(start, h)
                     /\ Collected(input.steps, work.blocks, Passed(start, h))
    BY <2>1 DEF ScanInv
  <2>4. h \in 1 .. Len(Shells!Lines)
    <3>1. Shells!Lines \in Seq(FileLines)
      BY <2>2, LinesAreFile
    <3>2. Len(Shells!Lines) \in Nat
      BY <3>1
    <3> QED
      BY <2>1, <2>2, <3>2
  <2>5. PICK i \in DOMAIN input.steps :
          /\ new = Shells!Script(input.steps[i]) /\ input.steps[i].style = "|"
          /\ i \notin Passed(start, h) /\ \A j \in Passed(start, h) : j < i
          /\ Passed(start, stop) = Passed(start, h) \cup {i}
          /\ stop \in Nat \ {0} /\ Past(start, stop)
    BY <1>2, <2>1, <2>2, <2>3, <2>4, BlockIsNext
  <2>6. new \in Seq(ScriptLines) /\ Shells!Script(input.steps[i]) \in Seq(ScriptLines)
    <3>1. input.steps[i] \in Shells!Steps
      BY <2>2
    <3> QED
      BY <2>5, <3>1, ScriptForm
  <2>7. Collected(input.steps, Append(work.blocks, new), Passed(start, stop))
    <3> DEFINE n == Len(input.steps)
               B == Passed(start, h)
    <3>1. n \in Nat /\ i \in 1 .. n /\ B \in SUBSET (1 .. n)
      BY <2>2 DEF Passed
    <3>2. i \notin B /\ (\A j \in B : j < i) /\ Collected(input.steps, work.blocks, B)
      BY <2>3, <2>5
    <3> HIDE DEF n, B
    <3>3. Collected(input.steps, Append(work.blocks, Shells!Script(input.steps[i])), B \cup {i})
      BY <2>2, <2>5, <2>6, <3>1, <3>2, CollectedGrows
    <3> QED
      BY <2>5, <3>3 DEF B
  <2> HIDE DEF new, stop
  <2>8. work'.line = stop /\ work'.blocks = Append(work.blocks, new) /\ work'.failed = work.failed
    BY <2>1, <2>2 DEF ScanTypeOK
  <2>9. work' \in [line : Nat \ {0}, blocks : Seq(Seq(ScriptLines)), failed : BOOLEAN]
    <3>1. Append(work.blocks, new) \in Seq(Seq(ScriptLines))
      BY <2>2, <2>6
    <3> HIDE DEF h
    <3> QED
      BY <2>1, <2>2, <2>5, <3>1 DEF ScanTypeOK
  <2>10. ScanTypeOK'
    BY <2>1, <2>2, <2>9 DEF ScanTypeOK
  <2>11. File(Shells!Lines, input.steps, start)'
    BY <2>1, <2>3 DEF Shells!Lines
  <2>12. Collected(input.steps, work.blocks, Passed(start, work.line))'
    <3>1. Passed(start, work.line)' = Passed(start, stop)
      BY <2>1, <2>8 DEF Passed, Found, Read
    <3> QED
      BY <2>1, <2>7, <2>8, <3>1
  <2>13. Past(start, work.line)'
    BY <2>1, <2>5, <2>8 DEF Past, Found, Read
  <2> QED
    BY <2>1, <2>10, <2>11, <2>12, <2>13 DEF ScanInv
<1> QED
  BY <1>1, <1>2

(* Behind the last line every header has been found.                       *)
LEMMA CompareKeepsInv == ASSUME ScanInv, Shells!CompareCount PROVE ScanInv'
<1>1. CASE Len(work.blocks) # input.expected
  BY <1>1, ShellsRefusal DEF Shells!CompareCount, Shells!CountMatches
<1>2. CASE Len(work.blocks) = input.expected
  <2>1. /\ at = "scan" /\ work.line > Len(Shells!Lines) /\ at' = "check"
        /\ work' = [work EXCEPT !.line = 1] /\ input' = input
    BY <1>2 DEF Shells!CompareCount, Shells!CountMatches
  <2>2. ScanTypeOK /\ work.line \in Nat /\ input.steps \in Seq(Shells!Steps)
    BY DEF ScanInv, ScanTypeOK
  <2>3. PICK start : /\ File(Shells!Lines, input.steps, start)
                     /\ Collected(input.steps, work.blocks, Passed(start, work.line))
    BY <2>1 DEF ScanInv
  <2>4. Passed(start, work.line) = AllFound
    <3>1. ASSUME NEW i \in DOMAIN input.steps PROVE Top(input.steps, start, i) < work.line
      <4>1. i \in 1 .. Len(input.steps)
        BY <2>2
      <4>2. /\ Top(input.steps, start, i) \in 1 .. Len(Shells!Lines)
            /\ Len(Shells!Lines) \in Nat
        BY <2>2, <2>3, <4>1, ReadStep
      <4> QED
        BY <2>1, <2>2, <4>2
    <3> QED
      BY <3>1 DEF Passed, AllFound
  <2>5. work'.blocks = work.blocks /\ ScanTypeOK'
    <3> DEFINE W == [line : Nat \ {0}, blocks : Seq(Seq(ScriptLines)), failed : BOOLEAN]
    <3>1. work' \in W /\ work'.blocks = work.blocks
      <4> DEFINE S == Seq(Seq(ScriptLines))
      <4>1. work \in [line : Nat \ {0}, blocks : S, failed : BOOLEAN] /\ 1 \in Nat \ {0}
        BY <2>2 DEF ScanTypeOK
      <4> HIDE DEF S
      <4> QED
        BY <2>1, <4>1 DEF S
    <3>2. at' \in {"scan", "check", "passed", "refused"}
      BY <2>1
    <3> QED
      BY <2>1, <2>2, <3>1, <3>2 DEF ScanTypeOK
  <2>6. Collected(input.steps, work.blocks, AllFound)'
    <3>1. AllFound' = AllFound
      BY <2>1 DEF AllFound, Found, Read
    <3> QED
      BY <2>1, <2>3, <2>4, <2>5, <3>1
  <2> QED
    BY <1>2, <2>1, <2>5, <2>6 DEF ScanInv
<1> QED
  BY <1>1, <1>2

(* Nothing the command does afterwards touches the blocks.                 *)
LEMMA CheckKeepsInv ==
  ASSUME ScanInv, Shells!RunShellCheck \/ Shells!Conclude
  PROVE  ScanInv'
<1>1. ASSUME at \in {"check", "passed"}, at' \in {"check", "passed", "refused"}, input' = input,
             work' \in [line : Nat \ {0}, blocks : Seq(Seq(ScriptLines)), failed : BOOLEAN],
             work'.blocks = work.blocks, at' = "passed" => ~work'.failed
      PROVE  ScanInv'
  <2>1. Collected(input.steps, work.blocks, AllFound) /\ Len(work.blocks) = input.expected
    BY <1>1 DEF ScanInv
  <2>2. AllFound' = AllFound
    BY <1>1 DEF AllFound, Found, Read
  <2>3. Collected(input.steps, work.blocks, AllFound)'
    BY <1>1, <2>1, <2>2
  <2>4. ScanTypeOK'
    BY <1>1 DEF ScanInv, ScanTypeOK
  <2> QED
    BY <1>1, <2>1, <2>3, <2>4 DEF ScanInv
<1>2. CASE Shells!RunShellCheck
  <2>1. CASE Shells!Refuse
    BY <2>1, ShellsRefusal
  <2>2. ASSUME NEW rejected \in BOOLEAN, at = "check", UNCHANGED <<input, at>>,
               work' = [work EXCEPT !.failed = @ \/ rejected, !.line = @ + 1]
        PROVE  ScanInv'
    <3> DEFINE fails == work.failed \/ rejected
    <3>1. work \in [line : Nat \ {0}, blocks : Seq(Seq(ScriptLines)), failed : BOOLEAN]
      BY DEF ScanInv, ScanTypeOK
    <3>2. fails \in BOOLEAN /\ work' = [work EXCEPT !.failed = fails, !.line = work.line + 1]
      BY <2>2, <3>1
    <3> HIDE DEF fails
    <3>3. /\ work' \in [line : Nat \ {0}, blocks : Seq(Seq(ScriptLines)), failed : BOOLEAN]
          /\ work'.blocks = work.blocks
      <4> DEFINE S == Seq(Seq(ScriptLines))
                 next == work.line + 1
      <4>1. work \in [line : Nat \ {0}, blocks : S, failed : BOOLEAN] /\ next \in Nat \ {0}
        BY <3>1
      <4>2. work' = [work EXCEPT !.failed = fails, !.line = next]
        BY <3>2
      <4> HIDE DEF S, next
      <4> QED
        BY <3>2, <4>1, <4>2 DEF S
    <3> QED
      BY <1>1, <2>2, <3>3
  <2> QED
    BY <1>2, <2>1, <2>2, Zenon DEF Shells!RunShellCheck
<1>3. CASE Shells!Conclude
  <2>1. at = "check" /\ input' = input /\ work' = work
        /\ at' = IF work.failed THEN "refused" ELSE "passed"
    BY <1>3 DEF Shells!Conclude
  <2>2. work \in [line : Nat \ {0}, blocks : Seq(Seq(ScriptLines)), failed : BOOLEAN]
    BY DEF ScanInv, ScanTypeOK
  <2> QED
    BY <1>1, <2>1, <2>2
<1> QED
  BY <1>2, <1>3

(* With the stated count, what the scan has found is what runs in Bash: it *)
(* takes no other block then, and it has missed none.                      *)
LEMMA CountClosesGap ==
  ASSUME ScanTypeOK, Closed, Cardinality(AllFound) = Cardinality(Shells!BashSteps)
  PROVE  AllFound = Shells!BashSteps
<1> DEFINE n == Len(input.steps)
<1>1. /\ DOMAIN input.steps = 1 .. n /\ n \in Nat
      /\ \A i \in 1 .. n : input.steps[i] \in Shells!Steps
  <2>1. input.steps \in Seq(Shells!Steps)
    BY DEF ScanTypeOK
  <2> QED
    BY <2>1
<1>2. AllFound \subseteq Shells!BashSteps
  <2>1. ASSUME NEW i \in 1 .. n, Found(input.steps[i]) PROVE i \in Shells!BashSteps
    <3> DEFINE s == input.steps[i]
    <3>1. /\ s \in Shells!Steps /\ ~Shells!Overcounts(s)
          /\ s.style \in {"|", ">"} /\ Read(s) = "bash"
      BY <1>1, <2>1 DEF Closed, Found, Seen
    <3>2. s.before = "unset" => s.way = "line"
      BY <3>1, StepCases
    <3> HIDE DEF s
    <3>3. Shells!Shell(s) = "bash"
      <4>1. CASE s.before # "unset" /\ s.way = "line"
        BY <3>1, <4>1 DEF Read, Shells!Shell
      <4>2. CASE s.way # "line"
        BY <3>1, <4>2 DEF Read, Shells!Overcounts
      <4>3. CASE s.before = "unset" /\ s.after # "unset"
        BY <3>1, <4>3 DEF Read, Shells!Overcounts
      <4>4. CASE s.before = "unset" /\ s.after = "unset"
        BY <3>1, <4>4 DEF Read, Shells!Shell
      <4> QED
        BY <3>2, <4>1, <4>2, <4>3, <4>4
    <3>4. s.style # "inline"
      BY <3>1
    <3> QED
      BY <1>1, <3>3, <3>4 DEF s, Shells!BashSteps
  <2> QED
    BY <1>1, <2>1 DEF AllFound
<1>3. IsFiniteSet(Shells!BashSteps)
  <2>1. IsFiniteSet(1 .. n)
    BY <1>1, FS_Interval
  <2>2. Shells!BashSteps \subseteq 1 .. n
    BY <1>1 DEF Shells!BashSteps
  <2> HIDE DEF n
  <2> QED
    BY <2>1, <2>2, FS_Subset
<1> QED
  BY <1>2, <1>3, FS_Subset

(* Where no step in another shell can be counted as one in Bash, the scan  *)
(* takes the block of every step whose header it recognises, and each with *)
(* its own script (workflow_shells.rs:93-217).                             *)
THEOREM ScanInvHolds == Spec => [](command = "workflow-shells" /\ Closed => ScanInv)
<1>1. Init => (command = "workflow-shells" /\ Closed => ScanInv)
  BY ScanInit DEF Init
<1>2. (command = "workflow-shells" /\ Closed => ScanInv) /\ [Next]_vars
        => (command = "workflow-shells" /\ Closed => ScanInv)'
  <2> SUFFICES ASSUME command = "workflow-shells" /\ Closed => ScanInv, [Next]_vars,
                      (command = "workflow-shells")', Closed'
               PROVE  ScanInv'
    OBVIOUS
  <2>0. /\ command = "workflow-shells"
        /\ (Shells!Next /\ UNCHANGED command) \/ UNCHANGED <<input, at, work>>
    BY DEF Next, vars, sequential
  <2>1. input' = input
    BY <2>0 DEF Shells!Next, Shells!SkipLine, Shells!SkipHeader, Shells!RefuseFolded,
      Shells!CollectBlock, Shells!CompareCount, Shells!RunShellCheck, Shells!Conclude,
      Shells!Ended, Shells!vars, Shells!Advance, Shells!Refuse
  <2>2. Closed
    BY <2>1 DEF Closed, Shells!Overcounts, Shells!Shell
  <2>3. ScanInv
    BY <2>0, <2>2
  <2>4. CASE Shells!RefuseFolded
    BY <2>3, <2>4, ShellsRefusal DEF Shells!RefuseFolded
  <2>5. CASE UNCHANGED <<input, at, work>>
    <3>1. Shells!Lines' = Shells!Lines
      BY <2>5 DEF Shells!Lines
    <3>2. ASSUME NEW start
          PROVE  /\ Passed(start, work.line)' = Passed(start, work.line)
                 /\ Past(start, work.line)' = Past(start, work.line)
      BY <2>5 DEF Passed, Past, Found, Read
    <3>3. AllFound' = AllFound
      BY <2>5 DEF AllFound, Found, Read
    <3>4. ScanTypeOK'
      BY <2>3, <2>5 DEF ScanInv, ScanTypeOK
    <3> QED
      BY <2>3, <2>5, <3>1, <3>2, <3>3, <3>4 DEF ScanInv
  <2>6. CASE Shells!SkipLine \/ Shells!SkipHeader
    BY <2>3, <2>6, SkipKeepsInv
  <2>7. CASE Shells!CollectBlock
    BY <2>2, <2>3, <2>7, CollectKeepsInv
  <2>8. CASE Shells!CompareCount
    BY <2>3, <2>8, CompareKeepsInv
  <2>9. CASE Shells!RunShellCheck \/ Shells!Conclude
    BY <2>3, <2>9, CheckKeepsInv
  <2>10. CASE Shells!Ended
    BY <2>5, <2>10 DEF Shells!Ended, Shells!vars
  <2> QED
    BY <2>0, <2>4, <2>5, <2>6, <2>7, <2>8, <2>9, <2>10 DEF Shells!Next
<1> QED
  BY <1>1, <1>2, PTL DEF Spec

(* Whatever a workflow of any length looks like - blocks the pattern does  *)
(* not see, shells it cannot read, a line of a script that reads like a    *)
(* block - if it passes with the number of its Bash blocks, and none in    *)
(* another shell has been counted for one, every one of its Bash scripts   *)
(* has been checked as the runner gets it (workflow_shells.rs:35-74,       *)
(* 93-217).                                                                *)
THEOREM BashIsChecked == Spec => []AllBashChecked
<1>1. (command = "workflow-shells" /\ Closed => ScanInv) => AllBashChecked
  <2> SUFFICES ASSUME command = "workflow-shells" /\ Closed => ScanInv,
                      command = "workflow-shells", at = "passed",
                      input.expected = Shells!Cardinality(Shells!BashSteps), Closed
               PROVE  Shells!AllBashChecked
    BY DEF AllBashChecked, Shells!AllBashChecked, Closed
  <2>1. /\ Len(work.blocks) = input.expected /\ ~work.failed
        /\ Collected(input.steps, work.blocks, AllFound)
    BY DEF ScanInv
  <2>2. Cardinality(AllFound) = Cardinality(Shells!BashSteps)
    BY <2>1, SameSize DEF Collected
  <2>3. AllFound = Shells!BashSteps
    BY <2>2, CountClosesGap DEF ScanInv
  <2>4. ASSUME NEW i \in Shells!BashSteps
        PROVE  /\ input.steps[i].style = "|"
               /\ work.blocks[Shells!Cardinality({j \in Shells!BashSteps : j <= i})]
                    = Shells!Script(input.steps[i])
    BY <2>1, <2>3, SameSize DEF Collected
  <2> QED
    BY <2>1, <2>4 DEF Shells!AllBashChecked
<1> QED
  BY <1>1, ScanInvHolds, PTL
=============================================================================
