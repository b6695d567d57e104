----------------------------- MODULE ToolingProofs -----------------------------
(***************************************************************************)
(* The programs around the library, each by itself.                        *)
(*                                                                         *)
(* The loader: whatever binding is loaded is one that the environment and  *)
(* the host allow, for every set of hosts and every outcome of the         *)
(* candidates.  The argument follows the loader: at each place it is known *)
(* what has been tried by then.  Native candidates are tried or still in   *)
(* the queue; a WASI build is tried first when it is forced and last       *)
(* otherwise; and strict loading never reaches the native ones.            *)
(* When nothing loads, the error lists what was tried, by induction over   *)
(* the chain of causes it comes as.                                        *)
(*                                                                         *)
(* The command line program can be believed: a smoke test that passed has  *)
(* measured what it claims, and the exit status tells what was found,      *)
(* whatever the host, the network and the arguments are.                   *)
(*                                                                         *)
(* A release, for every number of packages, runs, tags and retries.  The   *)
(* registry never changes a version it has taken, so what a run has seen   *)
(* of a visible package stays true whatever the other runs do.  The        *)
(* inductive invariant says what each run has seen: a run that publishes   *)
(* package p has seen all packages before p accepted, a run that takes up  *)
(* a release has seen part of it, a run past the check has seen it all.    *)
(* A run that begins when everything is visible never holds a package for  *)
(* missing, whatever npm answers: what it looked at it saw, or npm failed. *)
(***************************************************************************)
EXTENDS NativeLoader, Cli, Release, WellFoundedInduction, TLAPS

-----------------------------------------------------------------------------
(* The loader.                                                             *)

NativeKinds == {"file", "package", "override", "unsupported"}
\* The names of all files and packages.
Names ==
  {"android-arm64", "android-arm-eabi", "win32-x64-gnu", "win32-x64-msvc",
    "win32-ia32-msvc", "win32-arm64-msvc", "darwin-universal", "darwin-x64",
    "darwin-arm64", "freebsd-x64", "freebsd-arm64", "freebsd-ppc64",
    "linux-x64-musl", "linux-x64-gnu", "linux-arm64-musl",
    "linux-arm64-gnu", "linux-arm-musleabihf", "linux-arm-gnueabihf",
    "linux-loong64-musl", "linux-loong64-gnu", "linux-riscv64-musl",
    "linux-riscv64-gnu", "linux-ppc64-gnu", "linux-s390x-gnu",
    "openharmony-arm64", "openharmony-x64", "openharmony-arm"}

Candidate == [kind : NativeKinds \cup Wasi, name : Names \cup {"none", "override", "wasm32-wasi"}]
NativeCandidate == [kind : NativeKinds, name : Names \cup {"none", "override"}]

-----------------------------------------------------------------------------
(* The candidates of a host.                                               *)

LEMMA OneType == ASSUME NEW S, NEW c \in S PROVE <<c>> \in Seq(S)
  OBVIOUS

LEMMA PairType == ASSUME NEW name \in Names PROVE Pair(name) \in Seq(NativeCandidate)
<1> HIDE DEF Names
<1> QED
  BY DEF Pair, NativeCandidate, NativeKinds

LEMMA UnsupportedType == <<Unsupported>> \in Seq(NativeCandidate)
<1>1. Unsupported \in NativeCandidate
  BY DEF Unsupported, NativeCandidate, NativeKinds
<1> QED
  BY <1>1, OneType

LEMMA LibcType ==
  ASSUME NEW musl \in Names, NEW gnu \in Names
  PROVE  Libc(musl, gnu) \in Seq(NativeCandidate)
  BY PairType DEF Libc

LEMMA AndroidType == \A arch : AndroidCandidates(arch) \in Seq(NativeCandidate)
<1> TAKE arch
<1>1. CASE arch = "arm64"
  BY <1>1, PairType DEF AndroidCandidates, Names
<1>2. CASE arch = "arm"
  BY <1>2, PairType DEF AndroidCandidates, Names
<1>3. CASE arch \notin {"arm64", "arm"}
  BY <1>3, UnsupportedType DEF AndroidCandidates, Names
<1> QED
  BY <1>1, <1>2, <1>3

LEMMA WindowsType == \A arch, gnuNode : WindowsCandidates(arch, gnuNode) \in Seq(NativeCandidate)
<1> TAKE arch, gnuNode
<1>1. CASE arch = "x64" /\ gnuNode
  BY <1>1, PairType DEF WindowsCandidates, Names
<1>2. CASE arch = "x64" /\ ~gnuNode
  BY <1>2, PairType DEF WindowsCandidates, Names
<1>3. CASE arch = "ia32"
  BY <1>3, PairType DEF WindowsCandidates, Names
<1>4. CASE arch = "arm64"
  BY <1>4, PairType DEF WindowsCandidates, Names
<1>5. CASE arch \notin {"x64", "ia32", "arm64"}
  BY <1>5, UnsupportedType DEF WindowsCandidates, Names
<1> QED
  BY <1>1, <1>2, <1>3, <1>4, <1>5

LEMMA DarwinType == \A arch : DarwinCandidates(arch) \in Seq(NativeCandidate)
<1> TAKE arch
<1>1. Pair("darwin-universal") \in Seq(NativeCandidate)
  BY PairType DEF Names
<1>2. CASE arch = "x64"
  <2>1. Pair("darwin-x64") \in Seq(NativeCandidate)
    BY PairType DEF Names
  <2> QED
    BY <1>1, <1>2, <2>1 DEF DarwinCandidates
<1>3. CASE arch = "arm64"
  <2>1. Pair("darwin-arm64") \in Seq(NativeCandidate)
    BY PairType DEF Names
  <2> QED
    BY <1>1, <1>3, <2>1 DEF DarwinCandidates
<1>4. CASE arch \notin {"x64", "arm64"}
  BY <1>1, <1>4, UnsupportedType DEF DarwinCandidates
<1> QED
  BY <1>2, <1>3, <1>4

LEMMA FreebsdType == \A arch : FreebsdCandidates(arch) \in Seq(NativeCandidate)
<1> TAKE arch
<1>1. CASE arch = "x64"
  BY <1>1, PairType DEF FreebsdCandidates, Names
<1>2. CASE arch = "arm64"
  BY <1>2, PairType DEF FreebsdCandidates, Names
<1>3. CASE arch = "ppc64"
  BY <1>3, PairType DEF FreebsdCandidates, Names
<1>4. CASE arch \notin {"x64", "arm64", "ppc64"}
  BY <1>4, UnsupportedType DEF FreebsdCandidates, Names
<1> QED
  BY <1>1, <1>2, <1>3, <1>4

LEMMA LinuxType == \A arch : LinuxCandidates(arch) \in Seq(NativeCandidate)
<1> TAKE arch
<1>1. CASE arch = "x64"
  BY <1>1, LibcType DEF LinuxCandidates, LinuxCommon, Names
<1>2. CASE arch = "arm64"
  BY <1>2, LibcType DEF LinuxCandidates, LinuxCommon, Names
<1>3. CASE arch = "arm"
  BY <1>3, LibcType DEF LinuxCandidates, LinuxCommon, Names
<1>4. CASE arch = "loong64"
  BY <1>4, LibcType DEF LinuxCandidates, LinuxOther, Names
<1>5. CASE arch = "riscv64"
  BY <1>5, LibcType DEF LinuxCandidates, LinuxOther, Names
<1>6. CASE arch = "ppc64"
  BY <1>6, PairType DEF LinuxCandidates, LinuxOther, Names
<1>7. CASE arch = "s390x"
  BY <1>7, PairType DEF LinuxCandidates, LinuxOther, Names
<1>8. CASE arch \notin {"x64", "arm64", "arm", "loong64", "riscv64", "ppc64", "s390x"}
  BY <1>8, UnsupportedType DEF LinuxCandidates, LinuxOther
<1> QED
  BY <1>1, <1>2, <1>3, <1>4, <1>5, <1>6, <1>7, <1>8

LEMMA OpenharmonyType == \A arch : OpenharmonyCandidates(arch) \in Seq(NativeCandidate)
<1> TAKE arch
<1>1. CASE arch = "arm64"
  BY <1>1, PairType DEF OpenharmonyCandidates, Names
<1>2. CASE arch = "x64"
  BY <1>2, PairType DEF OpenharmonyCandidates, Names
<1>3. CASE arch = "arm"
  BY <1>3, PairType DEF OpenharmonyCandidates, Names
<1>4. CASE arch \notin {"arm64", "x64", "arm"}
  BY <1>4, UnsupportedType DEF OpenharmonyCandidates, Names
<1> QED
  BY <1>1, <1>2, <1>3, <1>4

LEMMA HostCandidatesType == HostCandidates \in Seq(NativeCandidate)
<1>1. CASE host.platform = "android"
  BY <1>1, AndroidType DEF HostCandidates
<1>2. CASE host.platform = "win32"
  BY <1>2, WindowsType DEF HostCandidates
<1>3. CASE host.platform = "darwin"
  BY <1>3, DarwinType DEF HostCandidates
<1>4. CASE host.platform = "freebsd"
  BY <1>4, FreebsdType DEF HostCandidates
<1>5. CASE host.platform = "linux"
  BY <1>5, LinuxType DEF HostCandidates
<1>6. CASE host.platform = "openharmony"
  BY <1>6, OpenharmonyType DEF HostCandidates
<1>7. CASE host.platform \notin {"android", "win32", "darwin", "freebsd", "linux", "openharmony"}
  BY <1>7, UnsupportedType DEF HostCandidates
<1> QED
  BY <1>1, <1>2, <1>3, <1>4, <1>5, <1>6, <1>7

LEMMA CandidatesType ==
  /\ Candidates \in Seq(NativeCandidate)
  /\ env.override => Candidates = <<Override>>
<1>1. Override \in NativeCandidate
  BY DEF Override, NativeCandidate, NativeKinds
<1>2. <<Override>> \in Seq(NativeCandidate)
  BY <1>1, OneType
<1> QED
  BY <1>2, HostCandidatesType DEF Candidates

-----------------------------------------------------------------------------
(* What has been tried.                                                    *)

LEMMA TriedAppend ==
  ASSUME NEW s \in Seq(Candidate), NEW c \in Candidate
  PROVE  /\ Append(s, c) \in Seq(Candidate)
         /\ Tried(Append(s, c)) = Tried(s) \cup {c}
<1>1. Append(s, c) \in Seq(Candidate) /\ Len(Append(s, c)) = Len(s) + 1
  OBVIOUS
<1>2. \A n \in 1 .. Len(s) : Append(s, c)[n] = s[n]
  OBVIOUS
<1>3. Append(s, c)[Len(s) + 1] = c
  OBVIOUS
<1>4. 1 .. (Len(s) + 1) = 1 .. Len(s) \cup {Len(s) + 1}
  OBVIOUS
<1> QED
  BY <1>1, <1>2, <1>3, <1>4 DEF Tried

LEMMA TriedOne == ASSUME NEW c PROVE Tried(<<c>>) = {c}
<1>1. Len(<<c>>) = 1 /\ <<c>>[1] = c /\ 1 .. 1 = {1}
  OBVIOUS
<1> QED
  BY <1>1 DEF Tried

LEMMA TriedTail ==
  ASSUME NEW s \in Seq(NativeCandidate), s # <<>>
  PROVE  /\ Head(s) \in NativeCandidate
         /\ Tail(s) \in Seq(NativeCandidate)
         /\ Tried(s) = Tried(Tail(s)) \cup {Head(s)}
<1>1. /\ Head(s) \in NativeCandidate /\ Head(s) = s[1] /\ Len(s) >= 1
      /\ Tail(s) \in Seq(NativeCandidate) /\ Len(Tail(s)) = Len(s) - 1
  OBVIOUS
<1>2. \A n \in 1 .. (Len(s) - 1) : Tail(s)[n] = s[n + 1]
  OBVIOUS
<1>3. ASSUME NEW c \in Tried(s) PROVE c \in Tried(Tail(s)) \cup {Head(s)}
  <2>1. PICK n \in 1 .. Len(s) : c = s[n]
    BY DEF Tried
  <2>2. CASE n = 1
    BY <1>1, <2>1, <2>2
  <2>3. CASE n # 1
    <3>1. n - 1 \in 1 .. (Len(s) - 1) /\ Tail(s)[n - 1] = c
      BY <1>1, <1>2, <2>1, <2>3
    <3> QED
      BY <1>1, <3>1 DEF Tried
  <2> QED
    BY <2>2, <2>3
<1>4. Tried(Tail(s)) \cup {Head(s)} \subseteq Tried(s)
  <2>1. \A n \in 1 .. (Len(s) - 1) : n + 1 \in 1 .. Len(s)
    BY <1>1
  <2> QED
    BY <1>1, <1>2, <2>1 DEF Tried
<1> QED
  BY <1>1, <1>3, <1>4
-----------------------------------------------------------------------------
(* The invariant.                                                          *)

Places == {"flavor", "native", "try", "wasiFile", "wasiPackage", "end", "done", "thrown",
           "reported"}

LoaderType ==
  /\ pc \in Places
  /\ queue \in Seq(NativeCandidate)
  /\ loadErrors \in Seq(Candidate)

\* Every native candidate of the host has failed.
NativeTried == Tried(Candidates) \subseteq Tried(loadErrors)

\* What has been tried where the loader is, and what has not.
Progress ==
  /\ pc \notin {"end", "done", "thrown", "reported"} => target = "native" /\ binding = Nothing
  /\ pc = "flavor" => loadErrors = <<>>
  /\ pc \in {"native", "try"} =>
       /\ ~Strict
       /\ ForceWasi => {WasiFile, WasiPackage} \subseteq Tried(loadErrors)
  /\ pc = "try" =>
       /\ Tried(queue) \subseteq Tried(Candidates)
       /\ Tried(Candidates) \subseteq Tried(loadErrors) \cup Tried(queue)
  /\ pc = "wasiFile" => /\ Strict => loadErrors = <<>>
                        /\ ~ForceWasi => NativeTried
  /\ pc = "wasiPackage" => /\ Strict => Tried(loadErrors) \subseteq {WasiFile}
                           /\ ForceWasi => WasiFile \in Tried(loadErrors)
                           /\ ~ForceWasi => NativeTried

\* RightBinding but for the stamp, which is checked last.
Allowed ==
  /\ Strict => binding.kind \in Wasi /\ Tried(loadErrors) \subseteq {WasiFile}
  /\ ~ForceWasi /\ binding.kind \in Wasi => NativeTried
  /\ ForceWasi /\ binding.kind \in Native => {WasiFile, WasiPackage} \subseteq Tried(loadErrors)
  /\ env.enforce => binding.version = "same"
  /\ env.override => binding.kind \notin {"file", "package"}
  /\ binding.kind \in Wasi <=> target = "wasm32-wasi" /\ binding.kind # "override"

BindingAllowed ==
  /\ pc = "end" /\ binding # Nothing => Allowed
  /\ pc = "done" => Allowed /\ binding.marker \in {"none", target}

LInv == LoaderType /\ Progress /\ BindingAllowed

-----------------------------------------------------------------------------
(* The steps.                                                              *)

LEMMA TriedEmpty == Tried(<<>>) = {}
  BY DEF Tried

LEMMA WasiTypes == WasiFile \in Candidate /\ WasiPackage \in Candidate
  BY DEF WasiFile, WasiPackage, Candidate, Wasi

LEMMA NativeIsCandidate == NativeCandidate \subseteq Candidate
<1> HIDE DEF Names
<1> QED
  BY DEF NativeCandidate, Candidate

\* What the environment says does not change, nor do the candidates.
LEMMA SameEnvironment ==
  ASSUME env' = env, host' = host, libc' = libc
  PROVE  /\ Strict' = Strict /\ ForceWasi' = ForceWasi
         /\ Candidates' = Candidates
<1>1. Strict' = Strict /\ ForceWasi' = ForceWasi
  BY DEF Strict, ForceWasi
<1>2. IsMusl' = IsMusl
  BY DEF IsMusl
<1>3. \A arch : LinuxCandidates(arch)' = LinuxCandidates(arch)
  <2> HIDE DEF IsMusl
  <2> QED
    BY <1>2 DEF LinuxCandidates, LinuxCommon, LinuxOther, Libc
<1>4. HostCandidates' = HostCandidates
  BY <1>3 DEF HostCandidates
<1> QED
  BY <1>1, <1>4 DEF Candidates

LEMMA InitLInv == LoaderInit => LInv
<1> SUFFICES ASSUME LoaderInit PROVE LInv
  OBVIOUS
<1>1. LoaderType
  BY DEF LoaderInit, LoaderType, Places
<1>2. Progress
  BY DEF LoaderInit, Progress
<1>3. BindingAllowed
  BY DEF LoaderInit, BindingAllowed
<1> QED
  BY <1>1, <1>2, <1>3 DEF LInv

LEMMA CheckFlavorStep == LInv /\ CheckFlavor => LInv'
<1> SUFFICES ASSUME LInv, CheckFlavor PROVE LInv'
  OBVIOUS
<1>1. /\ Strict' = Strict /\ ForceWasi' = ForceWasi /\ Candidates' = Candidates
  BY SameEnvironment DEF CheckFlavor
<1>2. /\ pc' \in {"thrown", "wasiFile", "native"}
      /\ pc' = "wasiFile" => ForceWasi
      /\ pc' = "native" => ~ForceWasi
      /\ queue' = queue /\ loadErrors' = loadErrors /\ target' = target
      /\ pc = "flavor" /\ binding' = binding
  BY DEF CheckFlavor, Throw
<1>3. LoaderType'
  BY <1>2 DEF LInv, LoaderType, Places
<1>4. Progress'
  BY <1>1, <1>2 DEF LInv, Progress, ForceWasi
<1>5. BindingAllowed'
  BY <1>2 DEF BindingAllowed
<1> QED
  BY <1>3, <1>4, <1>5 DEF LInv

LEMMA RequireNativeStep == LInv /\ RequireNative => LInv'
<1> SUFFICES ASSUME LInv, RequireNative PROVE LInv'
  OBVIOUS
<1>1. /\ Strict' = Strict /\ ForceWasi' = ForceWasi /\ Candidates' = Candidates
  BY SameEnvironment DEF RequireNative
<1>2. /\ pc = "native" /\ pc' = "try" /\ queue' = Candidates
      /\ loadErrors' = loadErrors /\ target' = target /\ binding' = binding
  BY DEF RequireNative
<1>3. LoaderType'
  BY <1>2, CandidatesType DEF LInv, LoaderType, Places
<1>4. Tried(queue)' = Tried(Candidates) /\ Tried(loadErrors)' = Tried(loadErrors)
  BY <1>2 DEF Tried
<1>5. Tried(Candidates)' = Tried(Candidates)
  BY <1>1 DEF Tried
<1>6. Progress'
  BY <1>1, <1>2, <1>4, <1>5 DEF LInv, Progress
<1>7. BindingAllowed'
  BY <1>2 DEF BindingAllowed
<1> QED
  BY <1>3, <1>6, <1>7 DEF LInv

LEMMA TryStep == LInv /\ Try => LInv'
<1> SUFFICES ASSUME LInv, Try PROVE LInv'
  OBVIOUS
<1>1. /\ Strict' = Strict /\ ForceWasi' = ForceWasi /\ Candidates' = Candidates
      /\ Tried(Candidates)' = Tried(Candidates)
  BY SameEnvironment DEF Try, Tried
<1>2. /\ pc = "try" /\ queue # <<>> /\ queue \in Seq(NativeCandidate)
      /\ loadErrors \in Seq(Candidate) /\ env' = env
  BY DEF Try, LInv, LoaderType
<1>3. /\ Head(queue) \in NativeCandidate /\ Tail(queue) \in Seq(NativeCandidate)
      /\ Tried(queue) = Tried(Tail(queue)) \cup {Head(queue)}
  BY <1>2, TriedTail
<1>4. ASSUME NEW marker, NEW version,
             Head(queue).kind # "unsupported", ~Refused(version),
             binding' = Loaded(Head(queue), marker, version),
             target' = TargetOf(binding'),
             pc' = "end", queue' = queue, loadErrors' = loadErrors
      PROVE  LInv'
  <2>1. /\ binding'.kind = Head(queue).kind /\ binding'.version = version
        /\ binding'.marker = marker
    BY <1>4 DEF Loaded
  <2>2. Head(queue).kind \in {"file", "package", "override"}
    BY <1>3, <1>4 DEF NativeCandidate, NativeKinds
  <2>3. binding'.kind \notin Wasi
    BY <2>1, <2>2 DEF Wasi
  <2>4. env.override => Head(queue).kind = "override"
    <3>1. Head(queue) \in Tried(Candidates)
      BY <1>2, <1>3 DEF LInv, Progress
    <3>2. env.override => Tried(Candidates) = {Override}
      BY CandidatesType, TriedOne
    <3> QED
      BY <3>1, <3>2 DEF Override
  <2>5. binding'.kind # "override" => target' = "native"
    BY <1>2, <1>4, <2>3 DEF TargetOf, LInv, Progress
  <2>6. Tried(loadErrors)' = Tried(loadErrors)
    BY <1>4 DEF Tried
  <2>7. ~Strict /\ (ForceWasi => {WasiFile, WasiPackage} \subseteq Tried(loadErrors))
    BY <1>2 DEF LInv, Progress
  <2>8. env.enforce => version = "same"
    BY <1>4 DEF Refused
  <2>9. Allowed'
    <3>1. ~Strict'
      BY <1>1, <2>7
    <3>2. ForceWasi' => ({WasiFile, WasiPackage} \subseteq Tried(loadErrors))'
      BY <1>1, <2>6, <2>7
    <3>3. env'.enforce => binding'.version = "same"
      BY <1>2, <2>1, <2>8
    <3>4. env'.override => binding'.kind \notin {"file", "package"}
      BY <1>2, <2>1, <2>4
    <3>5. binding'.kind # "override" => target' # "wasm32-wasi"
      BY <2>5
    <3> QED
      BY <2>3, <3>1, <3>2, <3>3, <3>4, <3>5 DEF Allowed
  <2>10. LoaderType' /\ Progress'
    BY <1>2, <1>4 DEF LoaderType, Places, Progress
  <2> QED
    BY <1>4, <2>9, <2>10 DEF LInv, BindingAllowed
<1>5. ASSUME loadErrors' = Append(loadErrors, Head(queue)), queue' = Tail(queue),
             pc' = pc, target' = target, binding' = binding
      PROVE  LInv'
  <2>1. /\ loadErrors' \in Seq(Candidate)
        /\ Tried(loadErrors)' = Tried(loadErrors) \cup {Head(queue)}
    <3>1. Head(queue) \in Candidate
      BY <1>3, NativeIsCandidate
    <3>2. /\ Append(loadErrors, Head(queue)) \in Seq(Candidate)
          /\ Tried(Append(loadErrors, Head(queue))) = Tried(loadErrors) \cup {Head(queue)}
      BY <1>2, <3>1, TriedAppend
    <3>3. Tried(loadErrors)' = Tried(Append(loadErrors, Head(queue)))
      BY <1>5 DEF Tried
    <3> QED
      BY <1>5, <3>2, <3>3
  <2>2. Tried(queue)' = Tried(Tail(queue))
    BY <1>5 DEF Tried
  <2>3. LoaderType'
    BY <1>2, <1>3, <1>5, <2>1 DEF LoaderType, Places
  <2>4. Progress'
    BY <1>1, <1>2, <1>3, <1>5, <2>1, <2>2 DEF LInv, Progress
  <2> QED
    BY <1>2, <1>5, <2>3, <2>4 DEF LInv, BindingAllowed
<1> QED
  BY <1>4, <1>5 DEF Try

LEMMA NativeFailedStep == LInv /\ NativeFailed => LInv'
<1> SUFFICES ASSUME LInv, NativeFailed PROVE LInv'
  OBVIOUS
<1>1. /\ Strict' = Strict /\ ForceWasi' = ForceWasi /\ Candidates' = Candidates
      /\ Tried(Candidates)' = Tried(Candidates)
  BY SameEnvironment DEF NativeFailed, Tried
<1>2. /\ pc = "try" /\ queue = <<>> /\ queue' = queue
      /\ pc' \in {"end", "wasiFile"} /\ (pc' = "wasiFile" => ~ForceWasi)
      /\ loadErrors' = loadErrors /\ target' = target /\ binding' = binding
  BY DEF NativeFailed
<1>3. Tried(loadErrors)' = Tried(loadErrors)
  BY <1>2 DEF Tried
<1>4. NativeTried
  BY <1>2, TriedEmpty DEF LInv, Progress, NativeTried
<1>5. LoaderType'
  BY <1>2 DEF LInv, LoaderType, Places
<1>6. Progress'
  BY <1>1, <1>2, <1>3, <1>4 DEF LInv, Progress, NativeTried, ForceWasi
<1>7. binding' = Nothing
  BY <1>2 DEF LInv, Progress
<1> QED
  BY <1>2, <1>5, <1>6, <1>7 DEF LInv, BindingAllowed

\* A WASI candidate is tried; what Progress says of the next place is asked
\* of the caller.
LEMMA WasiStep ==
  ASSUME LInv, NEW c \in {WasiFile, WasiPackage}, NEW next, TryWasi(c, next),
         pc \in {"wasiFile", "wasiPackage"}, next \in {"wasiPackage", "native", "end"},
         Strict => Tried(loadErrors) \subseteq {WasiFile},
         ~ForceWasi => NativeTried,
         next = "native" => ~Strict /\ (ForceWasi => WasiFile \in Tried(loadErrors))
                              /\ c = WasiPackage,
         next = "wasiPackage" => c = WasiFile
  PROVE  LInv'
<1>1. /\ Strict' = Strict /\ ForceWasi' = ForceWasi /\ Candidates' = Candidates
      /\ Tried(Candidates)' = Tried(Candidates)
  BY SameEnvironment DEF TryWasi, Tried
<1>2. /\ queue' = queue /\ env' = env /\ queue \in Seq(NativeCandidate)
      /\ loadErrors \in Seq(Candidate) /\ target = "native" /\ binding = Nothing
  BY DEF TryWasi, LInv, LoaderType, Progress
<1>3. c \in Candidate /\ c.kind \in Wasi
  BY WasiTypes DEF WasiFile, WasiPackage, Wasi
<1>4. ASSUME NEW version, ~Refused(version), binding' = Loaded(c, "wasm32-wasi", version),
             target' = "wasm32-wasi", pc' = "end", loadErrors' = loadErrors
      PROVE  LInv'
  <2>1. binding'.kind \in Wasi /\ binding'.version = version
    BY <1>3, <1>4 DEF Loaded
  <2>2. Tried(loadErrors)' = Tried(loadErrors)
    BY <1>4 DEF Tried
  <2>3. NativeTried' = NativeTried
    BY <1>1, <2>2 DEF NativeTried
  <2>4. binding'.kind \notin Native /\ binding'.kind \notin {"file", "package", "override"}
    BY <2>1 DEF Wasi, Native
  <2>5. Strict' => (Tried(loadErrors) \subseteq {WasiFile})'
    BY <1>1, <2>2
  <2>6. env'.enforce => binding'.version = "same"
    BY <1>2, <1>4, <2>1 DEF Refused
  <2>7. Allowed'
    BY <1>1, <1>4, <2>1, <2>3, <2>4, <2>5, <2>6 DEF Allowed
  <2>8. LoaderType' /\ Progress'
    BY <1>2, <1>4 DEF LoaderType, Places, Progress
  <2> QED
    BY <1>4, <2>7, <2>8 DEF LInv, BindingAllowed
<1>5. ASSUME loadErrors' = Append(loadErrors, c), pc' = next, target' = target,
             binding' = binding
      PROVE  LInv'
  <2>1. loadErrors' \in Seq(Candidate) /\ Tried(loadErrors)' = Tried(loadErrors) \cup {c}
    <3>1. /\ Append(loadErrors, c) \in Seq(Candidate)
          /\ Tried(Append(loadErrors, c)) = Tried(loadErrors) \cup {c}
      BY <1>2, <1>3, TriedAppend
    <3>2. Tried(loadErrors)' = Tried(Append(loadErrors, c))
      BY <1>5 DEF Tried
    <3> QED
      BY <1>5, <3>1, <3>2
  <2>2. LoaderType'
    BY <1>2, <1>5, <2>1 DEF LoaderType, Places
  <2>3. ~ForceWasi' => NativeTried'
    BY <1>1, <2>1 DEF NativeTried
  <2>4. CASE next = "end"
    BY <1>2, <1>5, <2>2, <2>4 DEF LInv, BindingAllowed, Progress
  <2>5. CASE next = "native"
    BY <1>1, <1>2, <1>5, <2>1, <2>2, <2>5 DEF LInv, BindingAllowed, Progress
  <2>6. CASE next = "wasiPackage"
    BY <1>1, <1>2, <1>5, <2>1, <2>2, <2>3, <2>6 DEF LInv, BindingAllowed, Progress
  <2> QED
    BY <2>4, <2>5, <2>6
<1> QED
  BY <1>4, <1>5 DEF TryWasi

LEMMA TryWasiFileStep == LInv /\ TryWasiFile => LInv'
<1> SUFFICES ASSUME LInv, TryWasiFile PROVE LInv'
  OBVIOUS
<1>1. pc = "wasiFile" /\ TryWasi(WasiFile, "wasiPackage")
  BY DEF TryWasiFile
<1>2. Strict => Tried(loadErrors) \subseteq {WasiFile}
  BY <1>1, TriedEmpty DEF LInv, Progress
<1>3. ~ForceWasi => NativeTried
  BY <1>1 DEF LInv, Progress
<1> QED
  BY <1>1, <1>2, <1>3, WasiStep

LEMMA TryWasiPackageStep == LInv /\ TryWasiPackage => LInv'
<1> SUFFICES ASSUME LInv, TryWasiPackage PROVE LInv'
  OBVIOUS
<1> DEFINE next == IF ForceWasi /\ ~Strict THEN "native" ELSE "end"
<1>1. pc = "wasiPackage" /\ TryWasi(WasiPackage, next)
  BY DEF TryWasiPackage
<1>2. /\ Strict => Tried(loadErrors) \subseteq {WasiFile}
      /\ ForceWasi => WasiFile \in Tried(loadErrors)
      /\ ~ForceWasi => NativeTried
  BY <1>1 DEF LInv, Progress
<1>3. next \in {"native", "end"} /\ (next = "native" => ~Strict)
  OBVIOUS
<1> HIDE DEF next
<1> QED
  BY <1>1, <1>2, <1>3, WasiStep

LEMMA FinishStep == LInv /\ Finish => LInv'
<1> SUFFICES ASSUME LInv, Finish PROVE LInv'
  OBVIOUS
<1>1. /\ Strict' = Strict /\ ForceWasi' = ForceWasi /\ Candidates' = Candidates
  BY SameEnvironment DEF Finish
<1>2. /\ pc = "end" /\ pc' \in {"done", "thrown"}
      /\ pc' = "done" => binding # Nothing /\ StampFits
      /\ env' = env /\ queue' = queue /\ loadErrors' = loadErrors
      /\ binding' = binding /\ target' = target
  BY DEF Finish, Throw
<1>3. Tried(loadErrors)' = Tried(loadErrors) /\ NativeTried' = NativeTried
  BY <1>1, <1>2 DEF Tried, NativeTried
<1>4. Allowed' = Allowed
  BY <1>1, <1>2, <1>3 DEF Allowed
<1>5. BindingAllowed'
  BY <1>2, <1>4 DEF LInv, BindingAllowed, StampFits
<1>6. LoaderType' /\ Progress'
  BY <1>2 DEF LInv, LoaderType, Places, Progress
<1> QED
  BY <1>5, <1>6 DEF LInv

LEMMA ReportStep == LInv /\ Report => LInv'
<1> SUFFICES ASSUME LInv, Report PROVE LInv'
  OBVIOUS
<1>1. pc' = "reported" /\ queue' = queue /\ loadErrors' = loadErrors
  BY DEF Report
<1> QED
  BY <1>1 DEF LInv, LoaderType, Places, Progress, BindingAllowed

LEMMA StutterStep == LInv /\ UNCHANGED loaderVars => LInv'
<1> SUFFICES ASSUME LInv, UNCHANGED loaderVars PROVE LInv'
  OBVIOUS
<1>1. /\ Strict' = Strict /\ ForceWasi' = ForceWasi /\ Candidates' = Candidates
      /\ Tried(Candidates)' = Tried(Candidates) /\ Tried(loadErrors)' = Tried(loadErrors)
      /\ Tried(queue)' = Tried(queue)
  BY SameEnvironment DEF loaderVars, Tried
<1>2. NativeTried' = NativeTried
  BY <1>1 DEF NativeTried
<1>3. Allowed' = Allowed
  BY <1>1, <1>2 DEF Allowed, loaderVars
<1>4. LoaderType'
  BY DEF LInv, LoaderType, loaderVars
<1>5. Progress'
  BY <1>1, <1>2 DEF LInv, Progress, loaderVars
<1>6. BindingAllowed'
  BY <1>3 DEF LInv, BindingAllowed, loaderVars
<1> QED
  BY <1>4, <1>5, <1>6 DEF LInv

LEMMA LInvHolds == LoaderSpec => []LInv
<1>1. LInv /\ [LoaderNext]_loaderVars => LInv'
  BY CheckFlavorStep, RequireNativeStep, TryStep, NativeFailedStep, TryWasiFileStep,
     TryWasiPackageStep, FinishStep, ReportStep, StutterStep DEF LoaderNext
<1> QED
  BY <1>1, InitLInv, PTL DEF LoaderSpec

\* The binding that native.js returns is one that the environment allows: a
\* WASI build when WASI is required and then without a look at native ones,
\* the host's own native candidates before WASI otherwise, in the other order
\* when WASI is preferred; of the same version when that is enforced; and its
\* target says what it is.
THEOREM BindingIsRight == LoaderSpec => []RightBinding
<1>1. LInv => RightBinding
  <2> SUFFICES ASSUME LInv, pc = "done" PROVE Allowed /\ binding.marker \in {"none", target}
                                              => RightBinding
    BY DEF LInv, BindingAllowed, RightBinding
  <2>1. NativeTried => \A n \in 1 .. Len(Candidates) : Candidates[n] \in Tried(loadErrors)
    BY DEF NativeTried, Tried
  <2> QED
    BY <2>1 DEF Allowed, RightBinding
<1> QED
  BY <1>1, LInvHolds, PTL

-----------------------------------------------------------------------------
(* A chain of causes, and the way back along it.                           *)

\* A set of natural numbers has a least member.
LEMMA LeastMember ==
  ASSUME NEW T, T \subseteq Nat, T # {}
  PROVE  \E m \in T : \A n \in T : m <= n
<1>1. \E m \in T : \A n \in T : ~(n < m)
  <2>1. IsWellFoundedOn(OpToRel(<, Nat), Nat)
    BY NatLessThanWellFounded
  <2>2. \E m \in T : \A n \in T : ~(<<n, m>> \in OpToRel(<, Nat))
    BY <2>1, WFMin
  <2> QED
    BY <2>2 DEF OpToRel
<1>2. \A m, n \in Nat : ~(n < m) => m <= n
  OBVIOUS
<1> QED
  BY <1>1, <1>2

\* Induction: a property of every number up to n, as the set of those that have it.
LEMMA UpTo ==
  ASSUME NEW n \in Nat, NEW P, 0 \in P, \A k \in 1..n : k - 1 \in P => k \in P
  PROVE  0..n \subseteq P
<1>1. SUFFICES ASSUME 0..n \ P # {} PROVE FALSE
  OBVIOUS
<1>2. PICK m \in 0..n \ P : \A k \in 0..n \ P : m <= k
  <2>1. 0..n \ P \subseteq Nat
    OBVIOUS
  <2> QED
    BY <1>1, <2>1, LeastMember
<1>3. m \in 1..n /\ m - 1 \in 0..n /\ ~(m <= m - 1)
  BY <1>2
<1>4. m - 1 \in P
  BY <1>2, <1>3
<1> QED
  BY <1>2, <1>3, <1>4

\* What collectNativeLoadAttempts has found, by how far out it started.
Inwards(g, chain) ==
  g = [n \in 0 .. Len(chain) |->
         IF n = 0 THEN <<>> ELSE <<chain[n].error>> \o g[chain[n].cause]]
Causes(chain) == CHOOSE g : Inwards(g, chain)

\* The recursive function it is.
LEMMA CollectIs == \A chain : Collect(chain) = Causes(chain)[Len(chain)]
  BY DEF Collect, Inwards, Causes

\* The first n errors, last one first.
Backwards(errors, n) == [i \in 1 .. n |-> errors[n + 1 - i]]

\* One error more.
LEMMA BackwardsStep ==
  ASSUME NEW S, NEW errors \in Seq(S), NEW n \in 1 .. Len(errors)
  PROVE  Backwards(errors, n) = <<errors[n]>> \o Backwards(errors, n - 1)
<1>1. PICK one : one = <<errors[n]>>
  OBVIOUS
<1>2. one \in Seq(S) /\ Len(one) = 1 /\ one[1] = errors[n]
  BY <1>1
<1>3. PICK less : less = Backwards(errors, n - 1)
  OBVIOUS
<1>4. /\ less \in Seq(S) /\ Len(less) = n - 1
      /\ \A i \in 1 .. (n - 1) : less[i] = errors[n - i]
  <2>1. less = [i \in 1 .. (n - 1) |-> errors[n - i]]
    BY <1>3 DEF Backwards
  <2>2. \A i \in 1 .. (n - 1) : errors[n - i] \in S
    OBVIOUS
  <2> QED
    BY <2>1, <2>2
<1>5. PICK both : both = one \o less
  OBVIOUS
<1>6. /\ both \in Seq(S) /\ Len(both) = n
      /\ \A i \in 1 .. n : both[i] = IF i = 1 THEN errors[n] ELSE errors[n + 1 - i]
  <2>0. one \in Seq(S) /\ less \in Seq(S)
    BY <1>2, <1>4
  <2>1. /\ both \in Seq(S) /\ Len(both) = Len(one) + Len(less)
        /\ \A i \in 1 .. (Len(one) + Len(less)) :
             both[i] = IF i <= Len(one) THEN one[i] ELSE less[i - Len(one)]
    BY <1>5, <2>0
  <2>2. ASSUME NEW i \in 1 .. n, i # 1 PROVE both[i] = errors[n + 1 - i]
    <3>1. i - 1 \in 1 .. (n - 1) /\ ~(i <= 1) /\ n - (i - 1) = n + 1 - i
      BY <2>2
    <3>2. both[i] = less[i - 1]
      BY <1>2, <1>4, <2>1, <3>1
    <3>3. less[i - 1] = errors[n - (i - 1)]
      BY <1>4, <3>1
    <3> QED
      BY <3>1, <3>2, <3>3
  <2>3. both[1] = errors[n]
    BY <1>2, <1>4, <2>1
  <2> QED
    BY <1>2, <1>4, <2>1, <2>2, <2>3
<1>7. both = [i \in 1 .. n |-> errors[n + 1 - i]]
  BY <1>6
<1> QED
  BY <1>1, <1>3, <1>5, <1>7 DEF Backwards

\* What createLoadErrorChain makes.
LEMMA ChainIs ==
  ASSUME NEW S, NEW errors \in Seq(S)
  PROVE  /\ Len(Chain(errors)) = Len(errors)
         /\ \A n \in 1 .. Len(errors) : /\ Chain(errors)[n].error = errors[n]
                                        /\ Chain(errors)[n].cause = n - 1
  BY DEF Chain

\* Along the causes of a chain the errors come back, last one first.
LEMMA CollectChain ==
  ASSUME NEW S, NEW errors \in Seq(S)
  PROVE  Collect(Chain(errors)) = Backwards(errors, Len(errors))
<1>1. PICK chain : chain = Chain(errors)
  OBVIOUS
<1>2. /\ Len(chain) = Len(errors) /\ Len(errors) \in Nat
      /\ \A n \in 1 .. Len(errors) : chain[n].error = errors[n] /\ chain[n].cause = n - 1
  BY <1>1, ChainIs
<1>3. Backwards(errors, 0) = <<>>
  BY DEF Backwards
<1>4. PICK b : b = [n \in 0 .. Len(errors) |-> Backwards(errors, n)]
  OBVIOUS
<1>5. ASSUME NEW n \in 0 .. Len(errors)
      PROVE  b[n] = IF n = 0 THEN <<>> ELSE <<chain[n].error>> \o b[chain[n].cause]
  <2>1. CASE n = 0
    BY <1>3, <1>4, <2>1
  <2>2. CASE n # 0
    <3>1. n \in 1 .. Len(errors) /\ n - 1 \in 0 .. Len(errors)
      BY <1>2, <2>2
    <3>2. b[n] = <<errors[n]>> \o b[n - 1]
      BY <1>4, <3>1, BackwardsStep
    <3> QED
      BY <1>2, <2>2, <3>1, <3>2
  <2> QED
    BY <2>1, <2>2
<1>6. Inwards(b, chain)
  BY <1>2, <1>4, <1>5 DEF Inwards
<1>7. PICK g : g = Causes(chain)
  OBVIOUS
<1>8. Inwards(g, chain)
  BY <1>6, <1>7 DEF Causes
<1>9. ASSUME NEW n \in 0 .. Len(errors)
      PROVE  g[n] = IF n = 0 THEN <<>> ELSE <<chain[n].error>> \o g[chain[n].cause]
  BY <1>2, <1>8 DEF Inwards
<1>10. PICK P : P = {n \in 0 .. Len(errors) : g[n] = Backwards(errors, n)}
  OBVIOUS
<1>11. 0 \in P
  <2>1. 0 \in 0 .. Len(errors)
    BY <1>2
  <2> QED
    BY <1>3, <1>9, <1>10, <2>1
<1>12. ASSUME NEW k \in 1 .. Len(errors), k - 1 \in P PROVE k \in P
  <2>1. k \in 0 .. Len(errors) /\ k # 0
    BY <1>2
  <2>2. g[k] = <<chain[k].error>> \o g[chain[k].cause]
    BY <1>9, <2>1
  <2>3. g[k - 1] = Backwards(errors, k - 1)
    BY <1>10, <1>12
  <2>4. g[k] = <<errors[k]>> \o Backwards(errors, k - 1)
    BY <1>2, <2>2, <2>3
  <2>5. g[k] = Backwards(errors, k)
    BY <2>4, BackwardsStep
  <2> QED
    BY <1>10, <2>1, <2>5
<1>13. 0 .. Len(errors) \subseteq P
  <2>1. Len(errors) \in Nat
    BY <1>2
  <2> QED
    BY <1>11, <1>12, <2>1, UpTo
<1>14. g[Len(errors)] = Backwards(errors, Len(errors))
  BY <1>2, <1>10, <1>13
<1> QED
  BY <1>1, <1>2, <1>7, <1>14, CollectIs

\* The first errors, up to the limit.
FirstOf(tried, found) ==
  /\ Len(found) = (IF Len(tried) < MaxAttempts THEN Len(tried) ELSE MaxAttempts)
  /\ \A n \in 1 .. Len(found) : found[n] = tried[n]

\* Turned around again they come in the order in which they were tried.
LEMMA AttemptsOfChain ==
  ASSUME NEW S, NEW errors \in Seq(S)
  PROVE  FirstOf(errors, NativeLoadAttempts(Chain(errors)))
<1>1. PICK collected : collected = Collect(Chain(errors))
  OBVIOUS
<1>2. PICK len \in Nat : len = Len(errors)
  OBVIOUS
<1>3. collected = [i \in 1 .. len |-> errors[len + 1 - i]]
  BY <1>1, <1>2, CollectChain DEF Backwards
<1>4. /\ Len(collected) = len
      /\ \A i \in 1 .. len : collected[i] = errors[len + 1 - i]
  BY <1>3
<1>5. PICK reversed : reversed = [n \in 1 .. len |-> collected[len + 1 - n]]
  OBVIOUS
<1>6. ASSUME NEW n \in 1 .. len PROVE collected[len + 1 - n] = errors[n]
  <2>1. len + 1 - n \in 1 .. len /\ len + 1 - (len + 1 - n) = n
    OBVIOUS
  <2> QED
    BY <1>4, <2>1
<1>7. reversed \in Seq(S) /\ Len(reversed) = len /\ \A n \in 1 .. len : reversed[n] = errors[n]
  <2>1. reversed = [n \in 1 .. len |-> errors[n]]
    BY <1>5, <1>6
  <2>2. \A n \in 1 .. len : errors[n] \in S
    BY <1>2
  <2> QED
    BY <2>1, <2>2
<1>8. PICK most : most = IF len < MaxAttempts THEN len ELSE MaxAttempts
  OBVIOUS
<1>9. most \in 0 .. len
  BY <1>8, LoaderAssumption
<1>10. NativeLoadAttempts(Chain(errors)) = SubSeq(reversed, 1, most)
  BY <1>1, <1>4, <1>5, <1>7, <1>8 DEF NativeLoadAttempts
<1>11. PICK found : found = SubSeq(reversed, 1, most)
  OBVIOUS
<1>12. Len(found) = most /\ \A n \in 1 .. most : found[n] = reversed[n]
  BY <1>7, <1>9, <1>11
<1>13. \A n \in 1 .. most : found[n] = errors[n]
  BY <1>7, <1>9, <1>12
<1> QED
  BY <1>2, <1>8, <1>10, <1>11, <1>12, <1>13 DEF FirstOf

-----------------------------------------------------------------------------
(* What the error of a failed load lists.                                  *)

\* What has failed, for the report.
Reportable ==
  IF env.flavor = "unknown" \/ binding # Nothing THEN <<Itself>>
  ELSE IF Strict THEN wasiErrors
  ELSE loadErrors

\* The error that is thrown holds that, and the report lists it.
Reporting ==
  /\ wasiErrors \in Seq(Candidate)
  /\ env.flavor = "unknown" => pc \in {"flavor", "thrown", "reported"}
  /\ pc = "thrown" => thrown = Chain(Reportable)
  /\ pc = "reported" => FirstOf(Reportable, attempts)

\* It is a sequence.
LEMMA ReportableType ==
  ASSUME LInv, Reporting
  PROVE  \E S : Reportable \in Seq(S)
<1>1. <<Itself>> \in Seq({Itself})
  OBVIOUS
<1>2. loadErrors \in Seq(Candidate) /\ wasiErrors \in Seq(Candidate)
  BY DEF LInv, LoaderType, Reporting
<1>3. Reportable \in {<<Itself>>, wasiErrors, loadErrors}
  BY DEF Reportable
<1> QED
  BY <1>1, <1>2, <1>3

\* Nothing has been thrown yet.
LEMMA InitReporting == LoaderInit => Reporting
  BY DEF LoaderInit, Reporting

\* The steps before the loader throws.
LEMMA StillReporting ==
  ASSUME Reporting, env.flavor # "unknown", env' = env,
         wasiErrors' \in Seq(Candidate), pc' \notin {"thrown", "reported"}
  PROVE  Reporting'
  BY DEF Reporting

\* A WASI candidate that fails is noted, and nothing is thrown yet.
LEMMA WasiReporting ==
  ASSUME LInv, Reporting, NEW c \in {WasiFile, WasiPackage}, NEW next, TryWasi(c, next),
         pc \in {"wasiFile", "wasiPackage"}, next \in {"wasiPackage", "native", "end"}
  PROVE  Reporting'
<1>1. env.flavor # "unknown" /\ env' = env /\ pc' \notin {"thrown", "reported"}
  BY DEF TryWasi, Reporting
<1>2. c \in Candidate
  BY WasiTypes
<1>3. wasiErrors' = wasiErrors \/ wasiErrors' = Append(wasiErrors, c)
  BY DEF TryWasi
<1>4. wasiErrors' \in Seq(Candidate)
  BY <1>2, <1>3 DEF Reporting
<1> QED
  BY <1>1, <1>4, StillReporting

\* Nobody throws what has not failed.
LEMMA FinishReporting == LInv /\ Reporting /\ Finish => Reporting'
<1> SUFFICES ASSUME LInv, Reporting, Finish PROVE Reporting'
  OBVIOUS
<1>1. /\ pc = "end" /\ env' = env /\ wasiErrors' = wasiErrors /\ loadErrors' = loadErrors
      /\ binding' = binding /\ env.flavor # "unknown"
  BY DEF Finish, Reporting
<1>2. Strict' = Strict /\ Reportable' = Reportable
  BY <1>1 DEF Strict, Reportable
<1>3. wasiErrors \in Seq(Candidate)
  BY DEF Reporting
<1>4. CASE pc' = "done"
  BY <1>1, <1>3, <1>4, StillReporting
<1>5. CASE pc' = "thrown" /\ thrown' = Chain(Reportable)
  <2>1. thrown' = Chain(Reportable')
    BY <1>2, <1>5
  <2> QED
    BY <1>1, <1>3, <1>5, <2>1 DEF Reporting, Chain
<1>6. CASE Strict /\ binding.kind \notin Wasi /\ Throw(wasiErrors)
  <2>1. binding = Nothing
    BY <1>1, <1>6 DEF LInv, BindingAllowed, Allowed
  <2>2. Reportable = wasiErrors
    BY <1>1, <1>6, <2>1 DEF Reportable
  <2> QED
    BY <1>5, <1>6, <2>2 DEF Throw
<1>7. CASE ~Strict /\ binding = Nothing /\ Throw(loadErrors)
  <2>1. Reportable = loadErrors
    BY <1>1, <1>7 DEF Reportable
  <2> QED
    BY <1>5, <1>7, <2>1 DEF Throw
<1>8. CASE binding # Nothing /\ Throw(<<Itself>>)
  <2>1. Reportable = <<Itself>>
    BY <1>8 DEF Reportable
  <2> QED
    BY <1>5, <1>8, <2>1 DEF Throw
<1> QED
  BY <1>4, <1>6, <1>7, <1>8 DEF Finish

\* createNativeLoadError turns the chain back into what was tried.
LEMMA ReportReporting == LInv /\ Reporting /\ Report => Reporting'
<1> SUFFICES ASSUME LInv, Reporting, Report PROVE Reporting'
  OBVIOUS
<1>1. /\ pc = "thrown" /\ pc' = "reported" /\ env' = env /\ wasiErrors' = wasiErrors
      /\ loadErrors' = loadErrors /\ binding' = binding
      /\ attempts' = NativeLoadAttempts(thrown) /\ wasiErrors \in Seq(Candidate)
  BY DEF Report, Reporting
<1>2. Strict' = Strict /\ Reportable' = Reportable
  BY <1>1 DEF Strict, Reportable
<1>3. PICK errors : errors = Reportable
  OBVIOUS
<1>4. FirstOf(errors, attempts')
  <2>1. attempts' = NativeLoadAttempts(Chain(errors))
    BY <1>1, <1>3 DEF Reporting
  <2>2. \E S : errors \in Seq(S)
    BY <1>3, ReportableType
  <2> QED
    BY <2>1, <2>2, AttemptsOfChain
<1>5. FirstOf(Reportable, attempts)'
  BY <1>2, <1>3, <1>4 DEF FirstOf
<1> QED
  BY <1>1, <1>5 DEF Reporting

\* Every step keeps that.
LEMMA NextReporting == LInv /\ Reporting /\ [LoaderNext]_loaderVars => Reporting'
<1> SUFFICES ASSUME LInv, Reporting, [LoaderNext]_loaderVars PROVE Reporting'
  OBVIOUS
<1>1. CASE CheckFlavor
  <2>1. CASE env.flavor = "unknown" /\ Throw(<<Itself>>)
    <3>1. Reportable' = <<Itself>>
      BY <1>1, <2>1 DEF CheckFlavor, Reportable
    <3>2. thrown' = Chain(Reportable') /\ pc' = "thrown" /\ wasiErrors' \in Seq(Candidate)
      BY <1>1, <2>1, <3>1 DEF CheckFlavor, Throw, Reporting
    <3> QED
      BY <3>2 DEF Reporting, Chain
  <2>2. CASE env.flavor # "unknown" /\ pc' = IF ForceWasi THEN "wasiFile" ELSE "native"
    <3>1. pc' \notin {"thrown", "reported"} /\ env' = env /\ wasiErrors' \in Seq(Candidate)
      BY <1>1, <2>2 DEF CheckFlavor, Reporting
    <3> QED
      BY <2>2, <3>1, StillReporting
  <2> QED
    BY <1>1, <2>1, <2>2 DEF CheckFlavor
<1>2. CASE RequireNative \/ Try \/ NativeFailed
  <2>1. /\ pc \in {"native", "try"} /\ pc' \notin {"thrown", "reported"} /\ env' = env
        /\ wasiErrors' = wasiErrors
    BY <1>2 DEF RequireNative, Try, NativeFailed
  <2>2. env.flavor # "unknown" /\ wasiErrors' \in Seq(Candidate)
    BY <2>1 DEF Reporting
  <2> QED
    BY <2>1, <2>2, StillReporting
<1>3. CASE TryWasiFile
  BY <1>3, WasiReporting DEF TryWasiFile
<1>4. CASE TryWasiPackage
  <2>1. PICK next \in {"native", "end"} : pc = "wasiPackage" /\ TryWasi(WasiPackage, next)
    BY <1>4 DEF TryWasiPackage
  <2> QED
    BY <2>1, WasiReporting
<1>5. CASE Finish
  BY <1>5, FinishReporting
<1>6. CASE Report
  BY <1>6, ReportReporting
<1>7. CASE UNCHANGED loaderVars
  <2>1. Strict' = Strict /\ Reportable' = Reportable
    BY <1>7 DEF loaderVars, Strict, Reportable
  <2>2. Chain(Reportable)' = Chain(Reportable)
    BY <2>1 DEF Chain
  <2>3. FirstOf(Reportable, attempts)' <=> FirstOf(Reportable, attempts)
    BY <1>7, <2>1 DEF FirstOf, loaderVars
  <2> QED
    BY <1>7, <2>2, <2>3 DEF Reporting, loaderVars
<1> QED
  BY <1>1, <1>2, <1>3, <1>4, <1>5, <1>6, <1>7 DEF LoaderNext

\* The error that index.js throws lists what was tried, in that order and up to
\* the limit, though it travels as a chain of causes that is walked from its
\* end (createLoadErrorChain, collectNativeLoadAttempts).
THEOREM AttemptsAreReported == LoaderSpec => []AttemptsReported
<1>1. Reporting => AttemptsReported
  BY DEF Reporting, AttemptsReported, Reportable, FirstOf
<1>2. LInv /\ Reporting /\ [LoaderNext]_loaderVars => Reporting'
  BY NextReporting
<1> QED
  BY <1>1, <1>2, InitReporting, LInvHolds, PTL DEF LoaderSpec

-----------------------------------------------------------------------------
(* The command line program.                                               *)

-----------------------------------------------------------------------------
(* The smoke test.                                                         *)

\* The route has been validated.
OnRoute == {"probe", "before", "server", "request", "stats", "stopFailed"}
\* The counters have been read.
Counted == {"server", "request", "stats", "stopFailed"}

\* The servers of the first k smokes had their request by zero-copy receive.
Measured(k) ==
  /\ k <= Len(smokes)
  /\ \A n \in 1 .. k : smokes[n] = "passed" /\ Servers[n] \in through

\* No server with a place in the report runs.
AllStopped == \A n \in 1 .. Len(smokes) : smokes[n] # "running" /\ running # Servers[n]

SmokeInv ==
  /\ smokes \in Seq({"running", "passed", "failed"}) /\ Len(smokes) <= 3
  /\ through \subseteq ServerNames
  /\ stage = "route" => config.interface
  /\ stage \in OnRoute => config.interface /\ config.host = "routed"
  /\ stage \in Counted => (config.requireStats => before)
  /\ stage \in {"idle", "start", "route", "probe", "before"} =>
       smokes = <<>> /\ running = "none"
  /\ stage = "server" => Measured(Len(smokes)) /\ running = "none"
  /\ stage \in {"request", "stats", "stopFailed"} =>
       /\ Len(smokes) >= 1
       /\ Measured(Len(smokes) - 1)
       /\ running = Servers[Len(smokes)]
  /\ status # "running" => stage \in {"finally", "settled"}
  /\ stage \in {"finally", "settled"} => AllStopped
  /\ PassedIsMeasured

LEMMA ThreeServers ==
  /\ Len(Servers) = 3
  /\ Servers[1] = "http" /\ Servers[2] = "native-echo" /\ Servers[3] = "programmable-tcp"
  /\ ServerNames = {"http", "native-echo", "programmable-tcp"}
<1>1. /\ Len(Servers) = 3
      /\ Servers[1] = "http" /\ Servers[2] = "native-echo" /\ Servers[3] = "programmable-tcp"
  BY DEF Servers
<1>2. 1 .. 3 = {1, 2, 3}
  OBVIOUS
<1> HIDE DEF Servers
<1> QED
  BY <1>1, <1>2 DEF ServerNames

LEMMA InitSmoke == SmokeInit => SmokeInv
  BY DEF SmokeInit, SmokeInv, OnRoute, Counted, PassedIsMeasured, AllStopped

LEMMA SmokeQuiet == SmokeInv /\ UNCHANGED smokeVars => SmokeInv'
<1> SUFFICES ASSUME SmokeInv, UNCHANGED smokeVars PROVE SmokeInv'
  OBVIOUS
<1>1. \A k : Measured(k)' = Measured(k)
  BY DEF Measured, smokeVars
<1>2. PassedIsMeasured'
  BY DEF SmokeInv, PassedIsMeasured, smokeVars
<1>3. AllStopped' = AllStopped
  BY DEF AllStopped, smokeVars
<1> QED
  BY <1>1, <1>2, <1>3 DEF SmokeInv, smokeVars

LEMMA StartSmokeStep == ASSUME SmokeInv, NEW given, SmokeStart(given) PROVE SmokeInv'
<1>1. /\ stage' \in {"settled", "start"} /\ stage = "idle" /\ status' = status
      /\ status = "running" /\ smokes' = smokes /\ through' = through /\ running' = running
      /\ smokes = <<>>
  BY DEF SmokeInv, SmokeStart
<1>2. AllStopped'
  BY <1>1 DEF AllStopped
<1> QED
  BY <1>1, <1>2 DEF SmokeInv, OnRoute, Counted, PassedIsMeasured

LEMMA NoneIsStopped == smokes' = <<>> => AllStopped'
  BY DEF AllStopped

\* Failing is allowed once the servers in the report are stopped.
LEMMA FailsStep ==
  ASSUME SmokeInv, SmokeFails, UNCHANGED <<config, before, through>>,
         smokes' \in Seq({"running", "passed", "failed"}), Len(smokes') <= 3,
         AllStopped'
  PROVE  SmokeInv'
  BY DEF SmokeInv, SmokeFails, OnRoute, Counted, PassedIsMeasured

LEMMA EarlyStep ==
  ASSUME SmokeInv, CheckConfig \/ ValidateRoute \/ Probe
  PROVE  SmokeInv'
<1>1. CASE SmokeFails
  <2>1. /\ UNCHANGED <<config, smokes, running, before, through>>
        /\ stage \in {"start", "route", "probe"}
    BY DEF CheckConfig, ValidateRoute, Probe, Quiet
  <2>2. AllStopped'
    BY <2>1, NoneIsStopped DEF SmokeInv
  <2> QED
    BY <1>1, <2>1, <2>2, FailsStep DEF SmokeInv
<1>2. CASE ~SmokeFails
  <2>1. /\ stage' \in {"finally", "route", "probe", "before"}
        /\ stage' = "finally" => status' = "skipped"
        /\ stage' # "finally" => status' = status
        /\ stage' = "route" => config.interface
        /\ stage' \in {"probe", "before"} => config.host = "routed" /\ config.interface
        /\ UNCHANGED <<config, smokes, running, before, rose, through>>
        /\ smokes = <<>> /\ running = "none" /\ status = "running"
    <3>1. CASE CheckConfig
      BY <1>2, <3>1 DEF SmokeInv, CheckConfig, Proceed, Quiet
    <3>2. CASE ValidateRoute
      <4>1. config.interface
        BY <3>2 DEF SmokeInv, ValidateRoute
      <4> QED
        BY <1>2, <3>2, <4>1 DEF SmokeInv, ValidateRoute, Proceed, Quiet
    <3>3. CASE Probe
      BY <1>2, <3>3 DEF SmokeInv, Probe, Proceed, Quiet, OnRoute
    <3> QED
      BY <3>1, <3>2, <3>3
  <2>2. AllStopped'
    BY <2>1, NoneIsStopped
  <2> QED
    BY <2>1, <2>2 DEF SmokeInv, OnRoute, Counted, PassedIsMeasured
<1> QED
  BY <1>1, <1>2

LEMMA ReadBeforeStep == SmokeInv /\ ReadBefore => SmokeInv'
<1> SUFFICES ASSUME SmokeInv, ReadBefore PROVE SmokeInv'
  OBVIOUS
<1>1. /\ stage = "before" /\ UNCHANGED <<config, smokes, running, through>>
      /\ smokes = <<>> /\ running = "none" /\ status = "running"
      /\ config.interface /\ config.host = "routed"
  BY DEF ReadBefore, SmokeInv, OnRoute
<1>2. CASE stage' = "server" /\ status' = status /\ (config.requireStats => before')
  <2>1. Measured(Len(smokes))'
    BY <1>1 DEF Measured
  <2> QED
    BY <1>1, <1>2, <2>1 DEF SmokeInv, PassedIsMeasured, OnRoute, Counted
<1>3. CASE stage' = "finally" /\ status' = "failed"
  <2>1. AllStopped'
    BY <1>1, NoneIsStopped
  <2> QED
    BY <1>1, <1>3, <2>1 DEF SmokeInv, PassedIsMeasured, OnRoute, Counted
<1> QED
  BY <1>2, <1>3 DEF ReadBefore, Proceed, SmokeFails

LEMMA StartServerStep == SmokeInv /\ StartServer => SmokeInv'
<1> SUFFICES ASSUME SmokeInv, StartServer PROVE SmokeInv'
  OBVIOUS
<1>1. /\ stage = "server" /\ Len(smokes) < 3
      /\ UNCHANGED <<config, before, rose, through>>
      /\ config.interface /\ config.host = "routed" /\ (config.requireStats => before)
      /\ status = "running" /\ Measured(Len(smokes))
      /\ smokes \in Seq({"running", "passed", "failed"})
      /\ through \subseteq ServerNames
  BY ThreeServers DEF StartServer, SmokeInv, OnRoute, Counted
<1>2. CASE /\ running' = Servers[Len(smokes) + 1] /\ smokes' = Append(smokes, "running")
           /\ stage' = "request" /\ status' = status
  <2>1. /\ smokes' \in Seq({"running", "passed", "failed"})
        /\ Len(smokes') = Len(smokes) + 1
        /\ \A n \in 1 .. Len(smokes) : smokes'[n] = smokes[n]
    BY <1>1, <1>2
  <2>2. Measured(Len(smokes) - 1)'
    BY <1>1, <2>1 DEF Measured
  <2>3. running' = Servers[Len(smokes')]
    BY <1>2, <2>1
  <2> QED
    BY <1>1, <1>2, <2>1, <2>2, <2>3 DEF SmokeInv, PassedIsMeasured, OnRoute, Counted
<1>3. CASE /\ SmokeFails /\ UNCHANGED smokes
           /\ running' \in {running, Servers[Len(smokes) + 1]}
  <2>1. \A n \in 1 .. Len(smokes) : smokes[n] = "passed" /\ running' # Servers[n]
    <3>1. running = "none"
      BY <1>1 DEF SmokeInv
    <3>2. Len(smokes) \in {0, 1, 2}
      <4>1. \A k \in Nat : k < 3 => k \in {0, 1, 2}
        OBVIOUS
      <4>2. Len(smokes) \in Nat
        BY <1>1
      <4> QED
        BY <1>1, <4>1, <4>2
    <3> QED
      BY <1>1, <1>3, <3>1, <3>2, ThreeServers DEF Measured
  <2>2. AllStopped'
    BY <1>3, <2>1 DEF AllStopped
  <2> QED
    BY <1>1, <1>3, <2>2, FailsStep DEF SmokeInv
<1> QED
  BY <1>2, <1>3 DEF StartServer, Proceed

LEMMA ServerUnderWay ==
  ASSUME SmokeInv, stage \in {"request", "stats", "stopFailed"}
  PROVE  Len(smokes) \in 1 .. 3 /\ running \in ServerNames
<1>1. /\ smokes \in Seq({"running", "passed", "failed"}) /\ Len(smokes) <= 3
      /\ Len(smokes) >= 1 /\ running = Servers[Len(smokes)]
  BY DEF SmokeInv
<1>2. Len(smokes) \in Nat
  BY <1>1
<1>3. Len(smokes) \in {1, 2, 3}
  <2>1. \A k \in Nat : k >= 1 /\ k <= 3 => k \in {1, 2, 3}
    OBVIOUS
  <2> QED
    BY <1>1, <1>2, <2>1
<1>4. Len(smokes) \in 1 .. 3
  BY <1>3
<1>5. running \in {Servers[1], Servers[2], Servers[3]}
  BY <1>1, <1>3
<1> QED
  BY <1>4, <1>5, ThreeServers

\* The answer of a server, or none.
LEMMA AnswerStep ==
  ASSUME SmokeInv, Answer \/ NoAnswer \/ Crash
  PROVE  SmokeInv'
<1>1. /\ stage = "request" /\ stage' \in {"stats", "stopFailed", "crashed"}
      /\ UNCHANGED <<config, status, smokes, before>>
      /\ stage' # "crashed" => running' = running
      /\ through \subseteq through' /\ through' \subseteq through \cup {running}
  BY DEF Answer, NoAnswer, Crash
<1>2. /\ Len(smokes) \in 1 .. 3 /\ running = Servers[Len(smokes)]
      /\ Measured(Len(smokes) - 1) /\ status = "running"
  BY <1>1, ServerUnderWay DEF SmokeInv
<1>3. running \in ServerNames
  BY <1>1, ServerUnderWay
<1>4. Measured(Len(smokes) - 1)'
  BY <1>1, <1>2 DEF Measured
<1> QED
  BY <1>1, <1>2, <1>3, <1>4 DEF SmokeInv, PassedIsMeasured, OnRoute, Counted

LEMMA StopStep ==
  ASSUME SmokeInv, stage \in {"stats", "stopFailed"},
         NEW result \in {"passed", "failed"}, StopServer(result)
  PROVE  /\ smokes' \in Seq({"running", "passed", "failed"}) /\ Len(smokes') = Len(smokes)
         /\ Len(smokes) \in 1 .. 3
         /\ smokes'[Len(smokes)] = result
         /\ \A n \in 1 .. (Len(smokes) - 1) : smokes'[n] = smokes[n]
<1>1. Len(smokes) \in 1 .. 3 /\ smokes \in Seq({"running", "passed", "failed"})
  BY ServerUnderWay DEF SmokeInv
<1>2. smokes' = [smokes EXCEPT ![Len(smokes)] = result]
  BY DEF StopServer
<1> QED
  BY <1>1, <1>2

LEMMA CheckStatsStep == SmokeInv /\ (CheckStats \/ StopFailed) => SmokeInv'
<1> SUFFICES ASSUME SmokeInv, CheckStats \/ StopFailed PROVE SmokeInv'
  OBVIOUS
<1>1. CASE SmokeFails /\ StopServer("failed") /\ stage \in {"stats", "stopFailed"}
  <2>1. /\ smokes' \in Seq({"running", "passed", "failed"}) /\ Len(smokes') = Len(smokes)
        /\ Len(smokes) \in 1 .. 3 /\ smokes'[Len(smokes)] = "failed"
        /\ \A n \in 1 .. (Len(smokes) - 1) : smokes'[n] = smokes[n]
    BY <1>1, StopStep
  <2>2. Measured(Len(smokes) - 1)
    BY <1>1 DEF SmokeInv
  <2>3. \A n \in 1 .. Len(smokes') : smokes'[n] # "running"
    BY <2>1, <2>2 DEF Measured
  <2>4. running' = "none" /\ \A n \in 1 .. 3 : Servers[n] # "none"
    BY <1>1, ThreeServers DEF StopServer
  <2>5. AllStopped'
    BY <2>1, <2>3, <2>4 DEF AllStopped
  <2>6. Len(smokes') <= 3
    BY <2>1
  <2>7. UNCHANGED <<config, before, through>>
    BY <1>1 DEF StopServer
  <2> QED
    BY <1>1, <2>1, <2>5, <2>6, <2>7, FailsStep
<1>2. CASE stage = "stats" /\ StatsPass /\ Proceed("server") /\ StopServer("passed")
  <2>1. /\ smokes' \in Seq({"running", "passed", "failed"}) /\ Len(smokes') = Len(smokes)
        /\ Len(smokes) \in 1 .. 3
        /\ smokes'[Len(smokes)] = "passed"
        /\ \A n \in 1 .. (Len(smokes) - 1) : smokes'[n] = smokes[n]
    BY <1>2, StopStep
  <2>2. Measured(Len(smokes) - 1) /\ running = Servers[Len(smokes)] /\ running \in through
    BY <1>2 DEF SmokeInv, StatsPass
  <2>3. through' = through
    BY <1>2 DEF StopServer
  <2>4. \A n \in 1 .. Len(smokes') : smokes'[n] = "passed" /\ Servers[n] \in through'
    BY <2>1, <2>2, <2>3 DEF Measured
  <2>5. Measured(Len(smokes))'
    BY <2>1, <2>4 DEF Measured
  <2>6. /\ stage' = "server" /\ status' = status /\ status = "running" /\ running' = "none"
        /\ UNCHANGED <<config, before>>
        /\ config.interface /\ config.host = "routed" /\ (config.requireStats => before)
    BY <1>2 DEF Proceed, StopServer, SmokeInv, OnRoute, Counted
  <2> QED
    BY <2>1, <2>3, <2>5, <2>6 DEF SmokeInv, PassedIsMeasured, OnRoute, Counted
<1> QED
  BY <1>1, <1>2 DEF CheckStats, StopFailed

LEMMA ReadAfterStep == SmokeInv /\ ReadAfter => SmokeInv'
<1> SUFFICES ASSUME SmokeInv, ReadAfter PROVE SmokeInv'
  OBVIOUS
<1>1. /\ stage = "server" /\ Len(smokes) = 3 /\ Measured(3) /\ running = "none"
      /\ config.interface /\ config.host = "routed" /\ (config.requireStats => before)
      /\ through \subseteq ServerNames /\ smokes \in Seq({"running", "passed", "failed"})
      /\ UNCHANGED <<config, smokes, running, before, rose, through>>
  BY ThreeServers DEF ReadAfter, SmokeInv, OnRoute, Counted, Quiet
<1>2. AllStopped'
  <2>1. \A n \in 1 .. 3 : Servers[n] # "none" /\ smokes[n] = "passed"
    BY <1>1, ThreeServers DEF Measured
  <2> QED
    BY <1>1, <2>1 DEF AllStopped
<1>3. CASE stage' = "finally" /\ status' = "passed" /\ (before => rose)
  <2>1. /\ smokes[1] = "passed" /\ smokes[2] = "passed" /\ smokes[3] = "passed"
        /\ Servers[1] \in through /\ Servers[2] \in through /\ Servers[3] \in through
    BY <1>1 DEF Measured
  <2>2. through = ServerNames
    BY <1>1, <2>1, ThreeServers
  <2>3. smokes = [n \in 1 .. Len(Servers) |-> "passed"]
    <3>1. \A n \in 1 .. 3 : smokes[n] = "passed"
      BY <1>1 DEF Measured
    <3> QED
      BY <1>1, <3>1, ThreeServers
  <2>4. PassedIsMeasured'
    BY <1>1, <1>3, <2>2, <2>3 DEF PassedIsMeasured
  <2> QED
    BY <1>1, <1>2, <1>3, <2>4 DEF SmokeInv, OnRoute, Counted
<1>4. CASE SmokeFails
  BY <1>1, <1>2, <1>4, FailsStep DEF SmokeInv
<1> QED
  BY <1>3, <1>4 DEF ReadAfter

LEMMA FinallyStep == SmokeInv /\ Finally => SmokeInv'
<1> SUFFICES ASSUME SmokeInv, Finally PROVE SmokeInv'
  OBVIOUS
<1>1. /\ stage' = "settled"
      /\ UNCHANGED <<config, status, smokes, running, before, rose, through>>
      /\ stage = "finally"
  BY DEF Finally
<1>2. AllStopped'
  BY <1>1 DEF SmokeInv, AllStopped
<1> QED
  BY <1>1, <1>2 DEF SmokeInv, PassedIsMeasured, OnRoute, Counted

LEMMA SmokeNextStep == SmokeInv /\ SmokeNext => SmokeInv'
  BY EarlyStep, ReadBeforeStep, StartServerStep, AnswerStep, CheckStatsStep,
     ReadAfterStep, FinallyStep DEF SmokeNext, SmokeStep

\* The program itself only starts the test and waits for it.
LEMMA CliLeavesSmoke == ASSUME SmokeInv, CliNext PROVE SmokeInv'
<1>1. CASE Smoke
  BY <1>1, StartSmokeStep, SmokeQuiet DEF Smoke
<1>2. CASE UNCHANGED smokeVars
  BY <1>2, SmokeQuiet
<1> QED
  BY <1>1, <1>2 DEF CliNext, Parse, Load, Capabilities, Doctor, PrintDoctor, Require,
     ZcrxProbe, Settle

LEMMA SmokeInvHolds == Spec => []SmokeInv
<1>1. Init => SmokeInv
  BY InitSmoke DEF Init
<1>2. SmokeInv /\ [Next]_vars => SmokeInv'
  BY SmokeNextStep, CliLeavesSmoke, SmokeQuiet DEF Next, vars
<1> QED
  BY <1>1, <1>2, PTL DEF Spec

\* A smoke test whose report says "passed" had every server's request by
\* zero-copy receive on the validated route, has stopped every server, and
\* saw the queue's counters rise where they could be read.
THEOREM PassedMeansMeasured == Spec => []PassedIsMeasured
<1>1. SmokeInv => PassedIsMeasured
  BY DEF SmokeInv
<1> QED
  BY <1>1, SmokeInvHolds, PTL

\* Whatever fails after a smoke is in the report, its server is stopped when
\* the next one starts and when the test has ended.
THEOREM ReportedServersStopped == Spec => []ReportedAreStopped
<1>1. SmokeInv => ReportedAreStopped
  <2> SUFFICES ASSUME SmokeInv, stage \in {"server", "finally", "settled"}
               PROVE  AllStopped
    BY DEF ReportedAreStopped, AllStopped
  <2>1. CASE stage = "server"
    <3>1. /\ Measured(Len(smokes)) /\ running = "none" /\ Len(smokes) <= 3
          /\ Len(smokes) \in Nat
      BY <2>1 DEF SmokeInv
    <3>2. \A n \in 1 .. 3 : Servers[n] # "none"
      BY ThreeServers
    <3> QED
      BY <3>1, <3>2 DEF AllStopped, Measured
  <2> QED
    BY <2>1 DEF SmokeInv
<1> QED
  BY <1>1, SmokeInvHolds, PTL

-----------------------------------------------------------------------------
(* The exit status.                                                        *)

Good == {"passed", "skipped"}

\* How the promise of the smoke test goes with its report.
Outcome ==
  /\ stage \notin {"finally", "settled"} => rejected = "none"
  /\ stage = "finally" => (rejected = "none" <=> status \in Good)
  /\ stage = "settled" /\ rejected = "none" => status \in Good
  /\ stage = "settled" /\ rejected # "none" /\ status \in Good =>
       config.reportPath = "broken"

\* Where the program is, and for which command.
OnTheWay ==
  /\ opts.requireReady => opts.command \in {"doctor", "zcrx-probe"}
  /\ step = "load" => opts.command \in {"capabilities", "doctor", "zcrx-probe", "zcrx-smoke"}
  /\ step \in {"capabilities", "doctor", "zcrx-probe", "zcrx-smoke"} => opts.command = step
  /\ step = "printDoctor" => opts.command = "doctor"
  /\ step = "await" => opts.command = "zcrx-smoke"
  /\ step = "require" =>
       opts.command \in {"doctor", "zcrx-probe"} /\ printed \in {"text", "json"}
  /\ step \notin {"await", "exit"} => stage = "idle"
  /\ step = "exit" => stage \in {"idle", "settled", "crashed"}

\* doctor's ready, verdict, blockers and probes say the same.
DoctorSays ==
  opts.command = "doctor" /\ report # NoReport =>
    /\ report.ready <=> report.blockers = {}
    /\ report.ready <=> report.verdict \in {"ready", "ready-zcrx-optional-blocked"}
    /\ report.ready /\ opts.requireZcrx => report.probes = <<TRUE>>

CliInv == SmokeInv /\ Outcome /\ OnTheWay /\ DoctorSays /\ ExitTells

LEMMA InitCliInv == Init => CliInv
<1> SUFFICES ASSUME Init PROVE CliInv
  OBVIOUS
<1>1. SmokeInv
  BY InitSmoke DEF Init
<1>2. Outcome
  BY DEF Init, SmokeInit, Outcome
<1>3. opts.requireReady => opts.command \in {"doctor", "zcrx-probe"}
  BY DEF Init, Sensible
<1>4. step = "parse" /\ stage = "idle" /\ report = NoReport
  BY DEF Init, SmokeInit
<1> QED
  BY <1>1, <1>2, <1>3, <1>4 DEF CliInv, OnTheWay, DoctorSays, ExitTells

LEMMA SmokeOutcome == ASSUME CliInv, SmokeNext PROVE Outcome' /\ stage' # "idle" /\ stage # "idle"
<1>1. SmokeInv /\ Outcome
  BY DEF CliInv
<1>2. CASE SmokeFails
  <2>1. stage # "idle"
    BY <1>2 DEF SmokeNext, SmokeStep, CheckConfig, ValidateRoute, Probe, ReadBefore,
       StartServer, NoAnswer, CheckStats, StopFailed, ReadAfter, Finally, Answer, Crash
  <2> QED
    BY <1>2, <2>1 DEF SmokeFails, Outcome, Good
<1>3. CASE Finally
  BY <1>1, <1>3 DEF Finally, Outcome, Good
<1>4. CASE CheckConfig /\ ~SmokeFails
  BY <1>1, <1>4 DEF CheckConfig, Proceed, Outcome, Good
<1>5. CASE ReadAfter /\ ~SmokeFails
  BY <1>1, <1>5 DEF ReadAfter, Outcome, Good
<1>6. CASE Answer \/ NoAnswer \/ Crash
  BY <1>1, <1>6 DEF Answer, NoAnswer, Crash, Outcome
<1>7. CASE /\ ~SmokeFails
           /\ ValidateRoute \/ Probe \/ ReadBefore \/ StartServer \/ CheckStats \/ StopFailed
  <2>1. /\ stage \in {"route", "probe", "before", "server", "stats"}
        /\ stage' \in {"probe", "before", "server", "request"}
        /\ rejected' = rejected
    BY <1>7 DEF ValidateRoute, Probe, ReadBefore, StartServer, CheckStats, StopFailed, Proceed
  <2> QED
    BY <1>1, <2>1 DEF Outcome
<1> QED
  BY <1>2, <1>3, <1>4, <1>5, <1>6, <1>7 DEF SmokeNext, SmokeStep

\* A step of the test; the program waits for it.
LEMMA SmokeKeepsCli == ASSUME CliInv, SmokeNext, UNCHANGED cliVars PROVE CliInv'
<1>1. SmokeInv' /\ Outcome' /\ stage # "idle" /\ stage' # "idle"
  BY SmokeNextStep, SmokeOutcome DEF CliInv
<1>2. step = "await" /\ step' = "await"
  <2>1. stage \notin {"idle", "settled", "crashed"}
    BY <1>1 DEF SmokeNext, SmokeStep, CheckConfig, ValidateRoute, Probe, ReadBefore,
       StartServer, NoAnswer, CheckStats, StopFailed, ReadAfter, Finally, Answer, Crash
  <2> QED
    BY <2>1 DEF CliInv, OnTheWay, cliVars
<1>3. OnTheWay'
  BY <1>2 DEF CliInv, OnTheWay, cliVars
<1>4. DoctorSays'
  BY DEF CliInv, DoctorSays, cliVars
<1> QED
  BY <1>1, <1>2, <1>3, <1>4 DEF CliInv, ExitTells

\* Steps before the program ends, that leave the test and the report alone.
LEMMA StaysOnTheWay ==
  ASSUME CliInv, UNCHANGED smokeVars, step' # "exit", OnTheWay', DoctorSays'
  PROVE  CliInv'
<1>1. SmokeInv'
  BY SmokeQuiet DEF CliInv
<1>2. Outcome'
  BY DEF CliInv, Outcome, smokeVars
<1> QED
  BY <1>1, <1>2 DEF CliInv, ExitTells

\* Ending before the smoke test has started.
LEMMA EarlyExit ==
  ASSUME CliInv, UNCHANGED smokeVars, UNCHANGED <<opts, report>>, stage = "idle",
         NEW code, Exit(code),
         code = 0 /\ opts.requireReady => opts.help \/ report.ready,
         code = 2 => opts.requireReady /\ ~report.ready /\ printed' \in {"text", "json"}
  PROVE  CliInv'
<1>1. SmokeInv' /\ status = "running"
  BY SmokeQuiet DEF CliInv, SmokeInv
<1>2. Outcome'
  BY DEF CliInv, Outcome, smokeVars
<1>3. /\ step' = "exit" /\ exit' = code /\ opts' = opts /\ report' = report
      /\ stage' = stage /\ status' = status
  BY DEF Exit, smokeVars
<1>4. OnTheWay'
  BY <1>3 DEF CliInv, OnTheWay
<1>5. DoctorSays'
  BY <1>3 DEF CliInv, DoctorSays
<1>6. ExitTells'
  BY <1>1, <1>3, <1>5 DEF ExitTells, DoctorSays
<1> QED
  BY <1>1, <1>2, <1>4, <1>5, <1>6 DEF CliInv

LEMMA ParseStep == ASSUME CliInv, Parse PROVE CliInv'
<1>1. /\ step = "parse" /\ stage = "idle" /\ UNCHANGED smokeVars
      /\ UNCHANGED <<opts, report, printed>>
  BY DEF Parse, CliInv, OnTheWay
<1>2. ASSUME NEW code \in {0, 64}, Exit(code), code = 0 => opts.help \/ ~opts.requireReady
      PROVE  CliInv'
  BY <1>1, <1>2, EarlyExit
<1>3. CASE opts.command \in {"help", "version", "unknown"}
  <2>1. ~opts.requireReady
    BY <1>3 DEF CliInv, OnTheWay
  <2>2. Exit(0) \/ Exit(64)
    BY <1>3 DEF Parse, CliError
  <2> QED
    BY <1>2, <2>1, <2>2
<1>4. CASE opts.command \notin {"help", "version", "unknown"}
  <2>1. CASE Exit(64)
    BY <1>2, <2>1
  <2>2. CASE opts.help /\ Exit(0)
    BY <1>2, <2>2
  <2>3. CASE Continue("load") /\ opts.command \in {"capabilities", "doctor", "zcrx-probe", "zcrx-smoke"}
    <3>1. OnTheWay' /\ DoctorSays'
      BY <1>1, <2>3 DEF Continue, CliInv, OnTheWay, DoctorSays, smokeVars
    <3> QED
      BY <1>1, <2>3, <3>1, StaysOnTheWay DEF Continue
  <2> QED
    BY <1>4, <2>1, <2>2, <2>3 DEF Parse, CliError
<1> QED
  BY <1>3, <1>4

LEMMA LoadStep == ASSUME CliInv, Load PROVE CliInv'
<1>1. /\ step = "load" /\ stage = "idle" /\ UNCHANGED smokeVars /\ step' = opts.command
      /\ opts.command \in {"capabilities", "doctor", "zcrx-probe", "zcrx-smoke"}
      /\ UNCHANGED <<opts, report, printed>>
  BY DEF Load, CliInv, OnTheWay, Continue
<1>2. OnTheWay' /\ DoctorSays'
  BY <1>1 DEF CliInv, OnTheWay, DoctorSays, smokeVars
<1> QED
  BY <1>1, <1>2, StaysOnTheWay

LEMMA CapabilitiesStep == ASSUME CliInv, Capabilities PROVE CliInv'
<1>1. /\ stage = "idle" /\ opts.command = "capabilities" /\ UNCHANGED smokeVars
      /\ UNCHANGED <<opts, report>> /\ ~opts.requireReady
  BY DEF Capabilities, CliInv, OnTheWay
<1>2. PICK code \in {0, 1} : Exit(code)
  BY DEF Capabilities, OtherError
<1> QED
  BY <1>1, <1>2, EarlyExit

LEMMA DoctorStep == ASSUME CliInv, Doctor PROVE CliInv'
<1>1. /\ stage = "idle" /\ opts.command = "doctor" /\ UNCHANGED smokeVars
      /\ UNCHANGED opts /\ step' = "printDoctor"
  BY DEF Doctor, CliInv, OnTheWay, Continue
<1>2. OnTheWay'
  BY <1>1 DEF CliInv, OnTheWay, smokeVars
<1>3. CASE report' = NativeLoadReport
  <2>1. /\ report'.ready = FALSE /\ report'.verdict = "native-load-blocked"
        /\ report'.blockers = {"native"}
    BY <1>3 DEF NativeLoadReport, NoReport
  <2>2. DoctorSays'
    BY <2>1 DEF DoctorSays
  <2> QED
    BY <1>1, <1>2, <2>2, StaysOnTheWay
<1>4. ASSUME NEW transport \in BOOLEAN, NEW zcrx \in BOOLEAN,
             report' = DoctorReport(transport, zcrx)
      PROVE  CliInv'
  <2>1. /\ report'.ready = (transport /\ (~opts.requireZcrx \/ zcrx))
        /\ report'.verdict = DoctorVerdict(transport, zcrx)
        /\ report'.blockers = (IF transport THEN {} ELSE {"transport"})
                                \cup (IF opts.requireZcrx /\ ~zcrx THEN {"zcrx"} ELSE {})
        /\ report'.probes = <<zcrx>>
    BY <1>4 DEF DoctorReport, NoReport
  <2>2. /\ ~transport => DoctorVerdict(transport, zcrx) = "transport-blocked"
        /\ transport /\ zcrx => DoctorVerdict(transport, zcrx) = "ready"
        /\ transport /\ ~zcrx /\ opts.requireZcrx => DoctorVerdict(transport, zcrx) = "zcrx-blocked"
        /\ transport /\ ~zcrx /\ ~opts.requireZcrx =>
             DoctorVerdict(transport, zcrx) = "ready-zcrx-optional-blocked"
    BY DEF DoctorVerdict
  <2>3. report'.ready <=> report'.blockers = {}
    BY <2>1
  <2>4. report'.ready <=> report'.verdict \in {"ready", "ready-zcrx-optional-blocked"}
    BY <2>1, <2>2
  <2>5. report'.ready /\ opts.requireZcrx => report'.probes = <<TRUE>>
    BY <2>1
  <2>6. DoctorSays'
    BY <1>1, <2>3, <2>4, <2>5 DEF DoctorSays
  <2> QED
    BY <1>1, <1>2, <2>6, StaysOnTheWay
<1> QED
  BY <1>3, <1>4 DEF Doctor

LEMMA PrintDoctorStep == ASSUME CliInv, PrintDoctor PROVE CliInv'
<1>1. /\ stage = "idle" /\ opts.command = "doctor" /\ UNCHANGED smokeVars
      /\ UNCHANGED <<opts, report>>
  BY DEF PrintDoctor, CliInv, OnTheWay
<1>2. CASE Exit(1)
  BY <1>1, <1>2, EarlyExit
<1>3. CASE PrintReport /\ Continue("require")
  <2>1. OnTheWay' /\ DoctorSays'
    BY <1>1, <1>3 DEF CliInv, OnTheWay, DoctorSays, PrintReport, Continue, smokeVars
  <2> QED
    BY <1>1, <1>3, <2>1, StaysOnTheWay DEF Continue
<1> QED
  BY <1>2, <1>3 DEF PrintDoctor, OtherError

LEMMA RequireStep == ASSUME CliInv, Require PROVE CliInv'
<1>1. /\ stage = "idle" /\ UNCHANGED smokeVars /\ UNCHANGED <<opts, report, printed>>
      /\ printed \in {"text", "json"}
  BY DEF Require, CliInv, OnTheWay
<1>2. CASE opts.requireReady /\ ~report.ready /\ Exit(2)
  BY <1>1, <1>2, EarlyExit
<1>3. CASE ~(opts.requireReady /\ ~report.ready) /\ Exit(0)
  BY <1>1, <1>3, EarlyExit
<1> QED
  BY <1>2, <1>3 DEF Require, CliError

LEMMA ZcrxProbeStep == ASSUME CliInv, ZcrxProbe PROVE CliInv'
<1>1. /\ stage = "idle" /\ opts.command = "zcrx-probe" /\ UNCHANGED smokeVars /\ UNCHANGED opts
  BY DEF ZcrxProbe, CliInv, OnTheWay
<1>2. CASE Exit(1) /\ UNCHANGED report
  BY <1>1, <1>2, EarlyExit
<1>3. CASE Exit(64) /\ UNCHANGED report
  BY <1>1, <1>3, EarlyExit
<1>4. CASE PrintReport /\ Continue("require")
  <2>1. OnTheWay' /\ DoctorSays'
    BY <1>1, <1>4 DEF CliInv, OnTheWay, DoctorSays, PrintReport, Continue, smokeVars
  <2> QED
    BY <1>1, <1>4, <2>1, StaysOnTheWay DEF Continue
<1> QED
  BY <1>2, <1>3, <1>4 DEF ZcrxProbe, OtherError, CliError

LEMMA SmokeStepInv == ASSUME CliInv, Smoke PROVE CliInv'
<1>1. /\ stage = "idle" /\ opts.command = "zcrx-smoke" /\ UNCHANGED <<opts, report>>
      /\ ~opts.requireReady /\ status = "running"
  BY DEF Smoke, CliInv, OnTheWay, SmokeInv
<1>2. ASSUME NEW code \in {0, 1, 64}, Exit(code), UNCHANGED smokeVars PROVE CliInv'
  BY <1>1, <1>2, EarlyExit
<1>3. CASE SmokeStart(opts.smoke) /\ Continue("await")
  <2>1. SmokeInv'
    BY <1>3, StartSmokeStep DEF CliInv
  <2>2. Outcome'
    BY <1>1, <1>3 DEF SmokeStart, Outcome, Good
  <2>3. OnTheWay' /\ DoctorSays' /\ ExitTells'
    BY <1>1, <1>3 DEF Continue, CliInv, OnTheWay, DoctorSays, ExitTells
  <2> QED
    BY <2>1, <2>2, <2>3 DEF CliInv
<1> QED
  BY <1>2, <1>3 DEF Smoke, CliError

LEMMA SettleStep == ASSUME CliInv, Settle PROVE CliInv'
<1>1. /\ step = "await" /\ step' = "exit" /\ UNCHANGED smokeVars /\ UNCHANGED <<opts, report>>
      /\ stage \in {"settled", "crashed"}
      /\ exit' = 0 => stage = "settled" /\ rejected = "none" /\ printed' \in {"text", "json"}
      /\ exit' \in {0, 1}
      /\ exit' = 1 => stage = "crashed" \/ rejected # "none"
  BY DEF Settle, Exit, OtherError, PrintReport
<1>2. ~opts.requireReady
  BY <1>1 DEF CliInv, OnTheWay
<1>3. SmokeInv' /\ Outcome'
  BY <1>1, SmokeQuiet DEF CliInv, Outcome, smokeVars
<1>4. DoctorSays'
  BY <1>1 DEF CliInv, DoctorSays
<1>5. OnTheWay'
  BY <1>1 DEF CliInv, OnTheWay, smokeVars
<1>6. exit' = 0 => status' \in {"passed", "skipped"} /\ printed' # "nothing"
  BY <1>1 DEF CliInv, Outcome, Good, smokeVars
<1>7. status' \in {"passed", "skipped"} /\ exit' # 0 => config'.reportPath = "broken"
  BY <1>1 DEF CliInv, SmokeInv, Outcome, Good, smokeVars
<1>8. /\ ~(exit' = 0 /\ opts'.requireReady)
      /\ exit' # 2
      /\ opts'.command = "zcrx-smoke"
  BY <1>1, <1>2 DEF CliInv, OnTheWay
<1>9. ExitTells'
  BY <1>6, <1>7, <1>8 DEF ExitTells
<1> QED
  BY <1>3, <1>4, <1>5, <1>9 DEF CliInv

LEMMA CliInvHolds == Spec => []CliInv
<1>1. CliInv /\ [Next]_vars => CliInv'
  <2> SUFFICES ASSUME CliInv, [Next]_vars PROVE CliInv'
    OBVIOUS
  <2>1. CASE CliNext
    BY <2>1, ParseStep, LoadStep, CapabilitiesStep, DoctorStep, PrintDoctorStep,
       RequireStep, ZcrxProbeStep, SmokeStepInv, SettleStep DEF CliNext
  <2>2. CASE SmokeNext /\ UNCHANGED cliVars
    BY <2>2, SmokeKeepsCli
  <2>3. CASE UNCHANGED vars
    <3>1. UNCHANGED smokeVars /\ UNCHANGED cliVars
      BY <2>3 DEF vars
    <3>2. Outcome'
      BY <3>1 DEF CliInv, Outcome, smokeVars
    <3>3. OnTheWay'
      BY <3>1 DEF CliInv, OnTheWay, cliVars, smokeVars
    <3>4. DoctorSays'
      BY <3>1 DEF CliInv, DoctorSays, cliVars
    <3>5. ExitTells'
      BY <3>1 DEF CliInv, ExitTells, cliVars, smokeVars
    <3> QED
      BY <3>1, <3>2, <3>3, <3>4, <3>5, SmokeQuiet DEF CliInv
  <2> QED
    BY <2>1, <2>2, <2>3 DEF Next
<1> QED
  BY <1>1, InitCliInv, PTL DEF Spec

\* A script can trust the exit status: 0 with --require-ready is readiness, 2
\* its printed absence, and zcrx-smoke gives 0 only to a test that passed or
\* was skipped, with its report printed.
THEOREM ExitStatusTells == Spec => []ExitTells
<1>1. CliInv => ExitTells
  BY DEF CliInv
<1> QED
  BY <1>1, CliInvHolds, PTL

-----------------------------------------------------------------------------
(* A release.                                                              *)

Complete ==
    /\ visible = Packages
    /\ \A p \in Packages : flaws[p] = {}
    /\ distTags # {}

\* A run that is busy with a package (the first one, while it builds) has
\* left the ones before it accepted.
InTurn ==
    \A r \in Runs : runs[r].pc \in {"build", "exists", "put", "recheck"} =>
        \A q \in Packages : q < runs[r].at => q \in accepted

\* A run past check-published.js.
Checked == \A r \in Runs : runs[r].pc \in {"install", "announce"} => Complete

\* What a run has seen is there, and so is something of what it takes up.
Resumes ==
    \A r \in Runs : /\ runs[r].seen \subseteq visible
                    /\ runs[r].state = "partial" => visible # {}

\* It has looked at a package: the root is the first, the last native the last.
Looked(run, p) ==
    \/ run.pc = "decide"
    \/ run.at # 1 /\ p = Root
    \/ p + 1 < run.at

\* It has seen what it has looked at, or npm has failed; nothing is missing.
Untouched(r) ==
    /\ visible = Packages
    /\ ~Publishes(r)
    /\ runs[r].pc \in {"look", "decide"} =>
         \A p \in Packages : Looked(runs[r], p) => p \in runs[r].seen \cup runs[r].failed

\* A run that began when everything was there.
FullStays == \A r \in Runs : runs[r].full => Untouched(r)

IInv ==
    /\ TypeOK /\ InTurn /\ Checked
    /\ RootLast /\ AnnouncedIsComplete /\ Resumes /\ FullStays

\* What is accepted and what is visible only grows, and a package is not
\* changed once it is accepted: Complete is stable.
Grows ==
    /\ accepted \subseteq accepted' /\ visible \subseteq visible'
    /\ distTags \subseteq distTags'
    /\ visible' \subseteq Packages
    /\ \A p \in accepted : flaws'[p] = flaws[p]
    /\ released => released'

-----------------------------------------------------------------------------
LEMMA PackagesFacts ==
    Root \in Packages /\ Natives \in Packages /\ 1 \in Packages
      /\ \A p \in Packages : p \in Nat /\ (p # Root => p + 1 \in Packages)
                             /\ (p # 1 => p - 1 \in Packages)
  BY ReleaseAssumption, SMT DEF Root, Packages

LEMMA IdleIsState == Idle \in RunState
  BY PackagesFacts DEF Idle, RunState

LEMMA InitIInv == ReleaseInit => IInv
<1> SUFFICES ASSUME ReleaseInit PROVE IInv
  OBVIOUS
<1>1. /\ \A r \in Runs : runs[r] = Idle
      /\ Idle.pc = "idle" /\ Idle.state = "unknown" /\ Idle.full = FALSE
  BY DEF ReleaseInit, Idle
<1>2. TypeOK
  BY <1>1, IdleIsState DEF ReleaseInit, TypeOK
<1>3. InTurn /\ Checked /\ Resumes /\ FullStays
  BY <1>1 DEF InTurn, Checked, Resumes, FullStays, Idle
<1>4. RootLast /\ AnnouncedIsComplete
  BY DEF ReleaseInit, RootLast, AnnouncedIsComplete
<1> QED
  BY <1>2, <1>3, <1>4 DEF IInv

-----------------------------------------------------------------------------
(* Types, and what only grows.                                             *)

LEMMA FailType ==
    ASSUME TypeOK, NEW r \in Runs, Fail(r)
    PROVE  /\ runs' \in [Runs -> RunState]
           /\ \A q \in Runs : runs'[q].pc # "idle" => runs'[q].tag \in Tags
  BY IdleIsState DEF TypeOK, Fail, Idle

\* The conjuncts of TypeOK that speak of the runs.
RunsOK == /\ runs \in [Runs -> RunState]
          /\ \A r \in Runs : runs[r].pc # "idle" => runs[r].tag \in Tags

LEMMA StepType ==
    ASSUME TypeOK, NEW r \in Runs, Step(r)
    PROVE  RunsOK'
<1> USE PackagesFacts DEF TypeOK, RunsOK
<1>1. CASE Look(r)
  <2> DEFINE p == IF runs[r].at = 1 THEN Root ELSE runs[r].at - 1
  <2>1. p \in Packages /\ (p # Natives => runs[r].at + 1 \in Packages)
    BY ReleaseAssumption, SMT DEF RunState, Packages, Root
  <2> HIDE DEF p
  <2>2. PICK answer \in View(p) :
          runs' = [runs EXCEPT
                   ![r].seen = IF answer = "exists" THEN @ \cup {p} ELSE @,
                   ![r].failed = IF answer = "error" THEN @ \cup {p} ELSE @,
                   ![r].at = IF p = Natives THEN 1 ELSE @ + 1,
                   ![r].pc = IF p = Natives THEN "decide" ELSE @]
    BY <1>1 DEF Look, p
  <2> DEFINE seen == IF answer = "exists" THEN runs[r].seen \cup {p} ELSE runs[r].seen
             failed == IF answer = "error" THEN runs[r].failed \cup {p} ELSE runs[r].failed
             at == IF p = Natives THEN 1 ELSE runs[r].at + 1
             place == IF p = Natives THEN "decide" ELSE runs[r].pc
             new == [runs[r] EXCEPT !.seen = seen, !.failed = failed, !.at = at, !.pc = place]
  <2>3. runs' = [runs EXCEPT ![r] = new]
    BY <2>2
  <2>4. runs[r] \in RunState /\ runs[r].pc = "look" /\ runs[r].tag \in Tags
    BY <1>1 DEF Look
  <2>5. /\ seen \in SUBSET Packages /\ failed \in SUBSET Packages /\ at \in Packages
        /\ place \in {"look", "decide"}
    BY <2>1, <2>4 DEF RunState
  <2> HIDE DEF seen, failed, at, place
  <2>6. new \in RunState /\ new.tag = runs[r].tag
    BY <2>4, <2>5 DEF RunState
  <2> HIDE DEF new
  <2> QED
    BY <2>3, <2>4, <2>6
<1>2. CASE Decide(r)
  <2>1. ASSUME NEW state \in {"available", "published", "partial"},
               NEW place \in {"build", "verify"}, Decided(r, state, place)
        PROVE  RunsOK'
    <3> DEFINE new == [Idle EXCEPT !.pc = place, !.tag = runs[r].tag,
                                   !.full = runs[r].full, !.state = state]
    <3>1. runs[r].tag \in Tags /\ runs[r].full \in BOOLEAN
      BY <1>2 DEF Decide, RunState
    <3>2. new \in RunState /\ new.tag = runs[r].tag
      BY <3>1, IdleIsState DEF RunState
    <3>3. runs' = [runs EXCEPT ![r] = new]
      BY <2>1 DEF Decided
    <3> HIDE DEF new
    <3> QED
      BY <3>1, <3>2, <3>3
  <2>2. Fail(r) => RunsOK'
    BY FailType
  <2> QED
    BY <1>2, <2>1, <2>2 DEF Decide
<1>3. CASE Build(r)
  BY <1>3, FailType DEF Build, Goto, RunState
<1>4. ASSUME NextPackage(r), runs[r].pc # "idle" PROVE RunsOK'
  <2> DEFINE next == IF runs[r].at = Root THEN 1 ELSE runs[r].at + 1
             place == IF runs[r].at = Root THEN "verify" ELSE "exists"
             new == [runs[r] EXCEPT !.at = next, !.attempt = 1, !.answer = "none",
                                    !.pc = place]
  <2>1. runs' = [runs EXCEPT ![r] = new]
    BY <1>4 DEF NextPackage
  <2>2. runs[r] \in RunState /\ next \in Packages
    BY DEF RunState
  <2>3. place \in {"verify", "exists"}
    OBVIOUS
  <2> HIDE DEF next, place
  <2>4. new \in RunState /\ new.tag = runs[r].tag
    BY <2>2, <2>3 DEF RunState
  <2> HIDE DEF new
  <2> QED
    BY <1>4, <2>1, <2>4
<1>5. CASE PackageExists(r)
  BY <1>4, <1>5, FailType DEF PackageExists, Goto, RunState
<1>6. CASE Put(r)
  BY <1>4, <1>6 DEF Put, Answered, RunState
<1>7. CASE Recheck(r)
  BY <1>4, <1>7, FailType DEF Recheck, MayRetry, RunState
<1>8. CASE Verify(r)
  <2>1. runs[r] \in RunState /\ runs[r].attempt + 1 \in Nat
    BY DEF RunState
  <2>2. CASE runs' = [runs EXCEPT ![r].pc = "install", ![r].attempt = 1]
    BY <1>8, <2>1, <2>2 DEF RunState, Verify
  <2>3. CASE runs' = [runs EXCEPT ![r].attempt = @ + 1]
    BY <1>8, <2>1, <2>3 DEF RunState, Verify
  <2>4. Fail(r) => RunsOK'
    BY FailType
  <2> QED
    BY <1>8, <2>2, <2>3, <2>4 DEF Verify
<1>9. CASE Install(r)
  <2>1. runs[r] \in RunState /\ runs[r].attempt + 1 \in Nat
    BY DEF RunState
  <2>2. CASE runs' = [runs EXCEPT ![r].pc = "announce"]
    BY <1>9, <2>1, <2>2 DEF RunState, Install
  <2>3. CASE runs' = [runs EXCEPT ![r].attempt = @ + 1]
    BY <1>9, <2>1, <2>3 DEF RunState, Install
  <2>4. Fail(r) => RunsOK'
    BY FailType
  <2> QED
    BY <1>9, <2>2, <2>3, <2>4 DEF Install, Goto
<1>10. CASE Announce(r)
  BY <1>10, IdleIsState DEF Announce, Idle
<1> QED
  BY <1>1, <1>2, <1>3, <1>5, <1>6, <1>7, <1>8, <1>9, <1>10 DEF Step

\* A step of a run changes the registry only by npm publish.
LEMMA StepRegistry ==
    ASSUME NEW r \in Runs, Step(r)
    PROVE  /\ visible' = visible /\ calm' = calm
           /\ \/ Put(r)
              \/ UNCHANGED <<accepted, flaws, distTags, logged>>
  BY Zenon DEF Step, Look, Decide, Build, PackageExists, Put, Recheck, Verify,
               Install, Announce, registry

LEMMA PutRegistry ==
    ASSUME TypeOK, NEW r \in Runs, Put(r)
    PROVE  /\ runs[r].at \in Packages /\ runs[r].tag \in Tags
           /\ released' = released
           /\ logged' \subseteq Packages
           /\ \/ UNCHANGED <<accepted, flaws, distTags>>
              \/ Accept(runs[r].at, runs[r].tag)
  BY DEF TypeOK, Put, RunState

LEMMA AcceptFacts ==
    ASSUME TypeOK, NEW p \in Packages, NEW tag \in Tags, Accept(p, tag)
    PROVE  /\ accepted' = accepted \cup {p} /\ p \notin accepted
           /\ flaws' \in [Packages -> SUBSET {"metadata", "files"}]
           /\ \A q \in accepted : flaws'[q] = flaws[q]
           /\ distTags \subseteq distTags' /\ distTags' \subseteq Tags
  BY DEF TypeOK, Accept, Flawed

LEMMA TypeStep == TypeOK /\ [ReleaseNext]_releaseVars => TypeOK' /\ Grows
<1> SUFFICES ASSUME TypeOK, [ReleaseNext]_releaseVars PROVE TypeOK' /\ Grows
  OBVIOUS
<1>1. ASSUME NEW r \in Runs, Step(r) PROVE TypeOK' /\ Grows
  <2>1. released' \in BOOLEAN /\ (released => released')
    BY <1>1, Zenon DEF TypeOK, Step, Look, Decide, Build, PackageExists, Put, Recheck,
                       Verify, Install, Announce
  <2>2. CASE Put(r)
    BY <1>1, <2>1, <2>2, StepType, StepRegistry, PutRegistry, AcceptFacts
    DEF TypeOK, RunsOK, Grows
  <2>3. CASE UNCHANGED <<accepted, flaws, distTags, logged>>
    BY <1>1, <2>1, <2>3, StepType, StepRegistry DEF TypeOK, RunsOK, Grows
  <2>4. Put(r) \/ UNCHANGED <<accepted, flaws, distTags, logged>>
    BY <1>1, StepRegistry
  <2> QED
    BY <2>2, <2>3, <2>4, Zenon
<1>2. ASSUME NEW r \in Runs, Die(r) PROVE TypeOK' /\ Grows
  BY <1>2, FailType DEF TypeOK, Grows, Die, registry
<1>3. ASSUME NEW r \in Runs, NEW tag \in Tags, Begin(r, tag)
      PROVE  TypeOK' /\ Grows
  <2>1. [Idle EXCEPT !.pc = "look", !.tag = tag, !.full = (visible = Packages)] \in RunState
    <3>1. (visible = Packages) \in BOOLEAN
      OBVIOUS
    <3> QED
      BY <3>1, IdleIsState DEF RunState
  <2> QED
    BY <1>3, <2>1 DEF TypeOK, Grows, Begin, registry, Idle
<1>4. ASSUME NEW p \in Packages, ShowUp(p) PROVE TypeOK' /\ Grows
  BY <1>4 DEF TypeOK, Grows, ShowUp
<1>5. CASE CalmDown
  BY <1>5 DEF TypeOK, Grows, CalmDown
<1>6. CASE UNCHANGED releaseVars
  BY <1>6 DEF TypeOK, Grows, releaseVars
<1> QED
  BY <1>1, <1>2, <1>3, <1>4, <1>5, <1>6 DEF ReleaseNext

-----------------------------------------------------------------------------
(* What the runs have seen stays true.                                     *)

LEMMA OthersStay ==
    ASSUME TypeOK, NEW r \in Runs, Step(r) \/ Die(r) \/ \E tag \in Tags : Begin(r, tag),
           NEW q \in Runs, q # r
    PROVE  runs'[q] = runs[q]
  BY Zenon DEF TypeOK, Step, Look, Decide, Decided, Build, PackageExists, Put, Recheck,
               Verify, Install, Announce, Die, Begin, Goto, Fail, NextPackage, Answered

LEMMA FailIsIdle ==
    ASSUME TypeOK, NEW r \in Runs, Fail(r)
    PROVE  /\ runs'[r].pc = "idle" /\ runs'[r].state = "unknown" /\ runs'[r].seen = {}
           /\ runs'[r].full = FALSE
  BY DEF TypeOK, Fail, Idle

LEMMA CompleteStays == TypeOK /\ Grows /\ Complete => Complete'
  BY DEF TypeOK, Grows, Complete, Packages, Root

LEMMA PassIsComplete ==
    ASSUME TypeOK, NEW tag, ChecksPass(tag, TRUE)
    PROVE  Complete
<1>1. visible = Packages
  BY DEF TypeOK, ChecksPass, PackageVerified
<1>2. ASSUME NEW p \in Packages PROVE flaws[p] = {}
  BY DEF TypeOK, ChecksPass, PackageVerified, TarballVerified
<1> QED
  BY <1>1, <1>2 DEF ChecksPass, TagVerified, Complete

\* What a run sees of a package it goes on from.
Done(r) == \A q \in Packages : q <= runs[r].at => q \in accepted'

LEMMA NextIsInTurn ==
    ASSUME TypeOK, NEW r \in Runs, NextPackage(r), Done(r)
    PROVE  /\ runs'[r].pc \in {"exists", "verify"}
           /\ runs'[r].state = runs[r].state
           /\ \A q \in Packages : q < runs'[r].at => q \in accepted'
<1> DEFINE next == IF runs[r].at = Root THEN 1 ELSE runs[r].at + 1
           place == IF runs[r].at = Root THEN "verify" ELSE "exists"
<1>1. runs[r] \in RunState
  BY DEF TypeOK
<1>2. /\ runs'[r].pc = place /\ runs'[r].state = runs[r].state
      /\ runs'[r].at = next
  BY <1>1 DEF TypeOK, NextPackage, RunState
<1>3. ASSUME NEW q \in Packages, q < next PROVE q \in accepted'
  <2>1. runs[r].at \in Nat /\ q \in Nat /\ q >= 1
    BY <1>1, PackagesFacts, SMT DEF RunState, Packages
  <2>2. q <= runs[r].at
    BY <1>3, <2>1
  <2> QED
    BY <2>2 DEF Done
<1> QED
  BY <1>2, <1>3

InTurnAt(r) ==
    runs[r].pc \in {"build", "exists", "put", "recheck"} =>
        \A q \in Packages : q < runs[r].at => q \in accepted

LEMMA StepInTurn ==
    ASSUME TypeOK, Grows, InTurn, NEW r \in Runs, Step(r)
    PROVE  InTurnAt(r)'
<1> USE DEF InTurnAt
<1>0. runs[r] \in RunState /\ (Fail(r) => InTurnAt(r)')
  BY FailIsIdle DEF TypeOK
<1>a. ASSUME NEW place, place # "idle", Goto(r, place), runs[r].pc \in {"build", "exists"}
      PROVE  InTurnAt(r)'
  BY <1>a, <1>0 DEF TypeOK, Goto, InTurn, Grows, RunState
<1>b. ASSUME NextPackage(r), runs[r].pc \in {"exists", "put", "recheck"},
             runs[r].at \in accepted'
      PROVE  InTurnAt(r)'
  <2>1. Done(r)
    <3> SUFFICES ASSUME NEW q \in Packages, q <= runs[r].at PROVE q \in accepted'
      BY DEF Done
    <3>1. CASE q = runs[r].at
      BY <1>b, <3>1
    <3>2. CASE q # runs[r].at
      <4>0. q \in Nat /\ runs[r].at \in Nat
        BY <1>0, PackagesFacts DEF RunState
      <4>1. q < runs[r].at
        BY <3>2, <4>0
      <4> QED
        BY <4>1, <1>b DEF InTurn, Grows
    <3> QED
      BY <3>1, <3>2
  <2> QED
    BY <1>b, <2>1, NextIsInTurn
<1>1. CASE Look(r)
  BY <1>0, <1>1 DEF TypeOK, Look, RunState
<1>2. CASE Decide(r)
  <2>1. ASSUME NEW state, NEW place, Decided(r, state, place) PROVE InTurnAt(r)'
    <3>1. runs'[r].at = 1
      BY <2>1 DEF TypeOK, Decided, Idle
    <3>2. \A q \in Packages : ~(q < 1)
      BY ReleaseAssumption, SMT DEF Packages, Root
    <3> QED
      BY <3>1, <3>2
  <2> QED
    BY <1>0, <1>2, <2>1 DEF Decide
<1>3. CASE Build(r)
  BY <1>0, <1>3, <1>a DEF Build
<1>5. CASE PackageExists(r)
  <2>1. \A p \in Packages : "exists" \in View(p) => p \in accepted'
    BY DEF View, TypeOK, Grows
  <2> QED
    BY <1>0, <1>5, <1>a, <1>b, <2>1 DEF PackageExists, RunState
<1>6. CASE Put(r)
  <2>1. CASE NextPackage(r) /\ Accept(runs[r].at, runs[r].tag)
    BY <1>6, <1>b, <2>1 DEF Put, Accept
  <2>2. ASSUME NEW answer, Answered(r, answer) PROVE InTurnAt(r)'
    BY <1>6, <1>0, <2>2 DEF TypeOK, Put, Answered, InTurn, Grows, RunState
  <2> QED
    BY <1>6, <2>1, <2>2 DEF Put
<1>7. CASE Recheck(r)
  <2>1. \A p \in Packages : "exists" \in View(p) => p \in accepted'
    BY DEF View, TypeOK, Grows
  <2>2. CASE runs' = [runs EXCEPT ![r].attempt = @ + 1, ![r].answer = "none",
                                  ![r].pc = "put"]
    BY <1>7, <1>0, <2>2 DEF TypeOK, Recheck, InTurn, Grows, RunState
  <2>3. ASSUME "exists" \in View(runs[r].at), NextPackage(r) PROVE InTurnAt(r)'
    BY <1>0, <1>7, <1>b, <2>1, <2>3 DEF Recheck, RunState
  <2>4. \/ Fail(r)
        \/ runs' = [runs EXCEPT ![r].attempt = @ + 1, ![r].answer = "none",
                                ![r].pc = "put"]
        \/ "exists" \in View(runs[r].at) /\ NextPackage(r)
    BY <1>7, ZenonT(30) DEF Recheck
  <2> QED
    BY <1>0, <2>2, <2>3, <2>4
<1>8. CASE Verify(r)
  <2>1. CASE runs' = [runs EXCEPT ![r].pc = "install", ![r].attempt = 1]
    BY <1>0, <2>1 DEF TypeOK, RunState
  <2>2. CASE runs' = [runs EXCEPT ![r].attempt = @ + 1]
    BY <1>0, <1>8, <2>2 DEF TypeOK, RunState, Verify
  <2> QED
    BY <1>0, <1>8, <2>1, <2>2 DEF Verify
<1>9. CASE Install(r)
  BY <1>0, <1>9 DEF TypeOK, Install, Goto, RunState
<1>10. CASE Announce(r)
  BY <1>0, <1>10 DEF TypeOK, Announce, Idle
<1> QED
  BY <1>1, <1>2, <1>3, <1>5, <1>6, <1>7, <1>8, <1>9, <1>10 DEF Step

LEMMA StepChecked ==
    ASSUME TypeOK, Grows, Checked, NEW r \in Runs, Step(r),
           runs'[r].pc \in {"install", "announce"}
    PROVE  Complete'
<1>0. ~Fail(r)
  BY FailIsIdle
<1>1. runs[r] \in RunState
  BY DEF TypeOK
<1>2. CASE Verify(r)
  <2>1. CASE runs' = [runs EXCEPT ![r].attempt = @ + 1]
    BY <1>1, <1>2, <2>1 DEF TypeOK, Verify, RunState
  <2>2. CASE ChecksPass(runs[r].tag, TRUE)
    BY <2>2, PassIsComplete, CompleteStays
  <2> QED
    BY <1>0, <1>2, <2>1, <2>2 DEF Verify
<1>3. CASE Install(r)
  BY <1>3, CompleteStays DEF Install, Checked
<1>4. ~NextPackage(r)
  <2>1. NextPackage(r) => runs'[r].pc \in {"verify", "exists"}
    BY <1>1 DEF TypeOK, NextPackage, RunState
  <2> QED
    BY <2>1
<1>5. ~Look(r) /\ ~Build(r) /\ ~PackageExists(r) /\ ~Announce(r)
  <2>0. ~Announce(r)
    BY <1>1 DEF TypeOK, Announce, Idle
  <2>1. ~Look(r)
    <3>1. Look(r) => runs'[r].pc \in {"look", "decide"}
      BY <1>1 DEF TypeOK, Look, RunState
    <3> QED
      BY <3>1
  <2>2. ~Build(r)
    BY <1>0, <1>1 DEF TypeOK, Build, Goto, RunState
  <2>3. ~PackageExists(r)
    BY <1>0, <1>1, <1>4 DEF TypeOK, PackageExists, Goto, RunState
  <2> QED
    BY <2>0, <2>1, <2>2, <2>3
<1>6. ~Put(r) /\ ~Recheck(r)
  BY <1>0, <1>1, <1>4 DEF TypeOK, Put, Recheck, Answered, RunState
<1>7. ASSUME NEW state, NEW place, place \in {"build", "verify"}, Decided(r, state, place)
      PROVE  FALSE
  <2>1. runs'[r].pc = place
    BY <1>7 DEF TypeOK, Decided, Idle
  <2> QED
    BY <1>7, <2>1
<1>8. ~Decide(r)
  BY <1>0, <1>7 DEF Decide
<1> QED
  BY <1>2, <1>3, <1>5, <1>6, <1>8 DEF Step

ResumesAt(r) == /\ runs[r].seen \subseteq visible
                /\ runs[r].state = "partial" => visible # {}

LEMMA StepResumes ==
    ASSUME TypeOK, Grows, Resumes, NEW r \in Runs, Step(r)
    PROVE  ResumesAt(r)'
<1>0. Fail(r) => ResumesAt(r)'
  BY FailIsIdle DEF ResumesAt
<1>1. runs[r] \in RunState /\ ResumesAt(r) /\ visible \subseteq visible'
  BY DEF TypeOK, Resumes, ResumesAt, Grows
<1>2. ASSUME runs'[r].seen = runs[r].seen, runs'[r].state = runs[r].state
      PROVE  ResumesAt(r)'
  BY <1>1, <1>2 DEF ResumesAt
<1>3. CASE Look(r)
  <2> DEFINE p == IF runs[r].at = 1 THEN Root ELSE runs[r].at - 1
  <2>1. PICK answer \in View(p) :
          runs' = [runs EXCEPT
                   ![r].seen = IF answer = "exists" THEN @ \cup {p} ELSE @,
                   ![r].failed = IF answer = "error" THEN @ \cup {p} ELSE @,
                   ![r].at = IF p = Natives THEN 1 ELSE @ + 1,
                   ![r].pc = IF p = Natives THEN "decide" ELSE @]
    BY <1>3 DEF Look
  <2> HIDE DEF p
  <2>2. answer = "exists" => p \in visible
    BY DEF View
  <2>3. /\ runs'[r].seen = IF answer = "exists" THEN runs[r].seen \cup {p} ELSE runs[r].seen
        /\ runs'[r].state = runs[r].state
    BY <1>1, <2>1 DEF TypeOK, RunState
  <2>4. runs[r].seen \subseteq visible' /\ (answer = "exists" => p \in visible')
    BY <1>1, <2>2 DEF ResumesAt
  <2>5. runs'[r].seen \subseteq visible'
    BY <2>3, <2>4
  <2>6. runs'[r].state = "partial" => visible' # {}
    BY <1>1, <2>3 DEF ResumesAt
  <2> QED
    BY <2>5, <2>6 DEF ResumesAt
<1>4. CASE Decide(r)
  <2>1. ASSUME NEW state, NEW place, Decided(r, state, place),
               state = "partial" => visible # {}
        PROVE  ResumesAt(r)'
    <3>1. runs'[r].state = state /\ runs'[r].seen = {}
      BY <2>1 DEF TypeOK, Decided, Idle
    <3> QED
      BY <1>1, <2>1, <3>1 DEF ResumesAt
  <2>2. Partial(runs[r]) => visible # {}
    BY <1>1 DEF Partial, ResumesAt
  <2> QED
    BY <1>0, <1>4, <2>1, <2>2 DEF Decide
<1>5. NextPackage(r) => ResumesAt(r)'
  BY <1>1, <1>2 DEF TypeOK, NextPackage, RunState
<1>6. CASE Build(r) \/ PackageExists(r)
  BY <1>0, <1>1, <1>2, <1>5, <1>6 DEF TypeOK, Build, PackageExists, Goto, RunState
<1>7. CASE Put(r) \/ Recheck(r)
  BY <1>0, <1>1, <1>2, <1>5, <1>7 DEF TypeOK, Put, Recheck, Answered, RunState
<1>8. CASE Verify(r)
  <2>1. CASE runs' = [runs EXCEPT ![r].pc = "install", ![r].attempt = 1]
    BY <1>1, <1>2, <2>1 DEF TypeOK, RunState
  <2>2. CASE runs' = [runs EXCEPT ![r].attempt = @ + 1]
    BY <1>1, <1>2, <2>2 DEF TypeOK, RunState
  <2> QED
    BY <1>0, <1>8, <2>1, <2>2 DEF Verify
<1>9. CASE Install(r)
  BY <1>0, <1>1, <1>2, <1>9 DEF TypeOK, Install, Goto, RunState
<1>10. CASE Announce(r)
  BY <1>10 DEF TypeOK, Announce, Idle, ResumesAt
<1> QED
  BY <1>3, <1>4, <1>6, <1>7, <1>8, <1>9, <1>10 DEF Step

LEMMA StepRoot ==
    ASSUME TypeOK, Grows, InTurn, RootLast, NEW r \in Runs, Step(r)
    PROVE  RootLast'
<1>1. CASE UNCHANGED <<accepted, flaws, distTags, logged>>
  BY <1>1 DEF RootLast
<1>2. ASSUME Put(r), Accept(runs[r].at, runs[r].tag) PROVE RootLast'
  <2>1. accepted' = accepted \cup {runs[r].at}
    BY <1>2 DEF Accept
  <2>2. CASE runs[r].at = Root
    <3>1. ASSUME NEW q \in Packages, q # Root PROVE q \in accepted
      <4>1. q < Root
        BY <3>1, ReleaseAssumption, SMT DEF Packages, Root
      <4> QED
        BY <1>2, <2>2, <4>1 DEF Put, InTurn
    <3>2. accepted' \subseteq Packages
      BY TypeOK, PackagesFacts, <2>1, <2>2 DEF TypeOK
    <3> QED
      BY <2>1, <2>2, <3>1, <3>2 DEF RootLast
  <2>3. CASE runs[r].at # Root
    <3>1. accepted' \subseteq Packages
      BY <2>1 DEF TypeOK, RunState
    <3> QED
      BY <2>1, <2>3, <3>1 DEF RootLast
  <2> QED
    BY <2>2, <2>3
<1> QED
  BY <1>1, <1>2, StepRegistry, PutRegistry DEF RootLast

LEMMA StepAnnounced ==
    ASSUME TypeOK, Grows, Checked, AnnouncedIsComplete, NEW r \in Runs, Step(r)
    PROVE  AnnouncedIsComplete'
<1>1. released => Complete
  BY DEF AnnouncedIsComplete, Complete
<1>2. ASSUME released' PROVE Complete
  <2>1. CASE Announce(r)
    BY <2>1, Zenon DEF Announce, Checked
  <2>2. CASE ~Announce(r)
    BY <1>1, <1>2, <2>2, Zenon DEF Step, Look, Decide, Build, PackageExists, Put,
                                   Recheck, Verify, Install
  <2> QED
    BY <2>1, <2>2
<1> QED
  BY <1>2, CompleteStays DEF AnnouncedIsComplete, Complete

-----------------------------------------------------------------------------
(* A run that begins when everything is there.                             *)

LEMMA LookUntouched ==
    ASSUME TypeOK, NEW r \in Runs, Untouched(r), Look(r)
    PROVE  Untouched(r)'
<1> DEFINE p == IF runs[r].at = 1 THEN Root ELSE runs[r].at - 1
<1>1. /\ runs[r] \in RunState /\ runs[r].pc = "look" /\ visible = Packages
      /\ visible' = visible
  <2>1. runs[r] \in RunState /\ visible = Packages
    BY DEF TypeOK, Untouched
  <2>2. runs[r].pc = "look" /\ visible' = visible
    BY Zenon DEF Look, registry
  <2> QED
    BY <2>1, <2>2
<1>2. p \in Packages /\ runs[r].at \in Nat /\ Natives \in Nat /\ Natives >= 1
  <2>1. runs[r].at \in Packages
    BY <1>1 DEF RunState
  <2> QED
    BY <2>1, ReleaseAssumption, SMT DEF p, Packages, Root
<1>3. PICK answer \in View(p) :
        runs' = [runs EXCEPT
                 ![r].seen = IF answer = "exists" THEN @ \cup {p} ELSE @,
                 ![r].failed = IF answer = "error" THEN @ \cup {p} ELSE @,
                 ![r].at = IF p = Natives THEN 1 ELSE @ + 1,
                 ![r].pc = IF p = Natives THEN "decide" ELSE @]
  BY DEF Look
<1> HIDE DEF p
<1>4. answer \in {"exists", "error"}
  BY <1>1, <1>2 DEF View
<1>5. /\ runs'[r].seen = IF answer = "exists" THEN runs[r].seen \cup {p} ELSE runs[r].seen
      /\ runs'[r].failed = IF answer = "error" THEN runs[r].failed \cup {p} ELSE runs[r].failed
      /\ runs'[r].at = IF p = Natives THEN 1 ELSE runs[r].at + 1
      /\ runs'[r].pc = IF p = Natives THEN "decide" ELSE "look"
  BY <1>1, <1>3 DEF TypeOK, RunState
<1>6. /\ p \in runs'[r].seen \cup runs'[r].failed
      /\ runs[r].seen \cup runs[r].failed \subseteq runs'[r].seen \cup runs'[r].failed
  BY <1>4, <1>5
<1>7. ASSUME NEW q \in Packages, Looked(runs'[r], q), q # p
      PROVE  Looked(runs[r], q)
  <2>1. q \in Nat /\ q >= 1 /\ (q = Root \/ q <= Natives) /\ Root = Natives + 1
    BY <1>2, SMT DEF Packages, Root
  <2>2. CASE p = Natives
    <3>1. runs[r].at = Root
      BY <1>2, <2>1, <2>2, SMT DEF p
    <3> QED
      BY <1>2, <1>7, <2>1, <2>2, <3>1, SMT DEF Looked
  <2>3. CASE p # Natives
    <3>1. runs'[r].at = runs[r].at + 1 /\ runs'[r].pc = "look"
      BY <1>5, <2>3
    <3> QED
      BY <1>2, <1>7, <2>1, <3>1, SMT DEF Looked, p
  <2> QED
    BY <2>2, <2>3
<1>8. \A q \in Packages : Looked(runs'[r], q) => q \in runs'[r].seen \cup runs'[r].failed
  BY <1>1, <1>6, <1>7 DEF Untouched
<1> QED
  BY <1>1, <1>5, <1>8 DEF Untouched, Publishes

LEMMA DecideUntouched ==
    ASSUME TypeOK, NEW r \in Runs, Untouched(r), Decide(r)
    PROVE  Untouched(r)'
<1>1. /\ runs[r] \in RunState /\ runs[r].pc = "decide" /\ visible' = Packages
      /\ Packages \subseteq runs[r].seen \cup runs[r].failed
  BY DEF TypeOK, Decide, registry, Untouched, Looked
<1>2. runs[r].seen \cup runs[r].failed # {} /\ ~Partial(runs[r])
  BY <1>1, PackagesFacts DEF Partial
<1>3. Fail(r) \/ Decided(r, "published", "verify")
  BY <1>2 DEF Decide
<1>4. runs'[r].pc \in {"idle", "verify"}
  <2>1. Decided(r, "published", "verify") => runs'[r].pc = "verify"
    BY DEF TypeOK, Decided, Idle
  <2> QED
    BY <1>3, <2>1, FailIsIdle
<1> QED
  BY <1>1, <1>4 DEF Untouched, Publishes

LEMMA StepUntouched ==
    ASSUME TypeOK, NEW r \in Runs, Untouched(r), Step(r)
    PROVE  Untouched(r)'
<1>1. runs[r] \in RunState /\ visible' = Packages
  BY StepRegistry DEF TypeOK, Untouched
<1>2. runs'[r].pc \in {"idle", "verify", "install", "announce"} => Untouched(r)'
  BY <1>1 DEF Untouched, Publishes
<1>3. CASE Verify(r)
  <2>1. CASE runs' = [runs EXCEPT ![r].pc = "install", ![r].attempt = 1]
    BY <1>1, <1>2, <2>1 DEF TypeOK, RunState
  <2>2. CASE runs' = [runs EXCEPT ![r].attempt = @ + 1]
    BY <1>1, <1>2, <1>3, <2>2 DEF TypeOK, RunState, Verify
  <2> QED
    BY <1>2, <1>3, <2>1, <2>2, FailIsIdle DEF Verify
<1>4. CASE Install(r)
  <2>1. CASE Goto(r, "announce")
    BY <1>1, <1>2, <2>1 DEF TypeOK, Goto, RunState
  <2>2. CASE runs' = [runs EXCEPT ![r].attempt = @ + 1]
    BY <1>1, <1>2, <1>4, <2>2 DEF TypeOK, RunState, Install
  <2> QED
    BY <1>2, <1>4, <2>1, <2>2, FailIsIdle DEF Install
<1>5. CASE Announce(r)
  BY <1>2, <1>5 DEF TypeOK, Announce, Idle
<1>6. ~Build(r) /\ ~PackageExists(r) /\ ~Put(r) /\ ~Recheck(r)
  BY DEF Untouched, Publishes, Build, PackageExists, Put, Recheck
<1> QED
  BY <1>3, <1>4, <1>5, <1>6, LookUntouched, DecideUntouched DEF Step

\* A run never forgets, or learns, that everything was there when it began.
LEMMA StepKeepsFull ==
    ASSUME TypeOK, NEW r \in Runs, Step(r)
    PROVE  runs'[r].full => runs[r].full
<1>1. runs[r] \in RunState
  BY DEF TypeOK
<1>2. Fail(r) => ~runs'[r].full
  BY FailIsIdle
<1>3. NextPackage(r) => runs'[r].full = runs[r].full
  BY <1>1 DEF TypeOK, NextPackage, RunState
<1>4. ASSUME NEW place, Goto(r, place) PROVE runs'[r].full = runs[r].full
  BY <1>1, <1>4 DEF TypeOK, Goto, RunState
<1>5. ASSUME NEW answer, Answered(r, answer) PROVE runs'[r].full = runs[r].full
  BY <1>1, <1>5 DEF TypeOK, Answered, RunState
<1>6. ASSUME NEW state, NEW place, Decided(r, state, place)
      PROVE  runs'[r].full = runs[r].full
  BY <1>6 DEF TypeOK, Decided, Idle
<1>7. runs' = [runs EXCEPT ![r].attempt = @ + 1] => runs'[r].full = runs[r].full
  BY <1>1 DEF TypeOK, RunState
<1>8. CASE Look(r)
  BY <1>1, <1>8 DEF TypeOK, Look, RunState
<1>9. CASE Decide(r)
  BY <1>2, <1>6, <1>9 DEF Decide
<1>10. CASE Build(r) \/ PackageExists(r)
  BY <1>2, <1>3, <1>4, <1>10, Zenon DEF Build, PackageExists
<1>11. CASE Put(r)
  BY <1>3, <1>5, <1>11, Zenon DEF Put
<1>12. CASE Recheck(r)
  <2>1. runs' = [runs EXCEPT ![r].attempt = @ + 1, ![r].answer = "none", ![r].pc = "put"]
          => runs'[r].full = runs[r].full
    BY <1>1 DEF TypeOK, RunState
  <2> QED
    BY <1>2, <1>3, <1>12, <2>1, Zenon DEF Recheck
<1>13. CASE Verify(r)
  <2>1. runs' = [runs EXCEPT ![r].pc = "install", ![r].attempt = 1]
          => runs'[r].full = runs[r].full
    BY <1>1 DEF TypeOK, RunState
  <2> QED
    BY <1>2, <1>7, <1>13, <2>1, Zenon DEF Verify
<1>14. CASE Install(r)
  BY <1>2, <1>4, <1>7, <1>14, Zenon DEF Install
<1>15. CASE Announce(r)
  BY <1>15 DEF TypeOK, Announce, Idle
<1> QED
  BY <1>8, <1>9, <1>10, <1>11, <1>12, <1>13, <1>14, <1>15 DEF Step

LEMMA NextFullStays ==
    ASSUME TypeOK, TypeOK', Grows, FullStays, [ReleaseNext]_releaseVars
    PROVE  FullStays'
<1> SUFFICES ASSUME NEW r \in Runs, runs'[r].full PROVE Untouched(r)'
  BY DEF FullStays
<1>1. Untouched(r) => visible' = Packages
  BY DEF Untouched, Grows
<1>2. runs'[r] = runs[r] => Untouched(r)'
  BY <1>1 DEF FullStays, Untouched, Publishes
<1>3. ASSUME NEW q \in Runs, Step(q) \/ Die(q) \/ \E tag \in Tags : Begin(q, tag)
      PROVE  Untouched(r)'
  <2>1. CASE q # r
    BY <1>2, <1>3, <2>1, OthersStay
  <2>2. ~Die(r)
    BY FailIsIdle DEF Die
  <2>3. ASSUME NEW tag \in Tags, Begin(r, tag) PROVE Untouched(r)'
    <3>1. /\ runs'[r].pc = "look" /\ runs'[r].at = 1 /\ runs'[r].full = (visible = Packages)
          /\ visible' = visible
      BY <2>3 DEF TypeOK, Begin, Idle, registry
    <3>2. \A p \in Packages : ~(p + 1 < 1)
      BY PackagesFacts, SMT
    <3> QED
      BY <3>1, <3>2 DEF Untouched, Publishes, Looked
  <2>4. CASE Step(r)
    BY <2>4, StepKeepsFull, StepUntouched DEF FullStays
  <2> QED
    BY <1>3, <2>1, <2>2, <2>3, <2>4
<1> QED
  BY <1>2, <1>3 DEF ReleaseNext, CalmDown, ShowUp, releaseVars

-----------------------------------------------------------------------------
LEMMA NextIInv == IInv /\ [ReleaseNext]_releaseVars => IInv'
<1> SUFFICES ASSUME IInv, [ReleaseNext]_releaseVars PROVE IInv'
  OBVIOUS
<1> USE DEF IInv
<1>1. TypeOK' /\ Grows
  BY TypeStep
<1>a. FullStays'
  BY <1>1, NextFullStays
\* A step that changes runs only by leaving one idle or at "look".
<1>2. ASSUME UNCHANGED <<registry, released>>,
             \A q \in Runs : \/ runs'[q] = runs[q]
                             \/ /\ runs'[q].pc \in {"idle", "look"}
                                /\ runs'[q].state = "unknown" /\ runs'[q].seen = {}
      PROVE  IInv'
  <2>1. InTurn' /\ Checked' /\ RootLast' /\ AnnouncedIsComplete'
    BY <1>2 DEF InTurn, Checked, RootLast, AnnouncedIsComplete, Complete, registry
  <2>2. Resumes'
    BY <1>2 DEF Resumes, registry
  <2> QED
    BY <1>a, <1>1, <2>1, <2>2
<1>3. ASSUME NEW r \in Runs, Step(r) PROVE IInv'
  <2>1. \A q \in Runs : q # r => runs'[q] = runs[q]
    BY <1>3, OthersStay
  <2>2. InTurn'
    BY <1>1, <1>3, <2>1, StepInTurn DEF InTurn, InTurnAt, Grows
  <2>3. Checked'
    BY <1>1, <1>3, <2>1, StepChecked, CompleteStays DEF Checked
  <2>4. Resumes'
    BY <1>1, <1>3, <2>1, StepResumes DEF Resumes, ResumesAt, Grows
  <2>5. RootLast' /\ AnnouncedIsComplete'
    BY <1>1, <1>3, StepRoot, StepAnnounced
  <2> QED
    BY <1>a, <1>1, <2>2, <2>3, <2>4, <2>5
<1>4. ASSUME NEW r \in Runs, Die(r) PROVE IInv'
  BY <1>2, <1>4, FailIsIdle, OthersStay DEF Die
<1>5. ASSUME NEW r \in Runs, NEW tag \in Tags, Begin(r, tag) PROVE IInv'
  <2>1. runs'[r].pc = "look" /\ runs'[r].state = "unknown" /\ runs'[r].seen = {}
    BY <1>5 DEF TypeOK, Begin, Idle
  <2> QED
    BY <1>2, <1>5, <2>1, OthersStay DEF Begin
<1>6. ASSUME UNCHANGED <<accepted, flaws, distTags, released, runs>> PROVE IInv'
  BY <1>a, <1>1, <1>6, CompleteStays
  DEF InTurn, Checked, RootLast, AnnouncedIsComplete, Resumes, Grows, Complete
<1>7. ASSUME NEW p \in Packages, ShowUp(p) PROVE IInv'
  BY <1>6, <1>7 DEF ShowUp
<1>8. CASE CalmDown
  BY <1>6, <1>8 DEF CalmDown
<1>9. CASE UNCHANGED releaseVars
  BY <1>6, <1>9 DEF releaseVars
<1> QED
  BY <1>3, <1>4, <1>5, <1>7, <1>8, <1>9 DEF ReleaseNext

LEMMA Invariance == ReleaseSpec => []IInv
  BY InitIInv, NextIInv, PTL DEF ReleaseSpec

\* The root package is never installable before all native packages are
\* published (order of the packages in publish-npm-packages.js, which fails
\* on the first package it cannot publish).
THEOREM RootIsLast == ReleaseSpec => []RootLast
<1>1. IInv => RootLast
  BY DEF IInv
<1> QED
  BY <1>1, Invariance, PTL

\* The GitHub release announces only what check-published.js has found
\* complete, and no other run can change that any more.
THEOREM AnnouncedComplete == ReleaseSpec => []AnnouncedIsComplete
<1>1. IInv => AnnouncedIsComplete
  BY DEF IInv
<1> QED
  BY <1>1, Invariance, PTL

\* npm errors while check-release-publication-state.js looks at the packages
\* decide nothing: a run takes up a release only when part of it is there, and
\* one that begins when all of it is there never builds or publishes.
THEOREM NpmErrorsDecideNothing == ReleaseSpec => []ErrorsDecideNothing
<1>1. IInv => ErrorsDecideNothing
  BY DEF IInv, Resumes, FullStays, Untouched, ErrorsDecideNothing
<1> QED
  BY <1>1, Invariance, PTL
=============================================================================
