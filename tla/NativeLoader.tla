------------------------------ MODULE NativeLoader ------------------------------
(***************************************************************************)
(* native.js, the loader that finds the binding, and the first part of     *)
(* index.js, which turns its failure into an error with a report.          *)
(*                                                                         *)
(* The loader tries one candidate after another: native files and packages *)
(* for the host, and WASI builds, in an order that three environment       *)
(* variables change.  What a candidate does when it is required is chosen  *)
(* when it is tried.  Abstracted: the paths, what an error says (an error  *)
(* is the candidate that failed), and the exports of the binding.          *)
(***************************************************************************)
EXTENDS Naturals, Sequences

CONSTANTS
    Hosts,        \* records [platform, arch, gnuNode]: process.platform,
                  \* process.arch, and whether node is a MinGW build
    MaxAttempts   \* MAX_NATIVE_LOAD_ATTEMPTS

ASSUME LoaderAssumption == MaxAttempts \in Nat

VARIABLES
    host,        \* member of Hosts
    libc,        \* what the host tells about its C library
    env,         \* the NAPI_RS_* variables
    pc,          \* where the loader is
    queue,       \* native candidates left to try
    loadErrors,  \* candidates that failed
    wasiErrors,  \* WASI candidates that failed
    binding,     \* the candidate that was loaded, with its marker, or Nothing
    target,      \* __napiLoadedBindingTarget
    thrown,      \* cause chain of the error the loader throws
    attempts     \* loadErrors of the error index.js throws

loaderVars == <<host, libc, env, pc, queue, loadErrors, wasiErrors, binding, target, thrown, attempts>>

Nothing == [kind |-> "none", name |-> "none", marker |-> "none", version |-> "same"]

Override == [kind |-> "override", name |-> "override"]
WasiFile == [kind |-> "wasiFile", name |-> "wasm32-wasi"]
WasiPackage == [kind |-> "wasiPackage", name |-> "wasm32-wasi"]
Unsupported == [kind |-> "unsupported", name |-> "none"]
Itself == [kind |-> "itself", name |-> "none"]   \* the error the loader makes

Wasi == {"wasiFile", "wasiPackage"}
Native == {"file", "package", "override"}

-----------------------------------------------------------------------------
(* What is tried for a host.                                               *)

\* A file beside the loader, then the package of the same name.
Pair(name) == <<[kind |-> "file", name |-> name], [kind |-> "package", name |-> name]>>

\* isMuslFromFilesystem, isMuslFromReport, isMuslFromChildProcess: the next
\* one is asked only when the one before knows nothing.
IsMusl ==
    IF libc.ldd # "missing" THEN libc.ldd = "musl"
    ELSE IF libc.report # "none" THEN libc.report = "musl"
    ELSE libc.child = "musl"

AndroidCandidates(arch) ==
    CASE arch = "arm64" -> Pair("android-arm64")
      [] arch = "arm"   -> Pair("android-arm-eabi")
      [] OTHER          -> <<Unsupported>>

WindowsCandidates(arch, gnuNode) ==
    CASE arch = "x64" /\ gnuNode  -> Pair("win32-x64-gnu")
      [] arch = "x64" /\ ~gnuNode -> Pair("win32-x64-msvc")
      [] arch = "ia32"            -> Pair("win32-ia32-msvc")
      [] arch = "arm64"           -> Pair("win32-arm64-msvc")
      [] OTHER                    -> <<Unsupported>>

DarwinCandidates(arch) ==
    Pair("darwin-universal") \o
        CASE arch = "x64"   -> Pair("darwin-x64")
          [] arch = "arm64" -> Pair("darwin-arm64")
          [] OTHER          -> <<Unsupported>>

FreebsdCandidates(arch) ==
    CASE arch = "x64"   -> Pair("freebsd-x64")
      [] arch = "arm64" -> Pair("freebsd-arm64")
      [] arch = "ppc64" -> Pair("freebsd-ppc64")
      [] OTHER          -> <<Unsupported>>

Libc(musl, gnu) == Pair(IF IsMusl THEN musl ELSE gnu)

\* The architectures the project publishes packages for, and 32-bit ARM.
LinuxCommon(arch) ==
    CASE arch = "x64"   -> Libc("linux-x64-musl", "linux-x64-gnu")
      [] arch = "arm64" -> Libc("linux-arm64-musl", "linux-arm64-gnu")
      [] arch = "arm"   -> Libc("linux-arm-musleabihf", "linux-arm-gnueabihf")

LinuxOther(arch) ==
    CASE arch = "loong64" -> Libc("linux-loong64-musl", "linux-loong64-gnu")
      [] arch = "riscv64" -> Libc("linux-riscv64-musl", "linux-riscv64-gnu")
      [] arch = "ppc64"   -> Pair("linux-ppc64-gnu")
      [] arch = "s390x"   -> Pair("linux-s390x-gnu")
      [] OTHER            -> <<Unsupported>>

LinuxCandidates(arch) ==
    IF arch \in {"x64", "arm64", "arm"} THEN LinuxCommon(arch) ELSE LinuxOther(arch)

OpenharmonyCandidates(arch) ==
    CASE arch = "arm64" -> Pair("openharmony-arm64")
      [] arch = "x64"   -> Pair("openharmony-x64")
      [] arch = "arm"   -> Pair("openharmony-arm")
      [] OTHER          -> <<Unsupported>>

HostCandidates ==
    CASE host.platform = "android"     -> AndroidCandidates(host.arch)
      [] host.platform = "win32"       -> WindowsCandidates(host.arch, host.gnuNode)
      [] host.platform = "darwin"      -> DarwinCandidates(host.arch)
      [] host.platform = "freebsd"     -> FreebsdCandidates(host.arch)
      [] host.platform = "linux"       -> LinuxCandidates(host.arch)
      [] host.platform = "openharmony" -> OpenharmonyCandidates(host.arch)
      [] OTHER                         -> <<Unsupported>>

\* The candidates of requireNative.
Candidates == IF env.override THEN <<Override>> ELSE HostCandidates

-----------------------------------------------------------------------------
(* The environment.                                                        *)

\* isMusl and detectLinuxLibc ask only where it matters.
LibcFacts(h) ==
    IF h.platform # "linux" THEN {[ldd |-> "missing", report |-> "none", child |-> "fails"]}
    ELSE {facts \in [ldd : {"musl", "gnu", "missing"},
                     report : {"glibc", "musl", "neither", "none"},
                     child : {"musl", "gnu", "fails"}] :
             facts.ldd # "missing" \/ facts.report # "none" => facts.child = "fails"}

\* NAPI_RS_NATIVE_LIBRARY_PATH is set; NAPI_RS_FORCE_WASI; NAPI_RS_WASI_FLAVOR;
\* NAPI_RS_ENFORCE_VERSION_CHECK.
Environments == [override : BOOLEAN, force : {"unset", "true", "error"},
                 flavor : {"none", "wasm32-wasi", "unknown"}, enforce : BOOLEAN]

LoaderInit ==
    /\ host \in Hosts
    /\ libc \in LibcFacts(host)
    /\ env \in Environments
    /\ pc = "flavor"
    /\ queue = <<>> /\ loadErrors = <<>> /\ wasiErrors = <<>>
    /\ binding = Nothing /\ target = "native"
    /\ thrown = <<>> /\ attempts = <<>>

\* Strict loading never falls back to native.
Strict == env.force = "error" \/ env.flavor # "none"
ForceWasi == env.force = "true" \/ Strict

-----------------------------------------------------------------------------
(* The loader.                                                             *)

\* createLoadErrorChain: every error is the cause of the one after it.  The
\* error at n has the cause at n - 1; 0 is none.
Chain(errors) == [n \in 1 .. Len(errors) |-> [error |-> errors[n], cause |-> n - 1]]

Throw(errors) ==
    /\ thrown' = Chain(errors)
    /\ pc' = "thrown"

\* An unknown flavor is refused before anything is tried.
CheckFlavor ==
    /\ pc = "flavor"
    /\ \/ env.flavor = "unknown" /\ Throw(<<Itself>>)
       \/ /\ env.flavor # "unknown"
          /\ pc' = (IF ForceWasi THEN "wasiFile" ELSE "native")
          /\ UNCHANGED thrown
    /\ UNCHANGED <<host, libc, env, queue, loadErrors, wasiErrors, binding, target, attempts>>

\* requireNative starts.
RequireNative ==
    /\ pc = "native"
    /\ queue' = Candidates
    /\ pc' = "try"
    /\ UNCHANGED <<host, libc, env, loadErrors, wasiErrors, binding, target, thrown, attempts>>

\* A candidate, as it comes out of require: with the marker it exports and,
\* for a package, its version.
Loaded(c, marker, version) ==
    [kind |-> c.kind, name |-> c.name, marker |-> marker, version |-> version]

\* A native addon may export the name of the marker too.
Markers(c) == IF c.kind \in Wasi THEN {"wasm32-wasi"} ELSE {"none", "native", "wasm32-wasi"}

Versions(c) == IF c.kind \in {"package", "wasiPackage"} THEN {"same", "other"} ELSE {"same"}

\* Mutant: a package of another version is taken all the same.
NeverRefused(version) == FALSE

\* The version check of a package, done only on request.
Refused(version) == env.enforce /\ version # "same"

\* An override may be a WASI loader: its own marker is taken over.
TargetOf(b) ==
    CASE b.kind = "override" -> IF b.marker = "none" THEN "native" ELSE b.marker
      [] b.kind \in Wasi     -> "wasm32-wasi"
      [] OTHER               -> target

\* The next native candidate is required: it loads, or fails and the next one
\* gets its turn.
Try ==
    /\ pc = "try" /\ queue # <<>>
    /\ \/ /\ Head(queue).kind # "unsupported"
          /\ \E marker \in Markers(Head(queue)), version \in Versions(Head(queue)) :
                /\ ~Refused(version)
                /\ binding' = Loaded(Head(queue), marker, version)
                /\ target' = TargetOf(binding')
          /\ pc' = "end"
          /\ UNCHANGED <<queue, loadErrors>>
       \/ /\ loadErrors' = Append(loadErrors, Head(queue))
          /\ queue' = Tail(queue)
          /\ UNCHANGED <<pc, binding, target>>
    /\ UNCHANGED <<host, libc, env, wasiErrors, thrown, attempts>>

\* requireNative returns nothing.
NativeFailed ==
    /\ pc = "try" /\ queue = <<>>
    /\ pc' = (IF ForceWasi THEN "end" ELSE "wasiFile")
    /\ UNCHANGED <<host, libc, env, queue, loadErrors, wasiErrors, binding, target, thrown, attempts>>

\* A WASI candidate resolves and loads, or fails: then next is where the
\* loader goes on.
TryWasi(c, next) ==
    /\ \/ /\ \E version \in Versions(c) :
                /\ ~Refused(version)
                /\ binding' = Loaded(c, "wasm32-wasi", version)
          /\ target' = "wasm32-wasi"
          /\ pc' = "end"
          /\ UNCHANGED <<loadErrors, wasiErrors>>
       \/ /\ wasiErrors' = Append(wasiErrors, c)
          /\ loadErrors' = Append(loadErrors, c)
          /\ pc' = next
          /\ UNCHANGED <<binding, target>>
    /\ UNCHANGED <<host, libc, env, queue, thrown, attempts>>

TryWasiFile == pc = "wasiFile" /\ TryWasi(WasiFile, "wasiPackage")

\* NAPI_RS_FORCE_WASI=true comes back to native when both have failed.
TryWasiPackage ==
    /\ pc = "wasiPackage"
    /\ TryWasi(WasiPackage, IF ForceWasi /\ ~Strict THEN "native" ELSE "end")

\* __napiStampBindingTarget: the name is free, or holds the same value.
StampFits == binding.marker \in {"none", target}

\* The checks after the candidates, and the stamp on the binding.
Finish ==
    /\ pc = "end"
    /\ \/ Strict /\ binding.kind \notin Wasi /\ Throw(wasiErrors)
       \/ ~Strict /\ binding = Nothing /\ Throw(loadErrors)
       \/ /\ Strict => binding.kind \in Wasi
          /\ binding # Nothing
          /\ \/ StampFits /\ pc' = "done" /\ UNCHANGED thrown
             \/ ~StampFits /\ Throw(<<Itself>>)
    /\ UNCHANGED <<host, libc, env, queue, loadErrors, wasiErrors, binding, target, attempts>>

-----------------------------------------------------------------------------
(* index.js: createNativeLoadError.                                        *)

\* collectNativeLoadAttempts: from the outermost cause inwards.
Collect(chain) ==
    LET from[n \in 0 .. Len(chain)] ==
          IF n = 0 THEN <<>> ELSE <<chain[n].error>> \o from[chain[n].cause]
    IN from[Len(chain)]

\* Mutant: the order is not turned around.
AttemptsInsideOut(chain) ==
    LET collected == Collect(chain)
    IN SubSeq(collected, 1, IF Len(collected) < MaxAttempts THEN Len(collected) ELSE MaxAttempts)

\* nativeLoadAttempts: in the order tried, the first MaxAttempts of them.
NativeLoadAttempts(chain) ==
    LET collected == Collect(chain)
        reversed == [n \in 1 .. Len(collected) |-> collected[Len(collected) + 1 - n]]
    IN SubSeq(reversed, 1, IF Len(reversed) < MaxAttempts THEN Len(reversed) ELSE MaxAttempts)

\* detectLinuxLibc, which does not look at the file system.
DetectedLibc ==
    CASE libc.report = "glibc" -> "gnu"
      [] libc.report = "musl"  -> "musl"
      [] OTHER                 -> "unknown"

\* loadNativeBinding catches the error and throws its own.
Report ==
    /\ pc = "thrown"
    /\ attempts' = NativeLoadAttempts(thrown)
    /\ pc' = "reported"
    /\ UNCHANGED <<host, libc, env, queue, loadErrors, wasiErrors, binding, target, thrown>>

-----------------------------------------------------------------------------
LoaderNext ==
    \/ CheckFlavor \/ RequireNative \/ Try \/ NativeFailed
    \/ TryWasiFile \/ TryWasiPackage \/ Finish \/ Report

LoaderSpec == LoaderInit /\ [][LoaderNext]_loaderVars

-----------------------------------------------------------------------------
(* Properties.                                                             *)

\* The names in a sequence of candidates that were tried.
Tried(errors) == {errors[n] : n \in 1 .. Len(errors)}

\* Whatever loads, the environment and the host allow it: strict loading
\* gives a WASI build and has tried no native one; without a request WASI is
\* what remains after every native candidate of the host has failed; with
\* NAPI_RS_FORCE_WASI=true it is the other way round; a version check that
\* was asked for has been passed; and the target it reports is what it is.
RightBinding ==
    pc = "done" =>
        /\ Strict => binding.kind \in Wasi /\ Tried(loadErrors) \subseteq {WasiFile}
        /\ ~ForceWasi /\ binding.kind \in Wasi =>
              \A n \in 1 .. Len(Candidates) : Candidates[n] \in Tried(loadErrors)
        /\ ForceWasi /\ binding.kind \in Native => {WasiFile, WasiPackage} \subseteq Tried(loadErrors)
        /\ env.enforce => binding.version = "same"
        /\ env.override => binding.kind \notin {"file", "package"}
        /\ binding.kind \in Wasi <=> target = "wasm32-wasi" /\ binding.kind # "override"
        /\ binding.marker \in {"none", target}

\* The error the user sees lists what was tried in the order in which it was
\* tried, although it travels as a chain of causes; a strict failure lists
\* WASI candidates only.  (No host has as many candidates as the limit.)
AttemptsReported ==
    pc = "reported" =>
        LET tried == IF env.flavor = "unknown" \/ binding # Nothing THEN <<Itself>>
                     ELSE IF Strict THEN wasiErrors
                     ELSE loadErrors
        IN /\ Len(attempts) = (IF Len(tried) < MaxAttempts THEN Len(tried) ELSE MaxAttempts)
           /\ \A n \in 1 .. Len(attempts) : attempts[n] = tried[n]
=============================================================================
