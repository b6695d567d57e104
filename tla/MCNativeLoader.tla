---------------------------- MODULE MCNativeLoader ----------------------------
(* Small instances of NativeLoader for TLC. *)
EXTENDS NativeLoader

On(platform, arches) == [platform : {platform}, arch : arches, gnuNode : {FALSE}]

\* Every platform and architecture the loader knows, and one of each kind it
\* does not.
MCHosts ==
    On("android", {"arm64", "arm", "x64"})
      \cup On("win32", {"x64", "ia32", "arm64", "arm"})
      \cup {[platform |-> "win32", arch |-> "x64", gnuNode |-> TRUE]}
      \cup On("darwin", {"x64", "arm64", "ppc64"})
      \cup On("freebsd", {"x64", "arm64", "ppc64", "arm"})
      \cup On("linux", {"x64", "arm64", "arm", "loong64", "riscv64", "ppc64", "s390x", "mips"})
      \cup On("openharmony", {"arm64", "x64", "arm", "ia32"})
      \cup On("sunos", {"x64"})
=============================================================================
