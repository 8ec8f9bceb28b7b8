---------------------------- MODULE GollvmBuild ----------------------------
(***************************************************************************)
(* The top-level CMakeLists.txt of gollvm (stored in this repository after *)
(* the driver's Command.cpp, lines 55-208), and the build it generates.    *)
(*                                                                         *)
(* A cmake run evaluates the file: it picks MPN_PATH from the first field  *)
(* of LLVM_DEFAULT_TARGET_TRIPLE (SEND_ERROR, hence no generated build,    *)
(* for an unknown arch), computes EXTCPPFLAGS and the gocdep list that the *)
(* Go libraries depend on.  A make run then brings the targets up to date, *)
(* up to Jobs recipes at a time (make -jN): the three ExternalProjects     *)
(* libgmp, libmpfr, libmpc (each a download, configure and build-install   *)
(* step with its own stamp file; DEPENDS orders one project after          *)
(* another), the compiler llvm-goc (add_subdirectory bridge, passes,       *)
(* driver, driver-main: the gofrontend links GMP, MPFR and MPC), the token *)
(* llvm-goc-token, libgo and gotools.  Any recipe may fail (a download     *)
(* whose mirrors are both unreachable or whose MD5 does not match, a       *)
(* failing configure or compile); make then starts nothing new, waits for  *)
(* the recipes in flight and stops.  Between runs the developer may edit   *)
(* the compiler sources and rerun cmake to flip DISABLE_LIBGO_GOC_DEP.     *)
(*                                                                         *)
(* Make decides what to rebuild from modification times: stamp[t] is the   *)
(* mtime of t's output or stamp file (0: absent), clock the file-system    *)
(* time.  The versions say what the files really contain: edits counts    *)
(* the versions of the compiler sources, gocVer is the source version the *)
(* llvm-goc binary was built from, libgoVer the llvm-goc version that      *)
(* compiled libgo.                                                         *)
(***************************************************************************)
EXTENDS Naturals, Sequences, FiniteSets

CONSTANTS
  Triples,      \* values of LLVM_DEFAULT_TARGET_TRIPLE, as token sequences
  Sysroots,     \* values of CMAKE_SYSROOT ("" for none)
  Jobs,         \* N of the top-level make -jN
  MaxEdits,     \* bound on edits of the compiler sources
  MaxRuns,      \* bound on make runs
  MaxCmake,     \* bound on cmake runs
  MaxClock      \* bound on the file-system clock

VARIABLES config, stamp, clock, gocVer, libgoVer, mk, running,
          edits, runs, cmakes

vars == <<config, stamp, clock, gocVer, libgoVer, mk, running,
          edits, runs, cmakes>>

(***************************************************************************)
(* Evaluation of the CMakeLists.txt.                                       *)
(***************************************************************************)

\* string(REGEX REPLACE "-" " " ...) then separate_arguments: the triple is
\* cut at every "-", empty fields are dropped.  cur is the field being read.
RECURSIVE SplitDash(_, _)
SplitDash(s, cur) ==
  IF s = <<>> THEN IF cur = "" THEN <<>> ELSE <<cur>>
  ELSE IF Head(s) = "-"
       THEN (IF cur = "" THEN <<>> ELSE <<cur>>) \o SplitDash(Tail(s), "")
       ELSE SplitDash(Tail(s), cur \o Head(s))

LhtComponents(triple) == SplitDash(triple, "")

\* list(GET lht_components 0 llarch)
LlArch(triple) == LhtComponents(triple)[1]

\* The if/elseif chain; "" where the chain ends in SEND_ERROR.
MpnPath(llarch) ==
  CASE llarch = "x86_64"  -> "x86_64 generic"
    [] llarch = "aarch64" -> "arm64 generic"
    [] llarch = "riscv64" -> "riscv generic"
    [] OTHER              -> ""

\* EXTCPPFLAGS, as the set of flags it passes besides -I${EXTINCLUDEDIR}.
ExtCppFlags(sysroot, pic) ==
  {"-I"} \cup (IF sysroot # "" THEN {"--sysroot"} ELSE {})
         \cup (IF pic THEN {"-fPIC", "-DPIC"} ELSE {})

\* Mutant: gocdep is always the token alone, whatever the option says.
GocDepAlwaysToken(disable) == {"llvm-goc-token"}

\* set(gocdep llvm-goc llvm-goc-token), cut to the token under the escape
\* hatch DISABLE_LIBGO_GOC_DEP.
GocDep(disable) ==
  IF disable THEN {"llvm-goc-token"} ELSE {"llvm-goc", "llvm-goc-token"}

\* Mutant: the unknown arch only gets message(WARNING), so the build is
\* generated without an MPN_PATH.
EvaluateSendErrorAsWarning(triple, disable, sysroot, pic) ==
  [phase    |-> "generated",
   triple   |-> triple, disable |-> disable, sysroot |-> sysroot, pic |-> pic,
   mpn      |-> MpnPath(LlArch(triple)),
   cppflags |-> ExtCppFlags(sysroot, pic),
   gocdep   |-> GocDep(disable)]

\* One cmake run.  SEND_ERROR lets cmake finish the file but skips the
\* generation of the build system.
Evaluate(triple, disable, sysroot, pic) ==
  LET mpn == MpnPath(LlArch(triple)) IN
  [phase    |-> IF mpn = "" THEN "error" ELSE "generated",
   triple   |-> triple, disable |-> disable, sysroot |-> sysroot, pic |-> pic,
   mpn      |-> mpn,
   cppflags |-> ExtCppFlags(sysroot, pic),
   gocdep   |-> GocDep(disable)]

(***************************************************************************)
(* Targets of the generated build.                                         *)
(***************************************************************************)
Ext == {"libgmp", "libmpfr", "libmpc"}
StepNames == {"download", "configure", "build"}
Step(p, s) == p \o "-" \o s

\* Mutant: libmpc lists libgmp but not libmpfr under DEPENDS.
DependsOfMpcNoMpfr(p) ==
  CASE p = "libgmp"  -> {}
    [] p = "libmpfr" -> {"libgmp"}
    [] p = "libmpc"  -> {"libgmp"}

\* DEPENDS of each externalproject_add
DependsOf(p) ==
  CASE p = "libgmp"  -> {}
    [] p = "libmpfr" -> {"libgmp"}
    [] p = "libmpc"  -> {"libgmp", "libmpfr"}

GoTargets == {"llvm-goc", "llvm-goc-token", "libgo", "gotools"}
Targets == {Step(p, s) : p \in Ext, s \in StepNames} \cup GoTargets

\* The compiler sources, a file make compares with llvm-goc.
Sources == "goc-sources"

\* What make brings up to date before t.  DEPENDS adds an order between
\* targets only; the steps of one project are chained through their stamp
\* files; llvm-goc-token only needs llvm-goc to exist.
PrereqsOf(t) ==
  CASE t \in {Step(p, "download") : p \in Ext} ->
         {Step(d, "build") : d \in DependsOf(CHOOSE p \in Ext : t = Step(p, "download"))}
    [] t \in {Step(p, "configure") : p \in Ext} ->
         {Step(CHOOSE p \in Ext : t = Step(p, "configure"), "download")}
    [] t \in {Step(p, "build") : p \in Ext} ->
         {Step(CHOOSE p \in Ext : t = Step(p, "build"), "configure")}
    [] t = "llvm-goc"       -> {Step(p, "build") : p \in Ext}
    [] t = "llvm-goc-token" -> {"llvm-goc"}
    [] t = "libgo"          -> config.gocdep
    [] t = "gotools"        -> {"libgo"} \cup config.gocdep

\* The files whose mtime make compares with t's.
FileDepsOf(t) ==
  CASE t \in {Step(p, "download") : p \in Ext} -> {}
    [] t = "llvm-goc-token" -> {}
    [] t = "llvm-goc"       -> PrereqsOf(t) \cup {Sources}
    [] OTHER                -> PrereqsOf(t)

RECURSIVE AllPrereqs(_)
AllPrereqs(t) == PrereqsOf(t) \cup UNION {AllPrereqs(d) : d \in PrereqsOf(t)}

OutOfDate(t) == stamp[t] = 0 \/ \E d \in FileDepsOf(t) : stamp[d] > stamp[t]

(***************************************************************************)
(* The state machine.                                                      *)
(***************************************************************************)
NoConfig == [phase |-> "none", triple |-> <<>>, disable |-> FALSE,
             sysroot |-> "", pic |-> FALSE, mpn |-> "", cppflags |-> {},
             gocdep |-> {}]

Init ==
  /\ config = NoConfig
  /\ stamp = [t \in Targets \cup {Sources} |-> 0]
  /\ clock = 0
  /\ gocVer = 0
  /\ libgoVer = 0
  /\ mk = "idle"
  /\ running = {}
  /\ edits = 0
  /\ runs = 0
  /\ cmakes = 0

MakeBusy == mk \in {"running", "stopping"}

\* A first cmake run, or one after SEND_ERROR, with any cache values.
Configure(triple, disable, sysroot, pic) ==
  /\ config.phase \in {"none", "error"}
  /\ cmakes < MaxCmake
  /\ config' = Evaluate(triple, disable, sysroot, pic)
  /\ cmakes' = cmakes + 1
  /\ mk' = "idle"
  /\ UNCHANGED <<stamp, clock, gocVer, libgoVer, running, edits, runs>>

\* cmake -DDISABLE_LIBGO_GOC_DEP=... in a generated tree: the file is
\* evaluated again with the cached triple, sysroot and PIC setting.
Reconfigure(disable) ==
  /\ config.phase = "generated"
  /\ ~MakeBusy
  /\ cmakes < MaxCmake
  /\ config' = Evaluate(config.triple, disable, config.sysroot, config.pic)
  /\ cmakes' = cmakes + 1
  /\ mk' = "idle"
  /\ UNCHANGED <<stamp, clock, gocVer, libgoVer, running, edits, runs>>

\* The developer changes the compiler sources between builds.
EditCompiler ==
  /\ ~MakeBusy
  /\ edits < MaxEdits
  /\ clock < MaxClock
  /\ stamp' = [stamp EXCEPT ![Sources] = clock + 1]
  /\ clock' = clock + 1
  /\ edits' = edits + 1
  /\ mk' = "idle"
  /\ UNCHANGED <<config, gocVer, libgoVer, running, runs, cmakes>>

\* make in the generated tree.
RunMake ==
  /\ config.phase = "generated"
  /\ ~MakeBusy
  /\ runs < MaxRuns
  /\ clock + Cardinality(Targets) <= MaxClock
  /\ mk' = "running"
  /\ runs' = runs + 1
  /\ UNCHANGED <<config, stamp, clock, gocVer, libgoVer, running, edits, cmakes>>

\* make starts t's recipe once everything below t is up to date.
StartJob(t) ==
  /\ mk = "running"
  /\ t \notin running
  /\ OutOfDate(t)
  /\ \A d \in AllPrereqs(t) : d \notin running /\ ~OutOfDate(d)
  /\ Cardinality(running) < Jobs
  /\ running' = running \cup {t}
  /\ UNCHANGED <<config, stamp, clock, gocVer, libgoVer, mk, edits, runs, cmakes>>

\* The recipe succeeds: the output (or stamp file) is written now; building
\* llvm-goc compiles the current sources, building libgo uses llvm-goc.
JobSucceeds(t) ==
  /\ t \in running
  /\ running' = running \ {t}
  /\ stamp' = [stamp EXCEPT ![t] = clock + 1]
  /\ clock' = clock + 1
  /\ gocVer' = IF t = "llvm-goc" THEN edits ELSE gocVer
  /\ libgoVer' = IF t = "libgo" THEN gocVer ELSE libgoVer
  /\ UNCHANGED <<config, mk, edits, runs, cmakes>>

\* The recipe fails and leaves no stamp; make starts nothing more.
JobFails(t) ==
  /\ t \in running
  /\ running' = running \ {t}
  /\ mk' = "stopping"
  /\ UNCHANGED <<config, stamp, clock, gocVer, libgoVer, edits, runs, cmakes>>

\* make exits once no recipe is in flight and it has nothing left to do,
\* or after a failure.
FinishMake ==
  /\ MakeBusy
  /\ running = {}
  /\ mk = "stopping" \/ \A t \in Targets : ~OutOfDate(t)
  /\ mk' = IF mk = "stopping" THEN "failed" ELSE "ok"
  /\ UNCHANGED <<config, stamp, clock, gocVer, libgoVer, running, edits, runs, cmakes>>

Next ==
  \/ \E tr \in Triples, d \in BOOLEAN, sr \in Sysroots, pic \in BOOLEAN :
       Configure(tr, d, sr, pic)
  \/ \E d \in BOOLEAN : Reconfigure(d)
  \/ EditCompiler
  \/ RunMake
  \/ \E t \in Targets : StartJob(t) \/ JobSucceeds(t) \/ JobFails(t)
  \/ FinishMake

Spec == Init /\ [][Next]_vars

(***************************************************************************)
(* Properties.                                                             *)
(***************************************************************************)
\* A cached configuration: a generated tree always has one of the three
\* MPN_PATH values, a rejected one none.
ConfigType(phase, mpns) ==
  [phase : {phase}, triple : Triples, disable : BOOLEAN, sysroot : Sysroots,
   pic : BOOLEAN, mpn : mpns,
   cppflags : SUBSET {"-I", "--sysroot", "-fPIC", "-DPIC"},
   gocdep : SUBSET GoTargets]

TypeOK ==
  /\ config \in {NoConfig}
                \cup ConfigType("generated", {"x86_64 generic", "arm64 generic",
                                              "riscv generic"})
                \cup ConfigType("error", {""})
  /\ stamp \in [Targets \cup {Sources} -> 0..MaxClock]
  /\ clock \in 0..MaxClock
  /\ {gocVer, libgoVer} \subseteq 0..MaxEdits
  /\ mk \in {"idle", "running", "stopping", "ok", "failed"}
  /\ running \subseteq Targets /\ Cardinality(running) <= Jobs
  /\ edits \in 0..MaxEdits /\ runs \in 0..MaxRuns /\ cmakes \in 0..MaxCmake

\* The libraries each CONFIGURE_COMMAND is pointed at (--with-gmp,
\* --with-mpfr and the -I/-L of the shared install tree).
WithLibs(p) ==
  CASE p = "libgmp"  -> {}
    [] p = "libmpfr" -> {"libgmp"}
    [] p = "libmpc"  -> {"libgmp", "libmpfr"}

\* What each recipe reads: a step the tree its previous step left, the
\* configure of libmpfr and libmpc the libraries its CONFIGURE_COMMAND
\* names, llvm-goc the installed GMP, MPFR and MPC, and the Go code the
\* compiler itself ("we still need to insure that the compiler exists").
Needs(t) ==
  CASE t \in {Step(p, "download") : p \in Ext} -> {}
    [] t \in {Step(p, "configure") : p \in Ext} ->
         LET q == CHOOSE p \in Ext : t = Step(p, "configure")
         IN {Step(q, "download")} \cup {Step(d, "build") : d \in WithLibs(q)}
    [] t \in {Step(p, "build") : p \in Ext} ->
         {Step(CHOOSE p \in Ext : t = Step(p, "build"), "configure")}
    [] t = "llvm-goc"       -> {Step(p, "build") : p \in Ext}
    [] t = "llvm-goc-token" -> {"llvm-goc"}
    [] t = "libgo"          -> {"llvm-goc"}
    [] t = "gotools"        -> {"libgo", "llvm-goc"}

Order == INSTANCE BuildOrder WITH built <- {t \in Targets : stamp[t] > 0}

\* The generated build implements BuildOrder: whatever order make -jN, the
\* failures and the reruns produce, and however DISABLE_LIBGO_GOC_DEP is
\* set, every target is first made after what its recipe reads.  This is
\* what the DEPENDS lists of libmpfr and libmpc, the step chain of each
\* ExternalProject and the gocdep list (token included) are there for.
BuildOrderRefined == Order!Spec

\* A make run that ends successfully without DISABLE_LIBGO_GOC_DEP leaves
\* libgo compiled by a compiler built from the current sources: the gocdep
\* dependency forces the rebuild after every compiler change, also when
\* the escape hatch was switched off after stale builds.
LibgoFreshUnlessHatch ==
  (mk = "ok" /\ ~config.disable) => (gocVer = edits /\ libgoVer = edits)

====
