----------------------------- MODULE GoGenFiles -----------------------------
(***************************************************************************)
(* libgo's CMake helpers (src/unnamed/part_001): the functions that write *)
(* Go source files while CMake configures the build, and the ones that    *)
(* add custom-command rules copying generated files into place.  One      *)
(* configure run calls them one after another; each call is one step.     *)
(*                                                                         *)
(* A generated file is abstracted to the sequence of Go declarations it   *)
(* holds, Decl(name, value), in the order of the file(APPEND) calls.  A   *)
(* name is a sequence whose first element is one character and whose      *)
(* other elements are the rest of the name, so that upperfirst's         *)
(* string(SUBSTRING) and string(TOUPPER) can be translated as they are.   *)
(* message(SEND_ERROR) marks the run failed and goes on; message(         *)
(* FATAL_ERROR) stops it, leaving files as far as they were written.      *)
(***************************************************************************)
EXTENDS Naturals, Sequences, FiniteSets, SequencesExt, Functions

CONSTANTS
  GoArch,        \* ${allgoarch}: sequence of architecture names
  GoOs,          \* ${allgoos}: sequence of OS names
  ArchFamilies,  \* ${allgoarchfamily}: sequence of family names
  UpperOf,       \* string(TOUPPER) on the characters it changes
  PkgLists,      \* ${libpackages} lists a caller may pass
  EpollSizes,    \* values SIZEOF_STRUCT_EPOLL_EVENT may have
  EpollOffsets,  \* values STRUCT_EPOLL_EVENT_FD_OFFSET may have
  Scripts,       \* source files: scripts generate_go_from_script runs, or
                 \* files a caller copies with copy_if_different (strings)
  OutPaths,      \* Go files the callers generate through rules (strings)
  Comments,      \* COMMENT strings a caller may pass to copy_if_different
  NoComment,     \* model value: no COMMENT argument
  NoFile,        \* model value: the file does not exist
  MaxCalls       \* bound on helper calls in one configure run

VARIABLES
  files,   \* generated file -> sequence of declarations, or NoFile
  rules,   \* add_custom_command rules: [out, cmd, deps, comment]
  status,  \* "ok", "error" (after SEND_ERROR) or "fatal" (stopped)
  calls    \* helper calls made so far

vars == <<files, rules, status, calls>>

GenFiles == {"version.go", "gccgosizes.go", "objabi.go", "zstdpkglist.go",
             "zdefaultcc.go", "epoll.go", "syscall_arch.go"}

N(s) == <<s>>                    \* a name written out in the code
Decl(name, val) == <<name, val>>

(* The value a goarch.sh invocation prints, and the compiler version      *)
(* string emitversionstring builds from ../VERSION and the LLVM version.  *)
GoarchSh(arch, arg) == <<"goarch.sh", arch, arg>>
VersionString == <<"VERSION", "gollvm LLVM", "LLVM_VERSION">>

Amd64 == <<"a", "md64">>         \* the literal "amd64" of mkversion

-----------------------------------------------------------------------------
(* Result of a helper: the file content and the worst message raised.    *)
Done(c) == [content |-> c, err |-> "none"]
SendError(c) == [content |-> c, err |-> "send"]
FatalError(c) == [content |-> c, err |-> "fatal"]

Upper(ch) == IF ch \in DOMAIN UpperOf THEN UpperOf[ch] ELSE ch

(* macro upperfirst: c1 = SUBSTRING 0 1, crem = SUBSTRING 1 -1.           *)
\* mutant: crem taken from position 0, so the first character stays
UpperfirstRemFromZero(name) ==
  LET c1 == SubSeq(name, 1, 1)
  IN [i \in DOMAIN c1 |-> Upper(c1[i])] \o SubSeq(name, 1, Len(name))
Upperfirst(name) ==
  LET c1 == SubSeq(name, 1, 1)
  IN [i \in DOMAIN c1 |-> Upper(c1[i])] \o SubSeq(name, 2, Len(name))

(* function emitversionstring, APPENDed as the value of a constant.       *)
EmitVersionString(name) == Decl(N(name), VersionString)

(* The foreach loops of mkversion over ${allgoarch} and ${allgoos}.       *)
OneHot(prefix, names, sel) ==
  [i \in DOMAIN names |->
     Decl(prefix \o Upperfirst(names[i]), IF names[i] = sel THEN 1 ELSE 0)]

(* The "Name:scriptarg" items of mkversion's constants list.              *)
ArchConsts ==
  <<<<"ArchFamily", "family">>, <<"BigEndian", "bigendian">>,
    <<"CacheLineSize", "cachelinesize">>, <<"PhysPageSize", "defaultphyspagesize">>,
    <<"PCQuantum", "pcquantum">>, <<"Int64Align", "int64align">>,
    <<"HugePageSize", "hugepagesize">>, <<"MinFrameSize", "minframesize">>>>

(* function mkversion.  fail is the goarch.sh call that exits non-zero,   *)
(* 0 when none does.                                                       *)
MkVersion(goos, goarch, fail) ==
  LET head == <<Decl(N("package"), "sys"), Decl(N("DefaultGoroot"), "bindir"),
                EmitVersionString("TheVersion"), Decl(N("GccgoToolDir"), "bindir")>>
      body == <<Decl(N("Goexperiment"), "emptyraw"), Decl(N("GOARCH"), goarch),
                Decl(N("GOOS"), goos), Decl(N("ArchFamilyType"), "int"),
                Decl(N("UNKNOWN"), 0)>>
              \o [i \in DOMAIN ArchFamilies |-> Decl(N(ArchFamilies[i]), i)]
              \o OneHot(<<"Goarch">>, GoArch, goarch)
      consts(k) == [i \in 1..k |-> Decl(N(ArchConsts[i][1]),
                                       GoarchSh(goarch, ArchConsts[i][2]))]
      tail == OneHot(<<"Goos">>, GoOs, goos) \o <<Decl(N("Uintreg"), "uintptr")>>
  IN CASE goarch # Amd64 -> FatalError(head)
       [] fail # 0       -> FatalError(head \o body \o consts(fail - 1))
       [] OTHER          -> Done(head \o body \o consts(Len(ArchConsts)) \o tail)

(* function mkgccgosizes: two goarch.sh calls per architecture; fail is   *)
(* the one that exits non-zero, 0 when none does.                          *)
\* mutant: the failure reported with SEND_ERROR, so configure goes on
MkGccgoSizesSendError(fail) ==
  LET entry(a) == Decl(a, <<GoarchSh(a, "ptrsize"), GoarchSh(a, "maxalign")>>)
      head == <<Decl(N("package"), "types"), Decl(N("gccgoArchSizes"), "map")>>
      done == (fail - 1) \div 2
  IN IF fail # 0
     THEN SendError(head \o [i \in 1..done |-> entry(GoArch[i])])
     ELSE Done(head \o [i \in DOMAIN GoArch |-> entry(GoArch[i])]
                    \o <<Decl(N("}"), "end")>>)
MkGccgoSizes(fail) ==
  LET entry(a) == Decl(a, <<GoarchSh(a, "ptrsize"), GoarchSh(a, "maxalign")>>)
      head == <<Decl(N("package"), "types"), Decl(N("gccgoArchSizes"), "map")>>
      done == (fail - 1) \div 2    \* architectures whose both calls passed
  IN IF fail # 0
     THEN FatalError(head \o [i \in 1..done |-> entry(GoArch[i])])
     ELSE Done(head \o [i \in DOMAIN GoArch |-> entry(GoArch[i])]
                    \o <<Decl(N("}"), "end")>>)

(* function mkobjabi: a fixed list of constants.                          *)
MkObjabi ==
  Done(<<Decl(N("package"), "objabi"), Decl(N("import"), "runtime"),
         Decl(N("defaultGOROOT"), "binroot"), Decl(N("defaultGO386"), "sse2"),
         Decl(N("defaultGOARM"), "5"), Decl(N("defaultGOMIPS"), "hardfloat"),
         Decl(N("defaultGOOS"), "runtime.GOOS"), Decl(N("defaultGOARCH"), "runtime.GOARCH"),
         Decl(N("defaultGO_EXTLINK_ENABLED"), "emptyraw"), EmitVersionString("version"),
         Decl(N("stackGuardMultiplier"), 1), Decl(N("goexperiment"), "emptyraw")>>)

(* function mkzstdpkglist: "$pack" has no braces, so CMake writes it as   *)
(* it stands instead of the package name.                                  *)
MkZstdPkgList(pkgs) ==
  Done(<<Decl(N("package"), "load"), Decl(N("stdpkg"), "map")>>
       \o [i \in DOMAIN pkgs |-> Decl(N("$pack"), TRUE)]
       \o <<Decl(N("}"), "end")>>)

(* function mkzdefaultcc: EXPORT capitalises the generated names.         *)
MkZDefaultCC(export) ==
  LET nm(n) == IF export THEN Upperfirst(n) ELSE n
  IN Done(<<Decl(N("package"), "package"),
            Decl(nm(<<"d", "efaultGCCGO">>), "driverpath"),
            Decl(nm(<<"d", "efaultCC">>), "ccpath"),
            Decl(nm(<<"d", "efaultCXX">>), "cxxpath"),
            Decl(nm(<<"d", "efaultPkgConfig">>), "pkg-config"),
            Decl(nm(<<"o", "SArchSupportsCgo">>), "map")>>)

(* function mkepoll: struct EpollEvent laid out from the configured size  *)
(* s and data.fd offset o; every field is 4 bytes.                        *)
\* mutant: the two 12-byte layouts exchanged
EpollFieldsSwapped(s, o) ==
  CASE s = 8 /\ o = 4  -> <<"Fd">>
    [] s = 12 /\ o = 4 -> <<"Pad", "Fd">>
    [] s = 12 /\ o = 8 -> <<"Fd", "Pad">>
    [] s = 16 /\ o = 8 -> <<"Pad", "Fd", "Pad">>
    [] OTHER           -> <<>>
EpollFields(s, o) ==
  CASE s = 8 /\ o = 4  -> <<"Fd">>
    [] s = 12 /\ o = 4 -> <<"Fd", "Pad">>
    [] s = 12 /\ o = 8 -> <<"Pad", "Fd">>
    [] s = 16 /\ o = 8 -> <<"Pad", "Fd", "Pad">>
    [] OTHER           -> <<>>
MkEpoll(s, o) ==
  LET fs == <<"Events">> \o EpollFields(s, o)
      c == <<Decl(N("package"), "syscall")>>
           \o [i \in DOMAIN fs |-> Decl(N(fs[i]), 4)]
           \o <<Decl(N("}"), "end")>>
  IN IF EpollFields(s, o) = <<>> THEN SendError(c) ELSE Done(c)

(* function mksyscallarch.                                                *)
MkSyscallArch(goos, goarch) ==
  Done(<<Decl(N("package"), "syscall"), Decl(N("ARCH"), goarch), Decl(N("OS"), goos)>>)

-----------------------------------------------------------------------------
(* function copy_if_different: a rule copying inpath to outpath.         *)
DefaultComment(in, out) == "Updating " \o out \o " from " \o in
\* mutant: the rule is added without its COMMENT
CopyIfDifferentNoComment(in, out, given) ==
  [out |-> out, cmd |-> <<"copy_if_different", in>>, deps |-> {in}]
CopyIfDifferent(in, out, given) ==
  LET comment == IF given = NoComment THEN "" ELSE DefaultComment(in, out)
  IN [out |-> out, cmd |-> <<"copy_if_different", in>>, deps |-> {in},
      comment |-> comment]

(* generate_go_from_script: ${outdir}/tmp-${outfile}, made by the script  *)
(* (or by capturescript.sh around it, with CAPTURE), copied if different. *)
TmpOf(out) == "tmp-" \o out
GenerateGoFromScript(out, script, capture) ==
  {[out |-> TmpOf(out),
    cmd |-> IF capture THEN <<"capturescript.sh", script>> ELSE <<"shell", script>>,
    deps |-> {script}, comment |-> "Creating " \o TmpOf(out)],
   CopyIfDifferent(TmpOf(out), out, NoComment)}

(* generate_go_from_archived: the archived ${outfile}.${goos}-${goarch}.  *)
Str(name) == FoldLeft(LAMBDA acc, x : acc \o x, "", name)
Archived(out, goos, goarch) == out \o "." \o Str(goos) \o "-" \o Str(goarch)
GenerateGoFromArchived(out, goos, goarch) ==
  {CopyIfDifferent(Archived(out, goos, goarch), out, NoComment)}
-----------------------------------------------------------------------------
(***************************************************************************)
(* The configure run.  Each helper call is one step; a FATAL_ERROR stops  *)
(* the run, so no step is enabled after it.                                *)
(***************************************************************************)
Init ==
  /\ files = [f \in GenFiles |-> NoFile]
  /\ rules = {}
  /\ status = "ok"
  /\ calls = 0

(* file(REMOVE), file(WRITE) and file(APPEND)s of one generator, and the  *)
(* message it raised.                                                      *)
Emit(f, r) ==
  /\ files' = [files EXCEPT ![f] = r.content]
  /\ status' = CASE r.err = "fatal" -> "fatal"
                 [] r.err = "send"  -> "error"
                 [] OTHER           -> status
  /\ UNCHANGED rules

Call(A) ==
  /\ status # "fatal"
  /\ calls < MaxCalls
  /\ calls' = calls + 1
  /\ A

MkVersionCall ==
  \E goos \in Range(GoOs), goarch \in Range(GoArch), fail \in 0..Len(ArchConsts) :
    Emit("version.go", MkVersion(goos, goarch, fail))
MkGccgoSizesCall ==
  \E fail \in 0..(2 * Len(GoArch)) : Emit("gccgosizes.go", MkGccgoSizes(fail))
MkObjabiCall == Emit("objabi.go", MkObjabi)
MkZstdPkgListCall ==
  \E pkgs \in PkgLists : Emit("zstdpkglist.go", MkZstdPkgList(pkgs))
MkZDefaultCCCall ==
  \E export \in BOOLEAN : Emit("zdefaultcc.go", MkZDefaultCC(export))
MkEpollCall ==
  \E s \in EpollSizes, o \in EpollOffsets : Emit("epoll.go", MkEpoll(s, o))
MkSyscallArchCall ==
  \E goos \in Range(GoOs), goarch \in Range(GoArch) :
    Emit("syscall_arch.go", MkSyscallArch(goos, goarch))

AddRules(rs) ==
  /\ rules' = rules \cup rs
  /\ UNCHANGED <<files, status>>

CopyIfDifferentCall ==
  \E in \in Scripts, out \in OutPaths, given \in Comments \cup {NoComment} :
    AddRules({CopyIfDifferent(in, out, given)})
GenerateGoFromScriptCall ==
  \E out \in OutPaths, script \in Scripts, capture \in BOOLEAN :
    AddRules(GenerateGoFromScript(out, script, capture))
GenerateGoFromArchivedCall ==
  \E out \in OutPaths, goos \in Range(GoOs), goarch \in Range(GoArch) :
    AddRules(GenerateGoFromArchived(out, goos, goarch))

Next ==
  Call(\/ MkVersionCall \/ MkGccgoSizesCall \/ MkObjabiCall
       \/ MkZstdPkgListCall \/ MkZDefaultCCCall \/ MkEpollCall
       \/ MkSyscallArchCall \/ CopyIfDifferentCall
       \/ GenerateGoFromScriptCall \/ GenerateGoFromArchivedCall)

Spec == Init /\ [][Next]_vars
-----------------------------------------------------------------------------
(***************************************************************************)
(* Definitions used by the properties.                                     *)
(***************************************************************************)
TypeOK ==
  /\ status \in {"ok", "error", "fatal"}
  /\ calls \in 0..MaxCalls
  /\ DOMAIN files = GenFiles
  /\ \A f \in GenFiles :
       files[f] = NoFile \/ \A i \in DOMAIN files[f] : Len(files[f][i]) = 2
  /\ \A r \in rules : DOMAIN r = {"out", "cmd", "deps", "comment"}

(* Reference capitalisation of a name: its first character in upper case. *)
Cap(s) == [i \in DOMAIN s |-> IF i = 1 THEN Upper(s[1]) ELSE s[i]]

(* The declarations between the package clause and the closing brace.    *)
Body(c) == SubSeq(c, 2, Len(c) - 1)
Names(ds) == [i \in DOMAIN ds |-> ds[i][1]]

(* The value declared for a fixed name in file content c.                 *)
ValueOf(c, k) == c[CHOOSE i \in DOMAIN c : c[i][1] = N(k)][2]

(* Each name of names has exactly one constant prefix+Cap(name) in c, set *)
(* to 1 for sel and 0 otherwise, so exactly one of them is 1.             *)
OneHotIn(c, prefix, names, sel) ==
  /\ \A a \in Range(names) :
       LET at == {i \in DOMAIN c : c[i][1] = prefix \o Cap(a)}
       IN /\ Cardinality(at) = 1
          /\ \A i \in at : c[i][2] = IF a = sel THEN 1 ELSE 0
  /\ Cardinality({a \in Range(names) : a = sel}) = 1

-----------------------------------------------------------------------------
(***************************************************************************)
(* Properties.                                                             *)
(***************************************************************************)

(* mkversion's loops over ${allgoarch} and ${allgoos}: a finished         *)
(* version.go declares, for every architecture and every OS, one         *)
(* constant Goarch<Name> / Goos<Name> whose name is upperfirst of the     *)
(* listed name, and exactly the target's constant is 1.                   *)
VersionConstsOneHot ==
  LET c == files["version.go"]
  IN (c # NoFile /\ Last(c) = Decl(N("Uintreg"), "uintptr")) =>
       /\ OneHotIn(c, <<"Goarch">>, GoArch, ValueOf(c, "GOARCH"))
       /\ OneHotIn(c, <<"Goos">>, GoOs, ValueOf(c, "GOOS"))

(* A goarch.sh call failing in mkversion or mkgccgosizes leaves the file  *)
(* cut short, which is harmless only because FATAL_ERROR stops configure: *)
(* while the run goes on, every written version.go carries all the       *)
(* architecture constants and every gccgosizes.go an entry per arch.      *)
FilesCompleteUnlessFatal ==
  status # "fatal" =>
    /\ files["version.go"] # NoFile =>
         \A k \in DOMAIN ArchConsts :
           \E i \in DOMAIN files["version.go"] :
             files["version.go"][i][1] = N(ArchConsts[k][1])
    /\ files["gccgosizes.go"] # NoFile =>
         Range(Names(Body(files["gccgosizes.go"]))) \ {N("gccgoArchSizes")}
           = Range(GoArch)

(* mkepoll lays struct EpollEvent out so that Fd lies at the configured  *)
(* data.fd offset and the struct has the configured size; a combination  *)
(* it does not know raises SEND_ERROR.                                    *)
EpollLayoutMatchesConfig ==
  [][\A s \in EpollSizes, o \in EpollOffsets :
       Emit("epoll.go", MkEpoll(s, o)) =>
         LET fs == Names(Body(files'["epoll.go"]))
         IN \/ /\ \E i \in DOMAIN fs : fs[i] = N("Fd") /\ 4 * (i - 1) = o
               /\ 4 * Len(fs) = s
            \/ status' = "error"]_vars

(* The fields of the generated struct EpollEvent have distinct names, as *)
(* Go requires of a struct type.                                           *)
EpollFieldsUnique ==
  files["epoll.go"] # NoFile => IsInjective(Names(Body(files["epoll.go"])))

(* mkzstdpkglist's comment: zstdpkglist.go holds "a map with all of the  *)
(* std Go packages", one key per package of ${libpackages}.               *)
StdPkgKeysArePackages ==
  [][\A pkgs \in PkgLists :
       Emit("zstdpkglist.go", MkZstdPkgList(pkgs)) =>
         LET ks == Names(Body(files'["zstdpkglist.go"])) \* after "stdpkg"
         IN /\ IsInjective(Tail(ks))
            /\ Range(Tail(ks)) = {N(p) : p \in Range(pkgs)}]_vars

(* copy_if_different's header: COMMENT is the "comment string to use     *)
(* other than the default" "Updating <out> from <in>".                    *)
CopyCommentAsDocumented ==
  [][\A in \in Scripts \cup {TmpOf(o) : o \in OutPaths}, out \in OutPaths,
        given \in Comments \cup {NoComment} :
       AddRules({CopyIfDifferent(in, out, given)}) =>
         \E r \in rules' :
           /\ r.out = out /\ r.deps = {in}
           /\ r.comment = IF given = NoComment THEN DefaultComment(in, out)
                                               ELSE given]_vars
====
