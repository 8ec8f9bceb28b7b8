CONSTANTS
  GoArch <- MCGoArch
  GoOs <- MCGoOs
  ArchFamilies <- MCArchFamilies
  UpperOf <- MCUpperOf
  PkgLists <- MCPkgLists
  EpollSizes = {0, 8, 12, 16}
  EpollOffsets = {0, 4, 8}
  Scripts = {"mksysinfo.sh"}
  OutPaths = {"sysinfo.go", "errno.go"}
  Comments = {"Regenerating"}
  NoComment = NoComment
  NoFile = NoFile
  MaxCalls = 3
SPECIFICATION Spec
CHECK_DEADLOCK FALSE
INVARIANT TypeOK
INVARIANT VersionConstsOneHot
INVARIANT FilesCompleteUnlessFatal
PROPERTY EpollLayoutMatchesConfig
