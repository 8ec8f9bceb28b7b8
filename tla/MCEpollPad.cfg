\* mkepoll's 16-byte layout (arm64) declares the field Pad twice.
CONSTANTS
  GoArch <- MCGoArch
  GoOs <- MCGoOs
  ArchFamilies <- MCArchFamilies
  UpperOf <- MCUpperOf
  PkgLists <- MCPkgLists
  EpollSizes = {8, 12, 16}
  EpollOffsets = {4, 8}
  Scripts = {"mksysinfo.sh"}
  OutPaths = {"sysinfo.go", "errno.go"}
  Comments = {"Regenerating"}
  NoComment = NoComment
  NoFile = NoFile
  MaxCalls = 1
SPECIFICATION Spec
CHECK_DEADLOCK FALSE
INVARIANT EpollFieldsUnique
