\* copy_if_different drops the default comment and ignores a given COMMENT.
CONSTANTS
  GoArch <- MCGoArch
  GoOs <- MCGoOs
  ArchFamilies <- MCArchFamilies
  UpperOf <- MCUpperOf
  PkgLists <- MCPkgLists
  EpollSizes = {8, 12, 16}
  EpollOffsets = {4, 8}
  Scripts = {"mksysinfo.sh"}
  OutPaths = {"sysinfo.go", "errno.go"}
  Comments = {"Regenerating"}
  NoComment = NoComment
  NoFile = NoFile
  MaxCalls = 1
SPECIFICATION Spec
CHECK_DEADLOCK FALSE
PROPERTY CopyCommentAsDocumented
