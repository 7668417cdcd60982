\* elf_load over files that reach every branch, with failing reads, then
\* the user stack of the process it loaded.
CONSTANTS
  PAGE = 4
  HDR = 2
  VPages <- MCVPages
  Files <- MCFiles
  IOCanFail = TRUE
  NoInterp = NoInterp
  USER_STACK_SIZE = 32768
  StackBases <- MCStackBases
  Args <- MCArgs
  Envs <- MCEnvs
  StrLen <- MCStrLen
  s1 = s1
  s2 = s2
  s3 = s3
  Huge = Huge
  AUXV_SECURE = 23
  AUXV_ENTRY = 9
  AUXV_PHDR = 3
  AUXV_PHENT = 4
  AUXV_PHNUM = 5
  Junk = Junk

SPECIFICATION ExecSpec
\* elf_load returns, and the stack is set up once: the run ends.
CHECK_DEADLOCK FALSE
INVARIANTS TypeOK LoadedImageCorrect SuccessHeapOwnership StackAligned StringsIntact StackFramePlaced
