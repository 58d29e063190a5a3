\* Three documents in a chain on disk, one edit (an open, a change or a disk
\* write), any number of gets, closes, rebuilds and config updates over three
\* enabled-url sets and two preload limits.
CONSTANTS
  a = a
  b = b
  c = c
  Docs = {a, b, c}
  InitialDisk <- MCInitialDisk
  MaxEdits = 1
  Fs <- MCFs
  DirPaths <- MCDirPaths
  IgnoredDirs <- MCIgnoredDirs
  Minified <- MCMinified
  PathOf <- MCPathOf
  UrlInputs <- MCUrlInputs
  Limits <- MCLimits
SPECIFICATION Spec
INVARIANT DependentsComplete DependentsTransitive
PROPERTY PreloadExact PreloadLimitKeepsStore
