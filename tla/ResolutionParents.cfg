\* The same, for what becomes of methods.
CONSTANTS
  pa = pa
  pb = pb
  pc = pc
  pd = pd
  pe = pe
  pf = pf
  pg = pg
  kExport = kExport
  kBarrel = kBarrel
  kLocal = kLocal
  kWorker = kWorker
  NoValue = NoValue
  Shapes <- Cpp
  Sources <- SourceIds
  Path <- PathOfSource
  Nodes <- NodeIds
  Node <- NodeTable
  Refs <- RefIds
  Ref <- RefTable
  Implementations <- ImplementationIds
  Implementation <- ImplementationTable
  Names <- AllNames
  Keys <- AllKeys
  ExportValues <- ExportKeys
  Occurrences <- ScipIndex
  SymbolName <- SymbolNames
  KeyName <- KeyNames
SPECIFICATION Spec
INVARIANT ReparentedOnlyWhenUnique
