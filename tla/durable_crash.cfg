\* One-shot processes; what a killed one leaves installed.
CONSTANTS
  apply = apply
  lib = lib
  manifest = manifest
  full = full
  slim = slim
  leaky = leaky
  headless = headless
  Version = {full, slim, leaky, headless}
  Sound = {full, slim}
  File = {apply, lib, manifest}
  Apply = apply
  Manifest = manifest
  FilesOf <- SmallFiles
  NoDir = NoDir
  None = None
  Resident = FALSE
SPECIFICATION Spec
INVARIANT AtomicReplace
