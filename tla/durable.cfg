\* One-shot processes, any of which may be killed.
CONSTANTS
  apply = apply
  lib = lib
  manifest = manifest
  full = full
  slim = slim
  leaky = leaky
  headless = headless
  Version = {full, slim, leaky, headless}
  Sound = {full, slim}
  File = {apply, lib, manifest}
  Apply = apply
  Manifest = manifest
  FilesOf <- SmallFiles
  NoDir = NoDir
  None = None
  Resident = FALSE
SPECIFICATION Spec
INVARIANTS
  DurableTypeOK
  OnlyValidated
PROPERTIES
  ApplyInstalls
  NeverLost
