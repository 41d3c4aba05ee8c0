\* Two tasks, the page runUser is executed from and one of the devices' pages.
CONSTANTS
  t1 = t1
  t2 = t2
  Tasks = {t1, t2}
  Kernel = Kernel
  text = text
  low = low
  Pages = {text, low}
  Text = text
  f1 = f1
  f2 = f2
  Frames = {f1, f2}
  NoFrame = NoFrame
  MaxTraps = 1
  MaxDrops = 1
SPECIFICATION Spec
SYMMETRY Symmetry
INVARIANTS
  PlatformTypeOK
  RegistersSurvive
  KernelSurvives
  
  KernelTranslations
  
  EntersUnlessDropped
\* The vCPU may be parked.
CHECK_DEADLOCK FALSE
