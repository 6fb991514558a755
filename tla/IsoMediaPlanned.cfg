CONSTANTS
  top = top
  sub = sub
  app = app
  app2 = app2
  kernel = kernel
  appRun = appRun
  appDevel = appDevel
  kernelRun = kernelRun
  Top = top
  Groups = {top, sub}
  Packages = {app, app2, kernel}
  Components = {appRun, appDevel, kernelRun}
  Kernels = {kernelRun}
  Members <- MCMembers
  Comps <- MCComps
  FileBase <- MCFileBase
  JobOrders <- MCJobOrders
  MaxBuilds = 2
  isoblocksize = 4
  maxisosize = 28
  Trees <- MCTrees
  Commons <- MCCommons
  InfoSize = 3
  ListSize = 2
  SizesOf <- MCSizesOf
  KindsOf <- MCKindsOf
SPECIFICATION SpecMedia
INVARIANT SplitAsPlanned
