----------------------------- MODULE MCIsoMedia -----------------------------
(* A group with a group in it, two packages whose change sets would get the *)
(* same file name, and a kernel; change sets of one to three blocks, exact  *)
(* and not, of every kind.                                                  *)
EXTENDS IsoMedia

CONSTANTS top, sub, app, app2, kernel, appRun, appDevel, kernelRun

MCMembers == [g \in {top, sub} |-> IF g = top THEN {sub, app} ELSE {app, app2, kernel}]
MCComps == [p \in {app, app2, kernel} |->
              IF p = app THEN {appRun, appDevel} ELSE IF p = kernel THEN {kernelRun} ELSE {}]
MCFileBase == [t \in {top, sub, app, app2, kernel} |-> IF t = app2 THEN app ELSE t]
Canonical == <<appRun, kernelRun, app, app2, kernel, appDevel, sub, top>>
MCJobOrders == {Canonical, Reverse(Canonical)}

Of(a, b, c, d, e) ==
  [t \in {top, sub, app, app2, kernel} |->
     IF t = top THEN a ELSE IF t = sub THEN b ELSE IF t = app THEN c ELSE IF t = app2 THEN d ELSE e]
MCSizesOf == {Of(3, 4, 9, 4, 9), Of(9, 9, 3, 4, 4), Of(9, 3, 9, 9, 3)}
MCKindsOf == {Of("base", "reserved", "plain", "info", "reserved"),
              Of("base", "reserved", "reserved", "plain", "plain"),
              Of("base", "plain", "plain", "reserved", "reserved")}
MCTrees == {<<3>>, <<4, 7>>}
MCCommons == {<<>>, <<6>>}
=============================================================================
