-------------------------- MODULE MCDepartmentIds --------------------------
EXTENDS DepartmentIds
CONSTANTS p1, p2, a1, i1, i2, i3
\* Two projects of one account, whose ranges can change; one id is external.
TwoProjects == {p1, p2}
OneAccount == {a1}
ItsAccount == [p \in TwoProjects |-> a1]
ThreeIds == {i1, i2, i3}
TwoBlocks == {<<i1, i2, i3>>, <<i2>>}
Whole == <<i1, i2, i3>>
OneExternal == {i1}
===========================================================================
