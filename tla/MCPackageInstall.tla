-------------------------- MODULE MCPackageInstall --------------------------
EXTENDS PackageInstall

CONSTANTS r1, r2, p1, p2

MCOrder == (r1 :> <<p1, p2>>) @@ (r2 :> <<p2, p1>>)
=============================================================================
