---------------------------- MODULE MCPackageFiles ----------------------------
\* Two resource packages and every combination of options.
EXTENDS PackageFiles

CONSTANTS M, F, P1, P2

TwoPacks == <<P1, P2>>

AllOptions == {o \in [flags : SUBSET Flags, permission : {"none", "readOnly", "writable"}] :
                 o.permission = "readOnly" => "validate" \notin o.flags}
=============================================================================
