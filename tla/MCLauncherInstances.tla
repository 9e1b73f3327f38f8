------------------------ MODULE MCLauncherInstances -------------------------
EXTENDS LauncherInstances

CONSTANTS a, b
JustA == {a}

=============================================================================
