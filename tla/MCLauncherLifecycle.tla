------------------------ MODULE MCLauncherLifecycle ------------------------
EXTENDS LauncherLifecycle
=============================================================================
