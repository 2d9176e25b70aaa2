---------------------------- MODULE MCLightControl ----------------------------
EXTENDS LightControl

MCLux == {0, 2000}
MCNoLux == -1
MCPercent == {100}
=============================================================================
