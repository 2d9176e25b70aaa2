----------------------------- MODULE MCOtaSystem -----------------------------
EXTENDS OtaSystem

CONSTANTS good, bad

MCImage == {good, bad}
MCCrashy == {bad}
MCSize == [i \in MCImage |-> IF i = good THEN 2 ELSE 1]

MCNothing == {NoImage}

\* Two faults around the image staged, or a writer that meets it and no fault.
MCBudget == ((0..2) \X {0}) \cup {<<0, 1>>}
MCOneEach == (0..1) \X (0..1)
=============================================================================
