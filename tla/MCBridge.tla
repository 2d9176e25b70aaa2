------------------------------- MODULE MCBridge -------------------------------
EXTENDS Bridge

CONSTANTS one, two

MCImage == {one, two}
MCOneImage == {one}
MCPromoted == {one}
MCSize == [i \in Image |-> IF i = one THEN 2 ELSE 1]
=============================================================================
