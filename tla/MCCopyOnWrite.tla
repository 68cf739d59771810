-------------------------- MODULE MCCopyOnWrite --------------------------
EXTENDS CopyOnWrite

CONSTANTS s1, s2, v1, v2

MCSpaces == {s1, s2}
MCPages == {v1, v2}
MCShared == {v2}
MCParent == {s1}
MCValues == {0, 1}
MCContended == {"allocate", "receipt"}
=============================================================================
