--------------------------- MODULE MCDirectoryScan ---------------------------
EXTENDS DirectoryScan

\* A root with one directory, and a file in each.
MCDirs == {1, 2}
MCParent == [d \in MCDirs \ {1} |-> 1]
MCAbove == [d \in MCDirs |-> {c \in MCDirs : c = 1 \/ c = d}]
MCFiles == {"rooted", "nested"}
MCHome == [f \in MCFiles |-> IF f = "rooted" THEN 1 ELSE 2]

\* A directory in a directory of the root, with a file in each.
DeepDirs == {1, 2, 3}
DeepParent == [d \in DeepDirs \ {1} |-> d - 1]
DeepAbove == [d \in DeepDirs |-> 1..d]
DeepFiles == {"nested", "deep"}
DeepHome == [f \in DeepFiles |-> IF f = "nested" THEN 2 ELSE 3]

NoExclusions == {{}}
MCExclusions == {{}, {2}}
=============================================================================
