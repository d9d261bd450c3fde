-------------------------- MODULE MCFolderRequests --------------------------
EXTENDS FolderRequests

\* Folder 1 holds folder 2, folder 3 is apart from both.
MCPaths == {1, 2, 3}
MCBelow == [p \in MCPaths |-> IF p = 1 THEN {1, 2} ELSE {p}]

Def(include, exclude_, options_) ==
    [include |-> include, exclude |-> exclude_, options |-> options_]

\* Adding and removing an exclusion, switching options on and off, naming a
\* folder nested in another, and dropping and re-adding a folder.
MCDefinitions ==
    { Def({1}, {}, {"image"}), Def({1}, {2}, {"image"}),
      Def({1, 2}, {}, {"image", "videos"}), Def({1, 3}, {2}, {"ocr"}) }
=============================================================================
