------------------------ MODULE FolderRequestsProofs ------------------------
(***************************************************************************)
(* What FolderRequests guarantees for every set of folders and every set   *)
(* of definitions: the invariant that ties rows and scans together, and    *)
(* that a folder without a pending request was scanned with a definition   *)
(* that covers the present one.                                            *)
(***************************************************************************)
EXTENDS FolderRequests, FiniteSetTheorems, WellFoundedInduction, TLAPS

USE FolderAssumption DEF FolderAssumption

-----------------------------------------------------------------------------
(* Request numbers.                                                         *)

\* The folders an edit asks for are numbered above the sequence, within the
\* sequence it stores, and each differently (NumberOf, write_folders).
LEMMA Numbering ==
    ASSUME sequence \in Nat, NEW def \in Definition, NEW p \in Asked(def)
    PROVE  /\ Cardinality(Asked(def)) \in Nat
           /\ NumberOf(def, p) \in Nat
           /\ sequence < NumberOf(def, p)
           /\ NumberOf(def, p) <= sequence + Cardinality(Asked(def))
           /\ \A q \in Asked(def) : NumberOf(def, q) = NumberOf(def, p) => q = p
<1> DEFINE A == Asked(def)
           upTo(q) == {r \in A : r <= q}
<1>1. A \subseteq Paths /\ Paths \subseteq Nat
  BY FolderAssumption DEF Asked, Rescan, Definition
<1>0. p \in A /\ \A q \in A : q \in Nat
  BY <1>1
<1>2. IsFiniteSet(A)
  BY <1>1, FolderAssumption, FS_Subset
<1>3. \A q \in A : /\ IsFiniteSet(upTo(q)) /\ upTo(q) \in SUBSET A
                   /\ Cardinality(upTo(q)) \in Nat
                   /\ Cardinality(upTo(q)) <= Cardinality(A)
                   /\ Cardinality(upTo(q)) # 0
  <2> TAKE q \in A
  <2>1. upTo(q) \in SUBSET A
    OBVIOUS
  <2>2. IsFiniteSet(upTo(q)) /\ Cardinality(upTo(q)) <= Cardinality(A)
    BY <2>1, <1>2, FS_Subset
  <2>3. q \in Nat /\ q \in upTo(q)
    BY <1>0
  <2> HIDE DEF upTo, A
  <2>4. Cardinality(upTo(q)) # 0
    BY <2>2, <2>3, FS_EmptySet
  <2> QED
    BY <2>1, <2>2, <2>4, FS_CardinalityType
<1>4. \A q, r \in A : q < r => Cardinality(upTo(q)) # Cardinality(upTo(r))
  <2> SUFFICES ASSUME NEW q \in A, NEW r \in A, q < r,
                      Cardinality(upTo(q)) = Cardinality(upTo(r))
               PROVE  FALSE
    OBVIOUS
  <2> q \in Nat /\ r \in Nat
    BY <1>0
  <2>1. upTo(q) \in SUBSET upTo(r)
    <3> SUFFICES ASSUME NEW x \in A, x <= q PROVE x <= r
      OBVIOUS
    <3>1. x \in Nat
      BY <1>0
    <3> HIDE DEF A
    <3> QED BY <3>1
  <2>2. r \in upTo(r) /\ r \notin upTo(q)
    OBVIOUS
  <2>3. IsFiniteSet(upTo(r))
    BY <1>3
  <2> HIDE DEF upTo
  <2>4. upTo(r) = upTo(q)
    BY <2>1, <2>3, FS_Subset
  <2> QED
    BY <2>2, <2>4
<1>5. \A q \in A : NumberOf(def, q) = sequence + Cardinality(upTo(q))
  BY DEF NumberOf
<1>6. Cardinality(A) \in Nat
  BY <1>2, FS_CardinalityType
<1>7. \A q \in A : NumberOf(def, q) = NumberOf(def, p) => q = p
  <2> SUFFICES ASSUME NEW q \in A, NumberOf(def, q) = NumberOf(def, p), q # p
               PROVE  FALSE
    OBVIOUS
  <2>1. Cardinality(upTo(q)) = Cardinality(upTo(p))
    <3> HIDE DEF upTo, A
    <3> QED BY <1>0, <1>3, <1>5
  <2>2. q < p \/ p < q
    <3> HIDE DEF A
    <3> QED BY <1>0
  <2> QED
    BY <1>4, <2>1, <2>2
<1> HIDE DEF upTo, A
<1>8. sequence < NumberOf(def, p) /\ NumberOf(def, p) <= sequence + Cardinality(A)
      /\ NumberOf(def, p) \in Nat
  BY <1>3, <1>5, <1>6 DEF A
<1> QED
  BY <1>6, <1>7, <1>8 DEF A

-----------------------------------------------------------------------------
(* The invariant.                                                           *)

\* Before the first definition is saved nothing is included or scanning.
LEMMA InitFolderInv == Init => FolderInv
<1> SUFFICES ASSUME Init PROVE FolderInv
  OBVIOUS
<1>1. TypeOK
  BY DEF Init, TypeOK, Row, NoRow, Scan, NotScanning, Outcomes, Threads, NoMarks, Uncovered,
         SearchOptions
<1>2. Included = {}
  BY DEF Init, Included
<1>3. \A p \in Paths : ScanInv(p)
  BY <1>2 DEF Init, ScanInv, NotScanning
<1> QED
  BY <1>1, <1>2, <1>3 DEF FolderInv

\* A step that edits no definition and completes no request can disturb only
\* the parts of the invariant that are about the scan.
LEMMA SameRequests ==
    ASSUME FolderInv, TypeOK', UNCHANGED stored, Included' = Included,
           \A p \in Included : /\ rows'[p].requested = rows[p].requested
                               /\ rows'[p].completed = rows[p].completed,
           \A p \in Paths : \/ ScanInv(p)'
                            \/ /\ scan'.read[p] = scan.read[p]
                               /\ scan'.limited = scan.limited /\ scan'.exclude = scan.exclude
                               /\ scan'.limited \/ scan'.indexes = scan.indexes
                               /\ p \in scan'.left => scan'.read[p] # 0
    PROVE  FolderInv'
<1>1. exclude' = exclude /\ options' = options /\ sequence' = sequence
  BY DEF stored
<1>2. \A p \in Paths : Pending(p)' <=> Pending(p)
  BY DEF Pending, PendingRow
<1>3. \A p \in Included' : RowInv(p)'
  BY <1>1 DEF RowInv, FolderInv
<1>4. \A p \in Paths : ScanInv(p)'
  <2> TAKE p \in Paths
  <2>1. CASE ScanInv(p)'
    BY <2>1
  <2>2. CASE ~ScanInv(p)'
    <3>1. ScanInv(p)
      BY DEF FolderInv
    <3>2. ~scan'.limited /\ Covers(scan, p) => Covers(scan, p)'
      BY <2>2, <1>1 DEF Covers
    <3> QED
      BY <2>2, <3>1, <3>2, <1>1, <1>2 DEF ScanInv
  <2> QED
    BY <2>1, <2>2
<1> QED
  BY <1>3, <1>4 DEF FolderInv

\* Every variable keeps its type.
LEMMA NextType == TypeOK /\ [Next]_vars => TypeOK'
<1> SUFFICES ASSUME TypeOK, [Next]_vars PROVE TypeOK'
  OBVIOUS
<1> USE DEF TypeOK
<1>1. ASSUME NEW def \in Definitions, Save(def) PROVE TypeOK'
  <2>1. def \in Definition
    OBVIOUS
  <2>2. \A p \in Paths : Written(def, p) \in Row
    <3> SUFFICES ASSUME NEW p \in Paths PROVE Written(def, p) \in Row
      OBVIOUS
    <3>1. CASE p \in Asked(def)
      <4>1. NumberOf(def, p) \in Nat
        BY <2>1, <3>1, Numbering
      <4>2. PICK old \in Row :
               Written(def, p) = [old EXCEPT !.requested = NumberOf(def, p), !.outcome = "none"]
        <5>1. p \in def.include
          BY <2>1, <3>1 DEF Asked, Rescan
        <5>2. rows[p] \in Row /\ [requested |-> 0, completed |-> 0, outcome |-> "none"] \in Row
          BY DEF Row
        <5> QED
          BY <3>1, <5>1, <5>2 DEF Written
      <4> HIDE DEF TypeOK
      <4> QED
        BY <4>1, <4>2 DEF Row
    <3>2. CASE p \notin Asked(def)
      <4>1. rows[p] \in Row /\ NoRow \in Row
        BY DEF Row, NoRow
      <4>2. p \in def.include => p \in Included
        BY <2>1, <3>2 DEF Asked
      <4> QED
        BY <3>2, <4>1, <4>2 DEF Written
    <3> QED
      BY <3>1, <3>2
  <2>3. sequence' \in Nat
    <3>1. CASE Asked(def) = {}
      BY <1>1, <3>1, FS_EmptySet DEF Save
    <3>2. CASE Asked(def) # {}
      <4>1. PICK p : p \in Asked(def)
        BY <3>2
      <4> QED
        BY <1>1, <2>1, <4>1, Numbering DEF Save
    <3> QED
      BY <3>1, <3>2
  <2> QED
    BY <1>1, <2>1, <2>2, <2>3 DEF Save, Definition
<1>2. CASE Delete
  BY <1>2 DEF Delete, NoRow, Row, Outcomes
<1>3. ASSUME NEW pendingOnly \in BOOLEAN, NEW limited \in Limits, ScanStart(pendingOnly, limited)
      PROVE  TypeOK'
  <2>1. scan' \in Scan
    <3>1. \A p \in Paths : rows[p].requested \in Nat
      BY DEF Row
    <3>2. Indexes(options) \subseteq SearchOptions
      BY DEF Indexes
    <3>3. Outer(Selected(pendingOnly)) \subseteq Paths
      BY DEF Outer, Selected, Included
    <3> QED
      BY <1>3, <3>1, <3>2, <3>3 DEF ScanStart, NotScanning, Scan, Outcomes
  <2> QED
    BY <1>3, <2>1 DEF ScanStart, stored
<1>4. CASE ScanStep
  <2>1. ASSUME NEW w \in Paths, WalkSucceeds(w) PROVE TypeOK'
    BY <2>1 DEF WalkSucceeds, Scan, stored
  <2>2. ASSUME NEW w \in Paths, NEW outcome \in Outcomes, WalkFails(w, outcome) PROVE TypeOK'
    <3>1. Folders(w) \subseteq Paths
      BY DEF Folders
    <3> QED
      BY <2>2, <3>1 DEF WalkFails, Scan, stored
  <2>3. ASSUME NEW p \in Paths, FailFolder(p) PROVE TypeOK'
    <3>1. rows' \in [Paths -> Row]
      <4>1. rows[p] \in Row /\ scan.outcome \in Outcomes \cup {"none"}
        BY DEF Scan
      <4>2. [rows[p] EXCEPT !.outcome = scan.outcome] \in Row
        BY <4>1 DEF Row
      <4>3. rows' = [rows EXCEPT ![p] = [rows[p] EXCEPT !.outcome = scan.outcome]] \/ rows' = rows
        BY <2>3 DEF FailFolder
      <4> QED
        BY <4>2, <4>3
    <3> QED
      BY <2>3, <3>1 DEF FailFolder, Scan, stored
  <2>4. ASSUME NEW p \in Paths, CompleteFolder(p) PROVE TypeOK'
    <3>1. rows' \in [Paths -> Row]
      <4>1. rows[p] \in Row /\ scan.read[p] \in Nat
        BY DEF Scan
      <4>2. CompletedRow(p) \in Row
        BY <4>1 DEF CompletedRow, Row
      <4> QED
        BY <2>4, <4>2 DEF CompleteFolder
    <3> QED
      BY <2>4, <3>1 DEF CompleteFolder, Scan, stored
  <2>5. CASE FailedAll
    BY <2>5 DEF FailedAll, Scan, stored
  <2>6. CASE IndexStage
    BY <2>6 DEF IndexStage, Scan, stored
  <2>7. CASE Indexed
    <3>1. \A w \in Paths : Folders(w) \subseteq Paths
      BY DEF Folders
    <3>2. UNION {Folders(w) : w \in scan.done} \subseteq Paths
      <4>1. scan.done \subseteq Paths
        BY DEF Scan
      <4> HIDE DEF TypeOK
      <4>2. ASSUME NEW w \in scan.done, NEW p \in Folders(w) PROVE p \in Paths
        BY <3>1, <4>1
      <4> QED
        BY <4>2
    <3>3. scan' \in Scan
      <4> DEFINE left == UNION {Folders(w) : w \in scan.done}
      <4>1. PICK x \in SUBSET SearchOptions :
               scan' = [scan EXCEPT !.pc = "complete", !.indexes = x, !.left = left]
        BY <2>7 DEF Indexed, Scan
      <4>2. left \subseteq Paths
        BY <3>2
      <4> HIDE DEF left
      <4> QED
        BY <4>1, <4>2 DEF Scan
    <3> QED
      BY <2>7, <3>3 DEF Indexed, stored
  <2>8. CASE Mark("worker")
    BY <2>8 DEF Mark, Marked, Row, Threads, stored
  <2>9. CASE ScanEnds
    BY <2>9 DEF ScanEnds, NotScanning, Scan, stored
  <2> QED
    BY <1>4, <2>1, <2>2, <2>3, <2>4, <2>5, <2>6, <2>7, <2>8, <2>9 DEF ScanStep
<1>5. ASSUME NEW outcome \in {"cancelled", "failed"}, ScanStops(outcome) PROVE TypeOK'
  <2>1. ToMark \subseteq Paths \X Nat
    BY DEF ToMark, Attempted, PendingNow, Scan, Row
  <2>2. scan' \in Scan
    BY <1>5 DEF ScanStops, Scan
  <2> QED
    BY <1>5, <2>1, <2>2 DEF ScanStops, Outcomes, Threads, stored
<1>6. PendingNow \subseteq Paths \X Nat
  BY DEF PendingNow, Row
<1>7. CASE ScanNeverRead
  <2>1. scan' \in Scan
    BY <1>7 DEF ScanNeverRead, Scan
  <2> QED
    BY <1>7, <1>6, <2>1 DEF ScanNeverRead, Outcomes, Threads, stored
<1>8. CASE CancelQueued
  BY <1>8, <1>6 DEF CancelQueued, Outcomes, Threads, stored
<1>9. CASE Mark("client")
  BY <1>9 DEF Mark, Marked, Row, Threads, stored
<1>10. CASE Crash
  BY <1>10 DEF Crash, NotScanning, Scan, NoMarks, Outcomes, Threads, stored
<1>11. CASE Boot
  BY <1>11 DEF Boot, NotScanning, Scan, stored
<1>12. CASE UNCHANGED vars
  BY <1>12 DEF vars
<1> QED
  BY <1>1, <1>2, <1>3, <1>4, <1>5, <1>7, <1>8, <1>9, <1>10, <1>11, <1>12 DEF Next

\* What a name or a request number may be, for every folder and every state.
THEOREM FolderTypeCorrect == Spec => []TypeOK
<1>1. Init => TypeOK
  BY InitFolderInv DEF FolderInv
<1> QED
  BY <1>1, NextType, PTL DEF Spec
-----------------------------------------------------------------------------
(* Every step keeps the invariant.                                          *)

\* What an edit does to a folder: it asks for it, above every number handed
\* out so far, or leaves its row alone, and then whatever covered the folder
\* still does (update_library, write_folders).
LEMMA SavedFolders ==
    ASSUME FolderInv, NEW def \in Definitions, Save(def), NEW p \in Included'
    PROVE  /\ p \in Asked(def) =>
                 /\ rows'[p].requested = NumberOf(def, p)
                 /\ rows'[p].completed \in Nat /\ rows'[p].completed <= sequence
           /\ p \notin Asked(def) =>
                 /\ p \in Included /\ rows'[p] = rows[p]
                 /\ Covers(scan, p) => Covers(scan, p)'
                 /\ Covers(covered[p], p) => Covers(covered[p], p)'
<1>1. def \in Definition /\ TypeOK
  BY DEF FolderInv
<1>2. p \in Paths /\ rows'[p] = Written(def, p) /\ p \in def.include
  <2>1. p \in Paths /\ rows'[p] # NoRow
    BY DEF Included
  <2>2. rows'[p] = Written(def, p)
    BY <2>1 DEF Save
  <2> QED
    BY <2>1, <2>2 DEF Written
<1>3. ASSUME p \in Asked(def)
      PROVE  /\ rows'[p].requested = NumberOf(def, p)
             /\ rows'[p].completed \in Nat /\ rows'[p].completed <= sequence
  <2> DEFINE old == IF p \in Included THEN rows[p]
                    ELSE [requested |-> 0, completed |-> 0, outcome |-> "none"]
  <2>1. rows'[p] = [old EXCEPT !.requested = NumberOf(def, p), !.outcome = "none"]
    BY <1>2, <1>3 DEF Written
  <2>2. old \in Row
    BY <1>1, <1>2 DEF TypeOK, Row
  <2>3. old.completed \in Nat /\ old.completed <= sequence
    BY <1>1, <1>2, <2>2 DEF FolderInv, RowInv, TypeOK, Row
  <2> HIDE DEF old
  <2> QED
    BY <2>1, <2>2, <2>3 DEF Row
<1>4. ASSUME p \notin Asked(def) PROVE p \in Included /\ rows'[p] = rows[p]
  BY <1>2, <1>4 DEF Asked, Written
<1>5. ASSUME p \notin Asked(def)
      PROVE  /\ Covers(scan, p) => Covers(scan, p)'
             /\ Covers(covered[p], p) => Covers(covered[p], p)'
  <2>1. Indexes(options') \subseteq Indexes(options)
    BY <1>2, <1>5 DEF Asked, Rescan, Save
  <2>2. \A e \in exclude \ exclude' : e \notin Below[p]
    BY <1>2, <1>5 DEF Asked, Rescan, Save
  <2>3. Indexes(options)' = Indexes(options')
    BY DEF Indexes
  <2>4. scan' = scan /\ covered' = covered
    BY DEF Save
  <2> QED
    BY <2>1, <2>2, <2>3, <2>4 DEF Covers
<1> QED
  BY <1>3, <1>4, <1>5

\* An edit keeps the invariant: numbers stay distinct, and a request that a
\* running scan holds is either untouched or superseded by a pending one.
LEMMA SaveFolderInv ==
    ASSUME FolderInv, NEW def \in Definitions, Save(def) PROVE FolderInv'
<1>1. def \in Definition /\ TypeOK /\ TypeOK'
  <2>1. TypeOK
    BY DEF FolderInv
  <2> QED
    BY <2>1, NextType DEF Next
<1>2. sequence \in Nat /\ sequence' \in Nat /\ sequence <= sequence'
      /\ \A p \in Asked(def) : /\ NumberOf(def, p) \in Nat
                               /\ sequence < NumberOf(def, p) /\ NumberOf(def, p) <= sequence'
                               /\ \A q \in Asked(def) : NumberOf(def, q) = NumberOf(def, p) => q = p
  <2>1. sequence \in Nat /\ sequence' \in Nat
    BY <1>1 DEF TypeOK
  <2>2. CASE Asked(def) = {}
    BY <2>1, <2>2, FS_EmptySet DEF Save
  <2>3. CASE Asked(def) # {}
    <3>1. sequence' = sequence + Cardinality(Asked(def))
      BY DEF Save
    <3>2. \A p \in Asked(def) : /\ NumberOf(def, p) \in Nat /\ Cardinality(Asked(def)) \in Nat
                                /\ sequence < NumberOf(def, p) /\ NumberOf(def, p) <= sequence'
                                /\ \A q \in Asked(def) : NumberOf(def, q) = NumberOf(def, p) => q = p
      BY <1>1, <2>1, <3>1, Numbering
    <3> QED
      BY <2>1, <2>3, <3>1, <3>2
  <2> QED
    BY <2>2, <2>3
<1>3. \A p \in Included' : RowInv(p)'
  <2>1. \A p \in Included' :
           /\ p \in Asked(def) =>
                 /\ rows'[p].requested = NumberOf(def, p)
                 /\ rows'[p].completed \in Nat /\ rows'[p].completed <= sequence
           /\ p \notin Asked(def) => p \in Included /\ rows'[p] = rows[p]
    BY SavedFolders
  <2>2. \A p \in Included : RowInv(p) /\ rows[p].requested \in Nat /\ rows[p].completed \in Nat
    BY <1>1 DEF FolderInv, Included, TypeOK, Row
  <2>3. ASSUME NEW p \in Included', NEW q \in Included', rows'[p].requested = rows'[q].requested
        PROVE  p = q
    BY <1>2, <2>1, <2>2, <2>3 DEF RowInv
  <2>4. ASSUME NEW p \in Included'
        PROVE  /\ rows'[p].requested >= 1 /\ rows'[p].requested <= sequence'
               /\ rows'[p].completed <= rows'[p].requested
    BY <1>2, <2>1, <2>2 DEF RowInv
  <2> QED
    BY <2>3, <2>4 DEF RowInv
<1>4. \A p \in Paths : ScanInv(p)'
  <2> TAKE p \in Paths
  <2>1. ScanInv(p) /\ scan.read[p] \in Nat /\ scan' = scan
    BY <1>1 DEF FolderInv, TypeOK, Scan, Save
  <2>2. ASSUME p \in Included', p \in Asked(def)
        PROVE  scan.read[p] < rows'[p].requested /\ Pending(p)' /\ rows'[p].requested \in Nat
    <3>1. /\ rows'[p].requested = NumberOf(def, p)
          /\ rows'[p].completed \in Nat /\ rows'[p].completed <= sequence
      BY <2>2, SavedFolders
    <3> QED
      BY <1>2, <2>1, <2>2, <3>1 DEF Pending, PendingRow, ScanInv
  <2>3. ASSUME p \in Included', p \notin Asked(def)
        PROVE  p \in Included /\ rows'[p] = rows[p] /\ (Covers(scan, p) => Covers(scan, p)')
    BY <2>3, SavedFolders
  <2>4. scan.read[p] <= sequence'
    BY <1>2, <2>1 DEF ScanInv
  <2>5. CASE p \notin Included'
    BY <2>1, <2>4, <2>5 DEF ScanInv
  <2>6. CASE p \in Included' /\ p \in Asked(def)
    BY <2>1, <2>2, <2>4, <2>6 DEF ScanInv
  <2>7. CASE p \in Included' /\ p \notin Asked(def)
    <3>1. Pending(p) => Pending(p)'
      BY <2>3, <2>7 DEF Pending, PendingRow
    <3> QED
      BY <2>1, <2>3, <2>4, <2>7, <3>1 DEF ScanInv
  <2> QED
    BY <2>5, <2>6, <2>7
<1> QED
  BY <1>1, <1>3, <1>4 DEF FolderInv

\* What completing a folder does to its row, while the folder is there: its
\* request stays, it is not completed beyond it, and if the scan read an older
\* request the folder is still pending (complete_folder_scan).
LEMMA CompletedFolder ==
    ASSUME FolderInv, NEW p \in Paths, CompleteFolder(p)
    PROVE  /\ Included' = Included
           /\ \A q \in Paths \ {p} : rows'[q] = rows[q]
           /\ p \in Included =>
                 /\ rows'[p].requested = rows[p].requested
                 /\ rows'[p].completed \in Nat
                 /\ rows'[p].completed <= rows[p].requested
                 /\ scan.read[p] # rows[p].requested => Pending(p)'
                 /\ scan.read[p] = rows[p].requested /\ ~scan.limited => Covers(scan, p)
<1>1. TypeOK /\ ScanInv(p) /\ scan.read[p] # 0
  BY DEF FolderInv, ScanInv, CompleteFolder
<1>2. scan.read[p] \in Nat /\ rows[p] \in Row /\ rows \in [Paths -> Row]
  BY <1>1 DEF TypeOK, Scan
<1>3. \A q \in Paths \ {p} : rows'[q] = rows[q]
  BY <1>2 DEF CompleteFolder
<1>4. CASE p \notin Included
  BY <1>3, <1>4 DEF CompleteFolder, Included
<1>5. CASE p \in Included
  <2>1. rows'[p] = CompletedRow(p) /\ RowInv(p)
    BY <1>2, <1>5 DEF CompleteFolder, FolderInv
  <2>2. /\ rows'[p].requested = rows[p].requested
        /\ rows'[p].completed = IF rows[p].completed > scan.read[p] THEN rows[p].completed
                                ELSE scan.read[p]
    BY <1>2, <2>1 DEF CompletedRow, Row
  <2>3. rows[p].requested \in Nat /\ rows[p].completed \in Nat
    BY <1>2 DEF Row
  <2>4. p \in Included'
    BY <2>1, <2>2, <2>3 DEF Included, RowInv, NoRow
  <2>5. Included' = Included
    BY <1>3, <1>5, <2>4 DEF Included
  <2>6. rows'[p].completed \in Nat /\ rows'[p].completed <= rows[p].requested
    BY <1>1, <1>2, <1>5, <2>1, <2>2, <2>3 DEF RowInv, ScanInv
  <2>7. scan.read[p] # rows[p].requested => Pending(p)'
    BY <1>1, <1>2, <1>5, <2>2, <2>3, <2>4 DEF ScanInv, Pending, PendingRow
  <2>8. scan.read[p] = rows[p].requested /\ ~scan.limited => Covers(scan, p)
    BY <1>1, <1>5 DEF ScanInv
  <2> QED
    BY <1>3, <2>2, <2>5, <2>6, <2>7, <2>8
<1> QED
  BY <1>4, <1>5

\* Writing why a folder was not scanned changes no request.
LEMMA OutcomeOnly ==
    ASSUME FolderInv,
           \A p \in Paths : \/ rows'[p] = rows[p]
                            \/ p \in Included /\ \E o : rows'[p] = [rows[p] EXCEPT !.outcome = o]
    PROVE  /\ Included' = Included
           /\ \A p \in Included : /\ rows'[p].requested = rows[p].requested
                                  /\ rows'[p].completed = rows[p].completed
<1>1. \A p \in Paths : rows[p] \in Row
  BY DEF FolderInv, TypeOK
<1>2. \A p \in Included : rows[p].requested >= 1
  BY DEF FolderInv, RowInv
<1>3. \A p \in Paths : /\ rows'[p].requested = rows[p].requested
                       /\ rows'[p].completed = rows[p].completed
  BY <1>1 DEF Row
<1>4. \A p \in Paths : rows'[p] # NoRow <=> rows[p] # NoRow
  BY <1>1, <1>2, <1>3 DEF Included, NoRow, Row
<1> QED
  BY <1>3, <1>4 DEF Included

\* The two writes of an outcome: a failed walk's, and a stopped scan's.
LEMMA OutcomeSteps ==
    ASSUME FolderInv,
           \/ \E p \in Paths : FailFolder(p)
           \/ \E t \in Threads : Mark(t)
    PROVE  /\ Included' = Included
           /\ \A q \in Included : /\ rows'[q].requested = rows[q].requested
                                  /\ rows'[q].completed = rows[q].completed
<1>1. rows \in [Paths -> Row]
  BY DEF FolderInv, TypeOK
<1>2. \A q \in Paths : \/ rows'[q] = rows[q]
                       \/ q \in Included /\ \E o : rows'[q] = [rows[q] EXCEPT !.outcome = o]
  <2>1. ASSUME NEW p \in Paths, FailFolder(p)
        PROVE  \A q \in Paths : \/ rows'[q] = rows[q]
                                \/ q \in Included /\ \E o : rows'[q] = [rows[q] EXCEPT !.outcome = o]
    BY <1>1, <2>1 DEF FailFolder
  <2>2. ASSUME NEW t \in Threads, Mark(t)
        PROVE  \A q \in Paths : \/ rows'[q] = rows[q]
                                \/ q \in Included /\ \E o : rows'[q] = [rows[q] EXCEPT !.outcome = o]
    <3>1. PICK m \in marks[t].left :
             rows' = [rows EXCEPT ![m[1]] = Marked(m[1], m[2], marks[t].outcome)]
      BY <2>2 DEF Mark
    <3>2. \A q \in Paths : rows'[q] = rows[q] \/ rows'[q] = Marked(q, m[2], marks[t].outcome)
      BY <1>1, <3>1
    <3> QED
      BY <3>2 DEF Marked, Pending
  <2> QED
    BY <2>1, <2>2
<1> QED
  BY <1>2, OutcomeOnly

\* Every step keeps the invariant.
LEMMA NextFolderInv == FolderInv /\ [Next]_vars => FolderInv'
<1> SUFFICES ASSUME FolderInv, [Next]_vars PROVE FolderInv'
  OBVIOUS
<1>1. TypeOK /\ TypeOK'
  <2>1. TypeOK
    BY DEF FolderInv
  <2> QED
    BY <2>1, NextType
<1>2. \A p \in Included : rows[p].requested \in Nat /\ rows[p].requested >= 1
                          /\ rows[p].requested <= sequence
  BY <1>1 DEF FolderInv, RowInv, TypeOK, Row, Included
<1> DEFINE SameRows == UNCHANGED <<stored, rows>> /\ Included' = Included
<1>3. UNCHANGED <<stored, rows>> => SameRows
  BY DEF Included
<1>4. ASSUME scan' = NotScanning \/ scan' = [NotScanning EXCEPT !.pc = "down"],
             UNCHANGED <<stored, rows>>
      PROVE  FolderInv'
  <2>1. \A p \in Paths : scan'.read[p] = 0 /\ scan'.left = {}
    BY <1>4 DEF NotScanning
  <2>2. sequence' \in Nat /\ \A p \in Included' : rows'[p].requested \in Nat /\ rows'[p].requested >= 1
    BY <1>1, <1>2, <1>3, <1>4 DEF TypeOK, stored
  <2>3. ASSUME NEW p \in Paths PROVE ScanInv(p)'
    <3>1. scan'.read[p] = 0 /\ scan'.left = {}
      BY <2>1
    <3>2. p \in Included' => rows'[p].requested \in Nat /\ 0 <= rows'[p].requested
                             /\ 0 # rows'[p].requested
      BY <2>2
    <3> QED
      BY <2>2, <3>1, <3>2 DEF ScanInv
  <2> QED
    BY <1>1, <1>3, <1>4, <2>3, SameRequests DEF stored
<1>5. ASSUME NEW def \in Definitions, Save(def) PROVE FolderInv'
  BY <1>5, SaveFolderInv
<1>6. CASE Delete
  <2>1. Included' = {}
    BY <1>6 DEF Delete, Included
  <2>2. \A p \in Paths : ScanInv(p)'
    BY <1>6, <2>1 DEF Delete, FolderInv, ScanInv
  <2> QED
    BY <1>1, <2>1, <2>2 DEF FolderInv
<1>7. ASSUME NEW pendingOnly \in BOOLEAN, NEW limited \in Limits, ScanStart(pendingOnly, limited)
      PROVE  FolderInv'
  <2>1. \A p \in Paths : ScanInv(p)'
    <3> TAKE p \in Paths
    <3>1. /\ scan'.read[p] = IF p \in Selected(pendingOnly) THEN rows[p].requested ELSE 0
          /\ scan'.left = {} /\ scan'.exclude = exclude /\ scan'.indexes = Indexes(options)
          /\ UNCHANGED <<stored, rows>>
      BY <1>7 DEF ScanStart, NotScanning
    <3>2. Selected(pendingOnly) \subseteq Included
      BY DEF Selected
    <3>3. exclude' = exclude /\ options' = options /\ sequence' = sequence /\ sequence \in Nat
      BY <1>1, <3>1 DEF stored, TypeOK
    <3>4. Covers(scan, p)'
      BY <3>1, <3>3 DEF Covers, Indexes
    <3> QED
      BY <1>2, <1>3, <3>1, <3>2, <3>3, <3>4 DEF ScanInv
  <2> QED
    BY <1>1, <1>3, <1>7, <2>1, SameRequests DEF ScanStart, stored
<1>8. ASSUME NEW t \in Threads, Mark(t) PROVE FolderInv'
  <2>1. PICK m \in marks[t].left : UNCHANGED <<stored, scan>>
    BY <1>8 DEF Mark
  <2>2. \A p \in Paths : p \in scan'.left => scan'.read[p] # 0
    BY <2>1 DEF FolderInv, ScanInv
  <2>3. /\ Included' = Included
        /\ \A q \in Included : /\ rows'[q].requested = rows[q].requested
                               /\ rows'[q].completed = rows[q].completed
    BY <1>8, OutcomeSteps
  <2> QED
    BY <1>1, <2>1, <2>2, <2>3, SameRequests
<1>9. CASE ScanStep
  <2>1. ASSUME NEW w \in Paths, WalkSucceeds(w) PROVE FolderInv'
    BY <1>1, <1>3, <2>1, SameRequests DEF WalkSucceeds, FolderInv, ScanInv, TypeOK, Scan, stored
  <2>2. ASSUME NEW w \in Paths, NEW outcome \in Outcomes, WalkFails(w, outcome) PROVE FolderInv'
    BY <1>1, <1>3, <2>2, SameRequests DEF WalkFails, Folders, TypeOK, Scan, stored
  <2>3. ASSUME NEW p \in Paths, FailFolder(p) PROVE FolderInv'
    <3>1. /\ Included' = Included
          /\ \A q \in Included : /\ rows'[q].requested = rows[q].requested
                                 /\ rows'[q].completed = rows[q].completed
      BY <2>3, OutcomeSteps
    <3> QED
      BY <1>1, <2>3, <3>1, SameRequests DEF FailFolder, FolderInv, ScanInv, TypeOK, Scan
  <2>4. ASSUME NEW p \in Paths, CompleteFolder(p) PROVE FolderInv'
    <3>1. UNCHANGED stored /\ scan' = [scan EXCEPT !.left = @ \ {p}] /\ scan \in Scan
      BY <1>1, <2>4 DEF CompleteFolder, TypeOK
    <3>2. sequence' = sequence /\ exclude' = exclude /\ options' = options
      BY <3>1 DEF stored
    <3>3. Included' = Included /\ \A q \in Paths \ {p} : rows'[q] = rows[q]
      BY <2>4, CompletedFolder
    <3>4. p \in Included =>
                 /\ rows'[p].requested = rows[p].requested
                 /\ rows'[p].completed <= rows[p].requested
                 /\ scan.read[p] # rows[p].requested => Pending(p)'
                 /\ scan.read[p] = rows[p].requested /\ ~scan.limited => Covers(scan, p)
      BY <2>4, CompletedFolder
    <3>5. \A q \in Included' : RowInv(q)'
      <4>1. \A q \in Included : rows'[q].requested = rows[q].requested /\ RowInv(q)
        BY <3>3, <3>4 DEF FolderInv, Included
      <4>2. \A q \in Included : rows'[q].completed <= rows[q].requested
        BY <3>3, <3>4, <4>1 DEF RowInv, Included
      <4> QED
        BY <3>2, <3>3, <4>1, <4>2 DEF RowInv
    <3>6. ASSUME NEW q \in Paths PROVE ScanInv(q)'
      <4>1. ScanInv(q)
        BY DEF FolderInv
      <4>2. /\ scan'.read = scan.read /\ scan'.limited = scan.limited
            /\ q \in scan'.left => q \in scan.left
            /\ Covers(scan, q) => Covers(scan, q)'
        BY <3>1, <3>2 DEF Scan, Covers, Indexes
      <4>3. CASE q = p
        BY <3>2, <3>3, <3>4, <4>1, <4>2, <4>3 DEF ScanInv
      <4>4. CASE q # p
        <5>1. Pending(q) => Pending(q)'
          BY <3>3, <4>4 DEF Pending, PendingRow
        <5> QED
          BY <3>2, <3>3, <4>1, <4>2, <4>4, <5>1 DEF ScanInv
      <4> QED
        BY <4>3, <4>4
    <3> QED
      BY <1>1, <3>5, <3>6 DEF FolderInv
  <2>5. CASE FailedAll
    BY <1>1, <1>3, <2>5, SameRequests DEF FailedAll, FolderInv, ScanInv, TypeOK, Scan, stored
  <2>6. CASE IndexStage
    BY <1>1, <1>3, <2>6, SameRequests DEF IndexStage, FolderInv, ScanInv, TypeOK, Scan, stored
  <2>7. CASE Indexed
    <3>1. PICK reached \in BOOLEAN :
             /\ reached => scan.limited
             /\ scan' = [scan EXCEPT !.pc = "complete",
                                     !.indexes = IF reached THEN {} ELSE @,
                                     !.left = UNION {Folders(w) : w \in scan.done}]
      BY <2>7 DEF Indexed
    <3>2. scan \in Scan /\ UNCHANGED <<stored, rows>>
      BY <1>1, <2>7 DEF TypeOK, Indexed
    <3>3. /\ scan'.read = scan.read /\ scan'.limited = scan.limited /\ scan'.exclude = scan.exclude
          /\ scan'.limited \/ scan'.indexes = scan.indexes
      BY <3>1, <3>2 DEF Scan
    <3>4. \A p \in scan'.left : scan.read[p] # 0
      <4>1. \A w \in scan.done : \A p \in Folders(w) : scan.read[p] # 0
        BY DEF Folders
      <4>2. scan'.left = UNION {Folders(w) : w \in scan.done}
        BY <3>1, <3>2 DEF Scan
      <4> QED
        BY <4>1, <4>2
    <3> QED
      BY <1>1, <1>3, <3>2, <3>3, <3>4, SameRequests
  <2>8. CASE Mark("worker")
    BY <1>8, <2>8 DEF Threads
  <2>9. CASE ScanEnds
    BY <1>4, <2>9 DEF ScanEnds
  <2> QED
    BY <1>9, <2>1, <2>2, <2>3, <2>4, <2>5, <2>6, <2>7, <2>8, <2>9 DEF ScanStep
<1>10. CASE Crash \/ Boot
  BY <1>4, <1>10 DEF Crash, Boot
<1>11. CASE UNCHANGED vars \/ ScanNeverRead \/ CancelQueued
  <2>1. /\ UNCHANGED <<stored, rows>> /\ scan'.read = scan.read /\ scan'.left = scan.left
        /\ scan'.limited = scan.limited /\ scan'.exclude = scan.exclude
        /\ scan'.indexes = scan.indexes
    BY <1>1, <1>11 DEF vars, stored, ScanNeverRead, CancelQueued, TypeOK, Scan
  <2>2. \A p \in Paths : p \in scan'.left => scan'.read[p] # 0
    BY <2>1 DEF FolderInv, ScanInv
  <2> QED
    BY <1>1, <1>3, <2>1, <2>2, SameRequests
<1>12. ASSUME NEW outcome \in {"cancelled", "failed"}, ScanStops(outcome) PROVE FolderInv'
  BY <1>1, <1>3, <1>12, SameRequests DEF ScanStops, TypeOK, Scan
<1> QED
  BY <1>5, <1>6, <1>7, <1>9, <1>10, <1>11, <1>12, <1>8 DEF Next, Threads
-----------------------------------------------------------------------------
(* The theorems.                                                            *)

\* Requests are distinct and within the sequence, no folder is completed
\* beyond its request, and a running scan covers the present request it holds
\* or leaves the folder pending: for every set of folders and definitions.
THEOREM FolderInvariant == Spec => []FolderInv
<1> QED
  BY InitFolderInv, NextFolderInv, PTL DEF Spec

\* The invariant behind SettledIsCovered, for a library whose scans carry no
\* debug limit.
Settled == FolderInv /\ SettledIsCovered /\ ~scan.limited

\* An edit asks again for every folder that what was scanned does not cover.
LEMMA SaveSettled ==
    ASSUME Settled, NEW def \in Definitions, Save(def) PROVE SettledIsCovered'
<1>1. FolderInv /\ FolderInv'
  BY SaveFolderInv DEF Settled
<1> SUFFICES ASSUME NEW p \in Included', ~Pending(p)' PROVE Covers(covered[p], p)'
  BY DEF SettledIsCovered
<1>2. p \notin Asked(def)
  <2> SUFFICES ASSUME p \in Asked(def) PROVE FALSE
    OBVIOUS
  <2>1. /\ rows'[p].requested = NumberOf(def, p)
        /\ rows'[p].completed \in Nat /\ rows'[p].completed <= sequence
    BY <1>1, SavedFolders
  <2>2. def \in Definition /\ sequence \in Nat
    BY <1>1 DEF FolderInv, TypeOK
  <2>3. NumberOf(def, p) \in Nat /\ sequence < NumberOf(def, p)
    BY <2>2, Numbering
  <2> QED
    BY <2>1, <2>2, <2>3 DEF Pending, PendingRow
<1>3. p \in Included /\ rows'[p] = rows[p] /\ (Covers(covered[p], p) => Covers(covered[p], p)')
  BY <1>1, <1>2, SavedFolders
<1>4. Covers(covered[p], p)
  BY <1>3 DEF Settled, SettledIsCovered, Pending, PendingRow
<1> QED
  BY <1>3, <1>4

\* Whatever edits, scans, cancellations and crashes interleave, a folder
\* without a pending request was completely scanned with a definition that
\* shows and indexes at least what the present one does: for every set of
\* folders and definitions, as long as no scan carries a debug limit.
THEOREM SettledFoldersAreCovered == TRUE \notin Limits /\ Spec => []SettledIsCovered
<1> SUFFICES ASSUME TRUE \notin Limits PROVE Spec => []SettledIsCovered
  OBVIOUS
<1>1. Init => Settled
  <2> SUFFICES ASSUME Init PROVE Settled
    OBVIOUS
  <2>1. Included = {} /\ ~scan.limited
    BY DEF Init, Included, NotScanning
  <2> QED
    BY <2>1, InitFolderInv DEF Settled, SettledIsCovered
<1>2. Settled /\ [Next]_vars => Settled'
  <2> SUFFICES ASSUME Settled, [Next]_vars PROVE Settled'
    OBVIOUS
  <2>1. FolderInv /\ FolderInv' /\ TypeOK /\ SettledIsCovered
    BY NextFolderInv DEF Settled, FolderInv
  <2>2. ~scan'.limited
    <3>1. scan \in Scan /\ ~scan.limited
      BY <2>1 DEF Settled, TypeOK
    <3>2. ASSUME NEW pendingOnly \in BOOLEAN, NEW limited \in Limits,
                 ScanStart(pendingOnly, limited)
          PROVE  ~scan'.limited
      BY <3>2 DEF ScanStart, NotScanning
    <3>3. CASE ScanStep
      <4>1. ASSUME NEW w \in Paths,
                   WalkSucceeds(w) \/ \E outcome \in Outcomes : WalkFails(w, outcome)
            PROVE  ~scan'.limited
        BY <3>1, <4>1 DEF WalkSucceeds, WalkFails, Scan
      <4>2. ASSUME NEW p \in Paths, FailFolder(p) \/ CompleteFolder(p)
            PROVE  ~scan'.limited
        BY <3>1, <4>2 DEF FailFolder, CompleteFolder, Scan
      <4>3. CASE FailedAll \/ IndexStage
        BY <3>1, <4>3 DEF FailedAll, IndexStage, Scan
      <4>4. CASE Indexed
        BY <3>1, <4>4 DEF Indexed, Scan
      <4>5. CASE Mark("worker")
        BY <3>1, <4>5 DEF Mark
      <4>6. CASE ScanEnds
        BY <4>6 DEF ScanEnds, NotScanning
      <4> QED
        BY <3>3, <4>1, <4>2, <4>3, <4>4, <4>5, <4>6 DEF ScanStep
    <3>4. CASE \/ \E outcome \in {"cancelled", "failed"} : ScanStops(outcome)
               \/ ScanNeverRead \/ Crash \/ Boot
      <4>1. ASSUME NEW outcome \in {"cancelled", "failed"}, ScanStops(outcome)
            PROVE  ~scan'.limited
        BY <3>1, <4>1 DEF ScanStops, Scan
      <4>2. CASE ScanNeverRead
        BY <3>1, <4>2 DEF ScanNeverRead, Scan
      <4>3. CASE Crash \/ Boot
        BY <4>3 DEF Crash, Boot, NotScanning
      <4> QED
        BY <3>4, <4>1, <4>2, <4>3
    <3>5. CASE \/ \E def \in Definitions : Save(def)
               \/ Delete \/ CancelQueued \/ Mark("client") \/ UNCHANGED vars
      BY <3>1, <3>5 DEF Save, Delete, CancelQueued, Mark, vars
    <3> QED
      BY <3>2, <3>3, <3>4, <3>5 DEF Next
  <2>3. SUFFICES SettledIsCovered'
    BY <2>1, <2>2 DEF Settled
  <2>4. ASSUME UNCHANGED <<exclude, options, covered>>, Included' = Included,
               \A p \in Included : Pending(p) => Pending(p)'
        PROVE  SettledIsCovered'
    BY <2>1, <2>4 DEF SettledIsCovered, Covers, Indexes
  <2>5. UNCHANGED <<stored, rows, covered>> => SettledIsCovered'
    BY <2>4 DEF stored, Included, Pending, PendingRow
  <2>6. ASSUME UNCHANGED <<stored, covered>>, Included' = Included,
               \A p \in Included : /\ rows'[p].requested = rows[p].requested
                                   /\ rows'[p].completed = rows[p].completed
        PROVE  SettledIsCovered'
    BY <2>4, <2>6 DEF stored, Pending, PendingRow
  <2>7. ASSUME NEW def \in Definitions, Save(def) PROVE SettledIsCovered'
    BY <2>7, SaveSettled
  <2>8. CASE Delete
    BY <2>8 DEF Delete, SettledIsCovered, Included
  <2>9. ASSUME NEW p \in Paths, FailFolder(p) PROVE SettledIsCovered'
    BY <2>1, <2>6, <2>9, OutcomeSteps DEF FailFolder
  <2>10. ASSUME NEW t \in Threads, Mark(t) PROVE SettledIsCovered'
    BY <2>1, <2>6, <2>10, OutcomeSteps DEF Mark
  <2>11. ASSUME NEW p \in Paths, CompleteFolder(p) PROVE SettledIsCovered'
    <3>1. /\ Included' = Included
          /\ \A q \in Paths \ {p} : rows'[q] = rows[q]
          /\ p \in Included =>
                /\ scan.read[p] # rows[p].requested => Pending(p)'
                /\ scan.read[p] = rows[p].requested => Covers(scan, p)
      BY <2>1, <2>11, CompletedFolder DEF Settled
    <3>2. /\ covered' = [covered EXCEPT ![p] = [exclude |-> scan.exclude, indexes |-> scan.indexes]]
          /\ exclude' = exclude /\ options' = options
          /\ covered \in [Paths -> [exclude : SUBSET Paths, indexes : SUBSET SearchOptions]]
      BY <2>1, <2>11 DEF CompleteFolder, stored, TypeOK
    <3> SUFFICES ASSUME NEW q \in Included', ~Pending(q)' PROVE Covers(covered[q], q)'
      BY DEF SettledIsCovered
    <3>3. q \in Paths /\ q \in Included
      BY <3>1 DEF Included
    <3>4. CASE q = p
      <4>1. Covers(scan, p)
        BY <3>1, <3>3, <3>4
      <4>2. covered'[p].exclude = scan.exclude /\ covered'[p].indexes = scan.indexes
        BY <3>2
      <4> QED
        BY <3>2, <3>4, <4>1, <4>2 DEF Covers, Indexes
    <3>5. CASE q # p
      <4>1. ~Pending(q) /\ covered'[q] = covered[q]
        BY <3>1, <3>2, <3>3, <3>5 DEF Pending, PendingRow
      <4> QED
        BY <2>1, <3>2, <3>3, <4>1 DEF SettledIsCovered, Covers, Indexes
    <3> QED
      BY <3>4, <3>5
  <2>12. CASE ScanStep
    BY <2>5, <2>9, <2>10, <2>11, <2>12 DEF ScanStep, WalkSucceeds, WalkFails, FailedAll, IndexStage,
          Indexed, ScanEnds, Threads
  <2>13. ASSUME NEW pendingOnly \in BOOLEAN, NEW limited \in Limits,
                ScanStart(pendingOnly, limited)
         PROVE  SettledIsCovered'
    BY <2>5, <2>13 DEF ScanStart
  <2>14. CASE \/ \E outcome \in {"cancelled", "failed"} : ScanStops(outcome)
              \/ ScanNeverRead \/ CancelQueued \/ Crash \/ Boot \/ UNCHANGED vars
    BY <2>5, <2>14 DEF ScanStops, ScanNeverRead, CancelQueued, Crash, Boot, vars, stored
  <2> QED
    BY <2>7, <2>8, <2>10, <2>12, <2>13, <2>14 DEF Next, Threads
<1>3. Settled => SettledIsCovered
  BY DEF Settled
<1> QED
  BY <1>1, <1>2, <1>3, PTL DEF Spec

-----------------------------------------------------------------------------
(* The verdicts of a scan.                                                  *)

\* A nonempty set of numbers has a least one.
LEMMA LeastNumber ==
    ASSUME NEW S \in SUBSET Nat, S # {}
    PROVE  \E n \in S : \A m \in S : n <= m
<1> DEFINE less == {pair \in Nat \X Nat : pair[1] < pair[2]}
<1>1. IsWellFoundedOn(less, Nat)
  BY NatLessThanWellFounded DEF OpToRel
<1>2. PICK n \in S : \A m \in S : <<m, n>> \notin less
  <2> HIDE DEF less
  <2> QED
    BY <1>1, WFMin
<1>3. \A m \in S : ~(m < n)
  BY <1>2
<1> QED
  BY <1>3

\* A nonempty set of directories has one that no other one of the set contains.
LEMMA OutermostOf ==
    ASSUME NEW H \in SUBSET Paths, H # {}
    PROVE  \E w \in H : \A o \in H : o # w => w \notin Below[o]
<1> DEFINE Outside(w) == Paths \ Below[w]
           sizes == {Cardinality(Outside(w)) : w \in H}
<1>1. ASSUME NEW w \in Paths PROVE IsFiniteSet(Outside(w)) /\ Cardinality(Outside(w)) \in Nat
  <2>1. IsFiniteSet(Paths) /\ Outside(w) \subseteq Paths
    OBVIOUS
  <2>2. IsFiniteSet(Outside(w))
    BY <2>1, FS_Subset
  <2> QED
    BY <2>2, FS_CardinalityType
<1>2. sizes \subseteq Nat /\ sizes # {}
  <2> HIDE DEF Outside
  <2> QED
    BY <1>1
<1>3. PICK n \in sizes : \A m \in sizes : n <= m
  <2> HIDE DEF sizes
  <2> QED
    BY <1>2, LeastNumber
<1>4. PICK w \in H : n = Cardinality(Outside(w))
  OBVIOUS
<1>5. ASSUME NEW o \in H, o # w, w \in Below[o] PROVE FALSE
  <2>1. Below[w] \subseteq Below[o] /\ o \notin Below[w] /\ o \in Below[o] /\ o \in Paths /\ w \in Paths
    BY <1>5, NestingAssumption
  <2>2. Outside(o) \subseteq Outside(w) /\ Outside(o) # Outside(w)
    BY <2>1
  <2>3. IsFiniteSet(Outside(w)) /\ Cardinality(Outside(w)) \in Nat /\ Cardinality(Outside(o)) \in Nat
    BY <1>1, <2>1
  <2>4. Cardinality(Outside(o)) \in sizes
    OBVIOUS
  <2> HIDE DEF Outside, sizes
  <2>5. Cardinality(Outside(o)) < Cardinality(Outside(w))
    BY <2>2, <2>3, FS_Subset
  <2> QED
    BY <1>3, <1>4, <2>3, <2>4, <2>5
<1> QED
  BY <1>5

\* Every folder selected is in one of the walks of its scan (scan_folders).
LEMMA OuterCovers ==
    ASSUME NEW S \in SUBSET Paths, NEW p \in S
    PROVE  \E w \in Outer(S) : p \in Below[w]
<1> DEFINE holders == {w \in S : p \in Below[w]}
<1>1. holders \in SUBSET Paths /\ p \in holders
  OBVIOUS
<1>2. PICK w \in holders : \A o \in holders : o # w => w \notin Below[o]
  <2> HIDE DEF holders
  <2> QED
    BY <1>1, OutermostOf
<1>3. \A o \in S : w \in Below[o] => o \in holders
  BY NestingAssumption
<1> QED
  BY <1>2, <1>3 DEF Outer

\* An edit gives a folder a new request or leaves its row alone.
LEMMA SaveVerdict ==
    ASSUME FolderInv, VerdictInv, NEW def \in Definitions, Save(def)
    PROVE  VerdictInv'
<1>1. def \in Definition /\ TypeOK /\ UNCHANGED <<scan, marks>> /\ sequence \in Nat
  BY DEF FolderInv, TypeOK, Save
<1>2. ASSUME NEW p \in Paths, WithoutVerdict(p)' PROVE WithoutVerdict(p)
  <2>1. p \in Included' /\ scan.read[p] = rows'[p].requested /\ ScanInv(p)
    BY <1>1, <1>2 DEF WithoutVerdict, FolderInv
  <2>2. p \notin Asked(def)
    <3> SUFFICES ASSUME p \in Asked(def) PROVE FALSE
      OBVIOUS
    <3>1. rows'[p].requested = NumberOf(def, p)
      BY <2>1, SavedFolders
    <3>2. NumberOf(def, p) \in Nat /\ sequence < NumberOf(def, p)
      BY <1>1, Numbering
    <3>3. scan.read[p] <= sequence
      BY <2>1 DEF ScanInv
    <3> QED
      BY <1>1, <2>1, <3>1, <3>2, <3>3
  <2>3. p \in Included /\ rows'[p] = rows[p]
    BY <2>1, <2>2, SavedFolders
  <2> QED
    BY <1>1, <1>2, <2>1, <2>3 DEF WithoutVerdict, Pending
<1>3. ASSUME NEW p \in Paths, VerdictAhead(p) PROVE VerdictAhead(p)'
  BY <1>1, <1>3 DEF VerdictAhead, Folders
<1> QED
  BY <1>1, <1>2, <1>3 DEF VerdictInv

\* A scan takes every request it selected into a walk.
LEMMA StartVerdict ==
    ASSUME FolderInv, VerdictInv, NEW pendingOnly \in BOOLEAN, NEW limited \in Limits,
           ScanStart(pendingOnly, limited)
    PROVE  VerdictInv'
<1> DEFINE S == Selected(pendingOnly)
<1>1. S \subseteq Included /\ Included \subseteq Paths /\ Included' = Included /\ rows' = rows
  BY DEF Selected, Included, ScanStart
<1>2. /\ scan'.pc = "walk" /\ scan'.walks = Outer(S) /\ scan'.done = {}
      /\ \A p \in Paths : scan'.read[p] = IF p \in S THEN rows[p].requested ELSE 0
  BY DEF ScanStart, NotScanning
<1>3. \A p \in Included : rows[p].requested \in Nat /\ rows[p].requested >= 1
  BY <1>1 DEF FolderInv, TypeOK, RowInv, Row
<1>4. ASSUME NEW p \in Paths, WithoutVerdict(p)' PROVE VerdictAhead(p)'
  <2>1. p \in Included /\ p \in S /\ scan'.read[p] # 0
    <3> HIDE DEF S
    <3>1. p \in Included /\ scan'.read[p] = rows[p].requested
      BY <1>1, <1>4 DEF WithoutVerdict
    <3>2. rows[p].requested # 0
      BY <1>3, <3>1
    <3> QED
      BY <1>2, <3>1, <3>2
  <2>2. PICK w \in Outer(S) : p \in Below[w]
    <3> HIDE DEF S
    <3> QED
      BY <1>1, <2>1, OuterCovers
  <2>3. w \in scan'.walks /\ p \in Folders(w)'
    BY <1>2, <2>1, <2>2 DEF Folders
  <2> QED
    BY <1>2, <2>3 DEF VerdictAhead
<1> QED
  BY <1>2, <1>4 DEF VerdictInv

\* While rows and definition stay, what has no verdict stays.
LEMMA SameRowsVerdict ==
    ASSUME UNCHANGED rows, scan'.read = scan.read, NEW p \in Paths, WithoutVerdict(p)'
    PROVE  WithoutVerdict(p)
BY DEF WithoutVerdict, Pending, Included

\* The walks, their failures and the index stage hand on what is without a verdict.
LEMMA WalkVerdict ==
    ASSUME FolderInv, VerdictInv,
           \/ \E w \in Paths : WalkSucceeds(w) \/ \E outcome \in Outcomes : WalkFails(w, outcome)
           \/ FailedAll \/ IndexStage \/ Indexed
    PROVE  VerdictInv'
<1>1. scan \in Scan /\ UNCHANGED <<rows, marks>> /\ scan'.read = scan.read
  BY DEF FolderInv, TypeOK, Scan, WalkSucceeds, WalkFails, FailedAll, IndexStage, Indexed
<1>2. \A p \in Paths : WithoutVerdict(p)' => VerdictAhead(p)
  BY <1>1, SameRowsVerdict DEF VerdictInv
<1>3. \A w : Folders(w)' = Folders(w)
  BY <1>1 DEF Folders
<1>4. ASSUME NEW w \in Paths, WalkSucceeds(w) PROVE VerdictInv'
  <2>1. /\ scan.pc = "walk" /\ scan'.pc = "walk"
        /\ scan'.walks = scan.walks \ {w} /\ scan'.done = scan.done \cup {w}
    BY <1>1, <1>4 DEF WalkSucceeds, Scan
  <2> QED
    BY <1>2, <1>3, <2>1 DEF VerdictInv, VerdictAhead
<1>5. ASSUME NEW w \in Paths, NEW outcome \in Outcomes, WalkFails(w, outcome) PROVE VerdictInv'
  <2>1. /\ scan.pc = "walk" /\ scan'.pc = "fail" /\ scan'.outcome = outcome
        /\ scan'.walks = scan.walks \ {w} /\ scan'.done = scan.done /\ scan'.left = Folders(w)
    BY <1>1, <1>5 DEF WalkFails, Scan
  <2> QED
    BY <1>2, <1>3, <2>1 DEF VerdictInv, VerdictAhead
<1>6. CASE FailedAll
  <2>1. /\ scan.pc = "fail" /\ scan.left = {} /\ scan'.pc = "walk"
        /\ scan'.walks = scan.walks /\ scan'.done = scan.done
    BY <1>1, <1>6 DEF FailedAll, Scan
  <2> QED
    BY <1>2, <1>3, <2>1 DEF VerdictInv, VerdictAhead
<1>7. CASE IndexStage
  <2>1. /\ scan.pc = "walk" /\ scan'.pc = "index" /\ scan.walks = {}
        /\ scan'.walks = scan.walks /\ scan'.done = scan.done
    BY <1>1, <1>7 DEF IndexStage, Scan
  <2> QED
    BY <1>2, <1>3, <2>1 DEF VerdictInv, VerdictAhead
<1>8. CASE Indexed
  <2>1. /\ scan.pc = "index" /\ scan'.pc = "complete"
        /\ scan'.left = UNION {Folders(w) : w \in scan.done}
    BY <1>1, <1>8 DEF Indexed, Scan
  <2>2. scan.walks = {}
    BY <2>1 DEF VerdictInv
  <2> QED
    BY <1>2, <2>1, <2>2 DEF VerdictInv, VerdictAhead
<1> QED
  BY <1>4, <1>5, <1>6, <1>7, <1>8

\* Writing a row takes its folder off the list with a verdict on it.
LEMMA WriteVerdict ==
    ASSUME FolderInv, VerdictInv, NEW p \in Paths, FailFolder(p) \/ CompleteFolder(p)
    PROVE  VerdictInv'
<1>1. /\ scan \in Scan /\ rows \in [Paths -> Row] /\ p \in scan.left /\ UNCHANGED marks
      /\ scan.pc \in {"fail", "complete"} /\ scan'.pc = scan.pc
      /\ scan'.read = scan.read /\ scan'.walks = scan.walks /\ scan'.done = scan.done
      /\ scan'.outcome = scan.outcome /\ scan'.left = scan.left \ {p}
  BY DEF FolderInv, TypeOK, Scan, FailFolder, CompleteFolder
<1>2. \A q \in Paths \ {p} : rows'[q] = rows[q]
  BY <1>1 DEF FailFolder, CompleteFolder
<1>3. \A w : Folders(w)' = Folders(w)
  BY <1>1 DEF Folders
<1>4. ASSUME NEW q \in Paths, q # p, WithoutVerdict(q)' PROVE VerdictAhead(q)'
  <2>1. WithoutVerdict(q)
    BY <1>1, <1>2, <1>4 DEF WithoutVerdict, Pending, Included
  <2>2. VerdictAhead(q)
    BY <2>1 DEF VerdictInv
  <2> QED
    BY <1>1, <1>3, <1>4, <2>2 DEF VerdictAhead
<1>5. ~WithoutVerdict(p)'
  <2>1. CASE FailFolder(p)
    <3>1. scan.outcome # "none"
      BY <2>1 DEF FailFolder, VerdictInv, Outcomes
    <3>2. CASE p \in Included
      <4>1. rows'[p].outcome = scan.outcome
        BY <1>1, <2>1, <3>2 DEF FailFolder, Row
      <4> QED
        BY <3>1, <4>1 DEF WithoutVerdict
    <3>3. CASE p \notin Included
      BY <2>1, <3>3 DEF FailFolder, WithoutVerdict, Included
    <3> QED
      BY <3>2, <3>3
  <2>2. CASE CompleteFolder(p)
    <3>1. CASE p \in Included
      <4>1. /\ rows'[p].requested = rows[p].requested
            /\ rows'[p].completed = IF rows[p].completed > scan.read[p] THEN rows[p].completed
                                    ELSE scan.read[p]
        BY <1>1, <2>2, <3>1 DEF CompleteFolder, CompletedRow, Row
      <4>2. rows[p].completed \in Nat /\ scan.read[p] \in Nat /\ rows[p].requested \in Nat
        BY <1>1 DEF Row, Scan
      <4> QED
        BY <1>1, <4>1, <4>2 DEF WithoutVerdict, Pending, PendingRow
    <3>2. CASE p \notin Included
      BY <2>2, <3>2 DEF CompleteFolder, WithoutVerdict, Included
    <3> QED
      BY <3>1, <3>2
  <2> QED
    BY <2>1, <2>2
<1> QED
  BY <1>1, <1>4, <1>5 DEF VerdictInv

\* A stop notes every request the scan had taken up.
LEMMA StopVerdict ==
    ASSUME FolderInv, VerdictInv, NEW outcome \in {"cancelled", "failed"}, ScanStops(outcome)
    PROVE  VerdictInv'
<1>1. /\ scan \in Scan /\ UNCHANGED rows /\ scan'.pc = "stop" /\ scan'.read = scan.read
      /\ marks'["worker"].left = ToMark
  BY DEF FolderInv, TypeOK, Scan, ScanStops, Threads
<1>2. ASSUME NEW p \in Paths, WithoutVerdict(p)' PROVE VerdictAhead(p)'
  <2>1. p \in Included /\ scan.read[p] = rows[p].requested
    BY <1>1, <1>2, SameRowsVerdict DEF WithoutVerdict
  <2>2. scan.read[p] # 0
    BY <2>1 DEF FolderInv, RowInv
  <2>3. <<p, scan.read[p]>> \in Attempted
    BY <2>2 DEF Attempted
  <2> QED
    BY <1>1, <2>3 DEF ToMark, VerdictAhead
<1> QED
  BY <1>1, <1>2 DEF VerdictInv

\* Marking a request gives it a verdict, or it was answered for already.
LEMMA MarkVerdict ==
    ASSUME FolderInv, VerdictInv, NEW t \in Threads, Mark(t)
    PROVE  VerdictInv'
<1>1. /\ rows \in [Paths -> Row] /\ scan' = scan
      /\ marks \in [Threads -> [left : SUBSET (Paths \X Nat), outcome : Outcomes]]
  BY DEF FolderInv, TypeOK, Mark
<1>2. PICK m \in marks[t].left :
         /\ rows' = [rows EXCEPT ![m[1]] = Marked(m[1], m[2], marks[t].outcome)]
         /\ marks' = [marks EXCEPT ![t].left = @ \ {m}]
  BY DEF Mark
<1>3. m \in Paths \X Nat /\ marks[t].outcome # "none"
  BY <1>1 DEF Outcomes
<1>4. marks'["worker"].left \in {marks["worker"].left, marks["worker"].left \ {m}}
  BY <1>1, <1>2 DEF Threads
<1>5. ASSUME NEW p \in Paths, WithoutVerdict(p)' PROVE VerdictAhead(p)'
  <2>1. rows'[p] = rows[p] \/ rows'[p] = Marked(p, m[2], marks[t].outcome)
    BY <1>1, <1>2, <1>3
  <2>2. rows'[p] = rows[p]
    <3> SUFFICES ASSUME rows'[p] = [rows[p] EXCEPT !.outcome = marks[t].outcome] PROVE FALSE
      BY <2>1 DEF Marked
    <3>1. rows'[p].outcome = marks[t].outcome
      BY <1>1 DEF Row
    <3> QED
      BY <1>3, <1>5, <3>1 DEF WithoutVerdict
  <2>3. WithoutVerdict(p)
    BY <1>1, <1>5, <2>2 DEF WithoutVerdict, Pending, Included
  <2>4. <<p, scan.read[p]>> # m
    <3> SUFFICES ASSUME <<p, scan.read[p]>> = m PROVE FALSE
      OBVIOUS
    <3>1. m[1] = p /\ m[2] = rows[p].requested
      BY <2>3 DEF WithoutVerdict
    <3>2. rows'[p] = [rows[p] EXCEPT !.outcome = marks[t].outcome]
      BY <1>1, <1>2, <2>3, <3>1 DEF Marked, WithoutVerdict
    <3>3. rows'[p].outcome = marks[t].outcome
      BY <1>1, <3>2 DEF Row
    <3> QED
      BY <1>3, <1>5, <3>3 DEF WithoutVerdict
  <2>5. VerdictAhead(p)
    BY <2>3 DEF VerdictInv
  <2> QED
    BY <1>1, <1>4, <2>4, <2>5 DEF VerdictAhead, Folders
<1> QED
  BY <1>1, <1>5 DEF VerdictInv

\* Without a scan every request read is zero, and no folder was asked with that.
LEMMA NoScanVerdict ==
    ASSUME FolderInv, UNCHANGED rows, scan'.pc \in {"idle", "unread", "down"},
           \A p \in Paths : scan'.read[p] = 0
    PROVE  VerdictInv'
<1>1. \A p \in Included : rows[p].requested # 0
  BY DEF FolderInv, RowInv
<1>2. Included' = Included
  BY DEF Included
<1> QED
  BY <1>1, <1>2 DEF VerdictInv, WithoutVerdict

\* Every step keeps track of what is without a verdict.
LEMMA NextVerdict == FolderInv /\ VerdictInv /\ [Next]_vars => VerdictInv'
<1> SUFFICES ASSUME FolderInv, VerdictInv, [Next]_vars PROVE VerdictInv'
  OBVIOUS
<1>1. CASE \E def \in Definitions : Save(def)
  BY <1>1, SaveVerdict
<1>2. CASE Delete
  <2>1. UNCHANGED <<scan, marks>> /\ \A p \in Paths : rows'[p] = NoRow
    BY <1>2 DEF Delete
  <2>2. \A p \in Paths : ~WithoutVerdict(p)'
    BY <2>1 DEF WithoutVerdict, Included
  <2> QED
    BY <2>1, <2>2 DEF VerdictInv
<1>3. CASE \E pendingOnly \in BOOLEAN, limited \in Limits : ScanStart(pendingOnly, limited)
  BY <1>3, StartVerdict
<1>4. CASE ScanEnds \/ Boot \/ Crash
  BY <1>4, NoScanVerdict DEF ScanEnds, Boot, Crash, NotScanning
<1>5. CASE ScanNeverRead
  <2>1. scan \in Scan /\ scan'.pc = "unread" /\ scan'.read = scan.read /\ UNCHANGED rows
        /\ scan.pc = "idle"
    BY <1>5 DEF FolderInv, TypeOK, Scan, ScanNeverRead
  <2> QED
    BY <2>1, NoScanVerdict DEF VerdictInv
<1>6. CASE Mark("worker") \/ Mark("client")
  BY <1>6, MarkVerdict DEF Threads
<1>7. CASE CancelQueued \/ UNCHANGED vars
  <2>1. UNCHANGED <<scan, rows>> /\ marks'["worker"] = marks["worker"]
    BY <1>7 DEF CancelQueued, vars, FolderInv, TypeOK, Threads
  <2>2. \A p \in Paths : WithoutVerdict(p)' => VerdictAhead(p)
    BY <2>1, SameRowsVerdict DEF VerdictInv
  <2>3. \A p \in Paths : VerdictAhead(p) => VerdictAhead(p)'
    BY <2>1 DEF VerdictAhead, Folders
  <2> QED
    BY <2>1, <2>2, <2>3 DEF VerdictInv
<1>8. CASE \/ \E w \in Paths : WalkSucceeds(w) \/ \E outcome \in Outcomes : WalkFails(w, outcome)
           \/ FailedAll \/ IndexStage \/ Indexed
  BY <1>8, WalkVerdict
<1>9. CASE \E p \in Paths : FailFolder(p) \/ CompleteFolder(p)
  BY <1>9, WriteVerdict
<1>10. CASE \E outcome \in {"cancelled", "failed"} : ScanStops(outcome)
  BY <1>10, StopVerdict
<1> QED
  BY <1>1, <1>2, <1>3, <1>4, <1>5, <1>6, <1>7, <1>8, <1>9, <1>10 DEF Next, ScanStep

\* A scan that ends, well or badly, leaves a verdict on every request it took
\* up, unless an edit asked again meanwhile: for every set of folders and
\* definitions, however walks nest, fail and stop.
THEOREM EveryRequestHasVerdict == Spec => []ScanLeavesVerdict
<1>1. Init => FolderInv /\ VerdictInv
  <2> SUFFICES ASSUME Init PROVE VerdictInv
    BY InitFolderInv
  <2>1. Included = {}
    BY DEF Init, Included
  <2> QED
    BY <2>1 DEF Init, NotScanning, VerdictInv, WithoutVerdict
<1>2. FolderInv /\ VerdictInv /\ [Next]_vars => FolderInv' /\ VerdictInv'
  BY NextFolderInv, NextVerdict
<1>3. FolderInv /\ VerdictInv => ScanLeavesVerdict
  <2> SUFFICES ASSUME FolderInv, VerdictInv,
                      \/ scan.pc = "complete" /\ scan.left = {}
                      \/ scan.pc = "stop" /\ marks["worker"].left = {},
                      NEW p \in Included, scan.read[p] = rows[p].requested, Pending(p)
               PROVE  rows[p].outcome # "none"
    BY DEF ScanLeavesVerdict
  <2>1. p \in Paths /\ ~VerdictAhead(p)
    BY DEF VerdictAhead, Included
  <2> QED
    BY <2>1 DEF VerdictInv, WithoutVerdict
<1> QED
  BY <1>1, <1>2, <1>3, PTL DEF Spec
=============================================================================
