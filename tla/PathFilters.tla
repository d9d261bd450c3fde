----------------------------- MODULE PathFilters -----------------------------
(***************************************************************************)
(* What a search decides about names, paths and words without a database:   *)
(* patterns and the literal that narrows them, the order of file names, the *)
(* directories of a library, and the words a hit underlines.  Texts are     *)
(* sequences of small alphabets; a path is the bytes of its name.  Each     *)
(* algorithm of the code stands beside a definition of what it is for.      *)
(***************************************************************************)
EXTENDS Naturals, Sequences, FiniteSets, SequencesExt

CONSTANTS
    Letters, MaxPattern, MaxText,   \* bounds: letters, pattern and text lengths
    Marked,                         \* bound: length of a snippet with markers
    NameBytes, MaxName,             \* bounds: bytes of file names, their length
    Directories, FilePaths          \* paths a scope may name, and files

VARIABLE asked   \* the question and what it is about

Strings(alphabet, n) == UNION {[1..m -> alphabet] : m \in 0..n}

HasInfix(text, part) ==
    \E at \in 0..(Len(text) - Len(part)) : SubSeq(text, at + 1, at + Len(part)) = part

-----------------------------------------------------------------------------
(* Patterns.  "/" stands for both separators, letters are lowercase.         *)

Wildcard(pattern) == \E i \in DOMAIN pattern : pattern[i] \in {"*", "?"}

FileName(path) ==
    LET cut == {i \in DOMAIN path : path[i] = "/"} IN
    IF cut = {} THEN path ELSE SubSeq(path, 1 + CHOOSE i \in cut : \A j \in cut : j <= i, Len(path))

\* Mutant: a mismatch after a star does not extend what the star absorbs.
GlobMatch_NoBacktrack(pattern, text) ==
    LET walk[p, t, s, u \in Nat] ==
            IF t = Len(text) THEN \A i \in (p + 1)..Len(pattern) : pattern[i] = "*"
            ELSE IF p < Len(pattern) /\ pattern[p + 1] = "*" THEN walk[p + 1, t, p + 1, t]
            ELSE p < Len(pattern) /\ pattern[p + 1] \in {"?", text[t + 1]} /\ walk[p + 1, t + 1, s, u]
    IN walk[0, 0, 0, 0]

\* glob_match: one walk over the text; on a mismatch the latest star (s, one
\* past it; 0 is none) absorbs one character more (u so far).
GlobMatch(pattern, text) ==
    LET walk[p, t, s, u \in Nat] ==
            IF t = Len(text) THEN \A i \in (p + 1)..Len(pattern) : pattern[i] = "*"
            ELSE IF p < Len(pattern) /\ pattern[p + 1] = "*" THEN walk[p + 1, t, p + 1, t]
            ELSE IF p < Len(pattern) /\ pattern[p + 1] \in {"?", text[t + 1]} THEN walk[p + 1, t + 1, s, u]
            ELSE s # 0 /\ walk[s, u + 1, s, u + 1]
    IN walk[0, 0, 0, 0]

\* A wildcard pattern with a separator is about the path, one without about the
\* name; a name pattern is about the name.
Matches(pattern, named, path) ==
    LET subject == IF named \/ (Wildcard(pattern) /\ ~HasInfix(pattern, <<"/">>)) THEN FileName(path) ELSE path
    IN IF Wildcard(pattern) THEN GlobMatch(pattern, subject) ELSE HasInfix(subject, pattern)

\* Mutant: a question mark is part of the literal.
RequiredLiteral_Question(pattern) ==
    LET literal == {r \in {SubSeq(pattern, a, b) : a, b \in DOMAIN pattern} : ~HasInfix(r, <<"*">>)} \cup {<<>>}
    IN CHOOSE r \in literal : \A o \in literal : Len(o) <= Len(r)

\* required_literal: the longest run without wildcards.
RequiredLiteral(pattern) ==
    LET runs == {SubSeq(pattern, a, b) : a, b \in DOMAIN pattern}
        literal == {r \in runs : ~Wildcard(r)} \cup {<<>>}
    IN CHOOSE r \in literal : \A o \in literal : Len(o) <= Len(r)

\* What a pattern means: the text is cut into as many pieces as the pattern has
\* characters, a star takes any piece, the others one character each.
GlobMeans(pattern, text) ==
    \E cut \in [0..Len(pattern) -> 0..Len(text)] :
        /\ cut[0] = 0 /\ cut[Len(pattern)] = Len(text)
        /\ \A i \in DOMAIN pattern :
            IF pattern[i] = "*" THEN cut[i - 1] <= cut[i]
            ELSE cut[i] = cut[i - 1] + 1 /\ pattern[i] \in {"?", text[cut[i]]}

-----------------------------------------------------------------------------
(* The order of file names, as bytes; 48 to 57 are digits.                   *)

Digits == 48..57

\* A name as the runs it is compared by: a number, or a byte that is none.
Runs(name) ==
    LET run[i \in Nat] ==
            IF i > Len(name) THEN <<>>
            ELSE IF name[i] \notin Digits THEN <<[byte |-> name[i], number |-> 0]>> \o run[i + 1]
            ELSE LET last == CHOOSE j \in i..Len(name) :
                              (\A k \in i..j : name[k] \in Digits) /\ (j = Len(name) \/ name[j + 1] \notin Digits)
                     value[k \in Nat] == IF k < i THEN 0 ELSE 10 * value[k - 1] + name[k] - 48
                 IN <<[byte |-> name[i], number |-> value[last]]>> \o run[last + 1]
    IN run[1]

\* Mutant: a run of digits is compared to a run of digits by its bytes.
Before_Bytes(a, b) == a.byte < b.byte \/ (a.byte = b.byte /\ a.number < b.number)

\* Two numbers compare by value, whatever zeros lead them, other runs by byte.
Before(a, b) ==
    IF a.byte \in Digits /\ b.byte \in Digits THEN a.number < b.number ELSE a.byte < b.byte

\* natural_file_cmp: the first runs that differ decide, then the length left.
NaturalLess(left, right) ==
    LET a == Runs(left)
        b == Runs(right)
        differ == {i \in DOMAIN a \cap DOMAIN b : Before(a[i], b[i]) \/ Before(b[i], a[i])}
    IN IF differ = {} THEN Len(a) < Len(b)
       ELSE LET i == CHOOSE i \in differ : \A j \in differ : i <= j IN Before(a[i], b[i])

-----------------------------------------------------------------------------
(* The scope of a library; 47 is the separator.                              *)

Separator == 47

Trimmed(directory) == IF directory = <<Separator>> THEN <<>> ELSE directory

\* PathScope::contains: a literal prefix that a separator completes.
Under(path, directory) ==
    IsPrefix(Trimmed(directory), path) /\ Len(path) > Len(Trimmed(directory))
        /\ path[Len(Trimmed(directory)) + 1] = Separator

SameOrDescendant(path, directory) == path = Trimmed(directory) \/ Under(path, directory)

Covered(scope, path) ==
    (\E d \in scope.include : Under(path, d)) /\ ~\E d \in scope.exclude : Under(path, d)

\* SQLite compares text byte by byte.
AtMost(left, right) ==
    \/ IsPrefix(left, right)
    \/ \E i \in DOMAIN left \cap DOMAIN right :
        left[i] < right[i] /\ \A j \in 1..(i - 1) : left[j] = right[j]

\* Mutant: the range ends with the directory's name instead of its separator.
InRange_Wide(path, directory) ==
    LET prefix == Trimmed(directory) IN
    AtMost(Append(prefix, Separator), path) /\ ~AtMost(Append(prefix, 255), path)

\* PathScope::bind: a directory is the half-open range from its name with a
\* separator to its name with the byte after the separator.
InRange(path, directory) ==
    LET prefix == Trimmed(directory) IN
    AtMost(Append(prefix, Separator), path) /\ ~AtMost(Append(prefix, Separator + 1), path)

InRanges(scope, path) ==
    (\E d \in scope.include : InRange(path, d)) /\ ~\E d \in scope.exclude : InRange(path, d)

\* Mutant: focusing on a folder above a root widens the root to the folder.
Focused_Wide(scope, folder) ==
    [scope EXCEPT !.include = {folder : root \in {r \in @ :
        SameOrDescendant(folder, r) \/ SameOrDescendant(r, folder)}}]

\* focused: the folder where it lies in a root, the root where the folder holds it.
Focused(scope, folder) ==
    [scope EXCEPT !.include =
        {folder : root \in {r \in @ : SameOrDescendant(folder, r)}}
        \cup {r \in @ : ~SameOrDescendant(folder, r) /\ SameOrDescendant(r, folder)}]

\* Mutant: only folders inside a root are shown.
ContainsFolder_Inside(scope, folder) ==
    /\ \E r \in scope.include : SameOrDescendant(folder, r)
    /\ ~\E r \in scope.exclude : SameOrDescendant(folder, r)

\* contains_folder: the tree of folders that is shown.
ContainsFolder(scope, folder) ==
    /\ \E r \in scope.include : SameOrDescendant(folder, r) \/ SameOrDescendant(r, folder)
    /\ ~\E r \in scope.exclude : SameOrDescendant(folder, r)

-----------------------------------------------------------------------------
(* Underlined words.                                                        *)

\* Mutant: a longer word is stepped over like one of the same length.
WithinOneEdit_Substitutes(left, right) ==
    LET common == {i \in DOMAIN left \cap DOMAIN right : left[i] # right[i]} IN
    Cardinality(common) + (IF Len(left) > Len(right) THEN Len(left) - Len(right) ELSE Len(right) - Len(left)) <= 1

\* within_one_edit: one walk over both words, the longer one steps alone when
\* they differ in length.
WithinOneEdit(left, right) ==
    LET long == IF Len(left) >= Len(right) THEN left ELSE right
        short == IF Len(left) >= Len(right) THEN right ELSE left
        walk[l, s, edits \in Nat] ==
            IF l = Len(long) \/ s = Len(short) THEN edits + (Len(long) - l) + (Len(short) - s) <= 1
            ELSE IF long[l + 1] = short[s + 1] THEN walk[l + 1, s + 1, edits]
            ELSE edits = 0 /\ walk[l + 1, IF Len(long) = Len(short) THEN s + 1 ELSE s, 1]
    IN Len(long) - Len(short) <= 1 /\ walk[0, 0, 0]

\* The words one insertion, deletion or substitution away, and the word.
OneEdit(word) ==
    {word} \cup {RemoveAt(word, i) : i \in DOMAIN word}
    \cup {[word EXCEPT ![i] = c] : i \in DOMAIN word, c \in Letters}
    \cup {InsertAt(word, i, c) : i \in 1..(Len(word) + 1), c \in Letters}

\* Mutant: a marker opens although another is open.
FromMarked_Nested(snippet) ==
    LET read[i \in Nat] ==
            IF i = 0 THEN [text |-> <<>>, spans |-> <<>>, opened |-> 0]
            ELSE LET r == read[i - 1] IN
                 CASE snippet[i] = "[" -> [r EXCEPT !.opened = Len(r.text) + 1]
                   [] snippet[i] = "]" /\ r.opened # 0 -> [r EXCEPT !.opened = 0,
                          !.spans = Append(@, <<r.opened, Len(r.text) + 1>>)]
                   [] OTHER -> [r EXCEPT !.text = Append(@, snippet[i])]
    IN read[Len(snippet)]

\* from_marked: a marker opens a span when none is open and one closes it later;
\* the others are text of the picture.  A span is its first and last offset.
FromMarked(snippet) ==
    LET read[i \in Nat] ==
            IF i = 0 THEN [text |-> <<>>, spans |-> <<>>, opened |-> 0]
            ELSE LET r == read[i - 1] IN
                 CASE snippet[i] = "[" /\ r.opened = 0 /\ HasInfix(SubSeq(snippet, i + 1, Len(snippet)), <<"]">>)
                      -> [r EXCEPT !.opened = Len(r.text) + 1]
                   [] snippet[i] = "]" /\ r.opened # 0 -> [r EXCEPT !.opened = 0,
                          !.spans = IF Len(r.text) + 1 > r.opened THEN Append(@, <<r.opened, Len(r.text) + 1>>) ELSE @]
                   [] OTHER -> [r EXCEPT !.text = Append(@, snippet[i])]
    IN read[Len(snippet)]

\* What a word shows for the terms of a query, by rising confidence: 0 nothing,
\* 1 one edit apart, 2 a prefix, 3 the same stem, 4 the word itself.
Evidence == 0..4

\* Mutant: a span that grows keeps the evidence it began with.
Merge_First(span, at, kind) == [span EXCEPT !.last = at]

\* A match beside the last one joins its span, which keeps the best evidence.
Merge(span, at, kind) == [span EXCEPT !.last = at, !.kind = IF kind > @ THEN kind ELSE @]

\* highlights, for a text whose words show this evidence.
Highlights(words) ==
    LET spans[i \in Nat] ==
            IF i = 0 THEN <<>>
            ELSE LET before == spans[i - 1] IN
                 IF words[i] = 0 THEN before
                 ELSE IF before # <<>> /\ Last(before).last = i - 1
                 THEN Append(Front(before), Merge(Last(before), i, words[i]))
                 ELSE Append(before, [first |-> i, last |-> i, kind |-> words[i]])
    IN spans[Len(words)]

-----------------------------------------------------------------------------
Wildcards == {"*", "?"}

FilterInit ==
    \/ \E pattern \in Strings({"a", "/"} \cup Wildcards, MaxPattern), path \in Strings({"a", "/"}, MaxText),
          named \in BOOLEAN :
        asked = [about |-> "pattern", pattern |-> pattern, path |-> path, named |-> named]
    \/ \E a, b, c \in Strings(NameBytes, MaxName) : asked = [about |-> "order", names |-> <<a, b, c>>]
    \/ \E include \in SUBSET Directories \ {{}}, exclude \in SUBSET Directories, folder \in Directories,
          path \in FilePaths :
        asked = [about |-> "scope", scope |-> [include |-> include, exclude |-> exclude],
                 folder |-> folder, path |-> path]
    \/ \E left, right \in Strings(Letters, MaxText - 1) :
        asked = [about |-> "edit", left |-> left, right |-> right]
    \/ \E snippet \in Strings({"x", "[", "]"}, Marked) : asked = [about |-> "marked", snippet |-> snippet]
    \/ \E words \in Strings(Evidence, MaxPattern) : asked = [about |-> "words", words |-> words]

-----------------------------------------------------------------------------
(* Properties.                                                              *)

\* The walk over a name, which remembers one star, accepts exactly the names
\* the pattern means, whatever stars and question marks it mixes (glob_match).
GlobAgrees ==
    asked.about = "pattern" => (GlobMatch(asked.pattern, asked.path) <=> GlobMeans(asked.pattern, asked.path))

\* A path that matches contains the literal that the trigram index looks for,
\* so narrowing the candidates loses no file (required_literal, search_files).
LiteralIsNecessary ==
    asked.about = "pattern" /\ Matches(asked.pattern, asked.named, asked.path)
        => HasInfix(asked.path, RequiredLiteral(asked.pattern))

LeadingZero(name, i) ==
    /\ name[i] = 48 /\ i < Len(name) /\ name[i + 1] \in Digits
    /\ \A j \in 1..i : (\A k \in j..i : name[k] \in Digits) => name[j] = 48

Unpadded(name) ==
    LET kept == SelectSeq([i \in DOMAIN name |-> i], LAMBDA i : ~LeadingZero(name, i))
    IN [i \in DOMAIN kept |-> name[kept[i]]]

\* Names have one order however they mix digits and letters: it is transitive
\* in what precedes and in what ties, and only names that differ in the zeros
\* of their numbers tie (natural_file_cmp, whose sort needs a total order).
NaturalOrder ==
    asked.about = "order" =>
        LET a == asked.names[1]
            b == asked.names[2]
            c == asked.names[3]
        IN /\ ~(NaturalLess(a, b) /\ NaturalLess(b, a))
           /\ NaturalLess(a, b) /\ NaturalLess(b, c) => NaturalLess(a, c)
           /\ ~NaturalLess(a, b) /\ ~NaturalLess(b, a) <=> Unpadded(a) = Unpadded(b)

\* A file is in the ranges that the statements ask SQLite for exactly when the
\* code says the scope contains it (bind, contains).
ScopeAgrees ==
    asked.about = "scope" => (Covered(asked.scope, asked.path) <=> InRanges(asked.scope, asked.path))

\* A focused search finds exactly the library's files in the folder (focused).
FocusNarrows ==
    asked.about = "scope" =>
        (Covered(Focused(asked.scope, asked.folder), asked.path)
            <=> Covered(asked.scope, asked.path) /\ Under(asked.path, asked.folder))

\* The tree shows every folder a file of the library is reached through, from
\* the library's root down to the file (contains_folder, contains).
FoldersOfFilesShown ==
    asked.about = "scope" /\ Covered(asked.scope, asked.path) /\ Under(asked.path, asked.folder)
        => ContainsFolder(asked.scope, asked.folder)

\* The walk accepts exactly the words one insertion, deletion or substitution
\* away (within_one_edit).
OneEditAgrees ==
    asked.about = "edit" => (WithinOneEdit(asked.left, asked.right) <=> asked.right \in OneEdit(asked.left))

\* The snippet with its markers, from the text and spans a client receives.
Remarked(read) ==
    LET write[i \in Nat] ==
            IF i > Len(read.text) + 1 THEN <<>>
            ELSE (IF \E s \in Range(read.spans) : s[2] = i THEN <<"]">> ELSE <<>>)
                 \o (IF \E s \in Range(read.spans) : s[1] = i THEN <<"[">> ELSE <<>>)
                 \o (IF i <= Len(read.text) THEN <<read.text[i]>> ELSE <<>>)
                 \o write[i + 1]
    IN write[1]

\* The spans of a snippet lie in its text in order without overlap, and the
\* markers a client would draw for them read back as the same text and spans,
\* whatever brackets the picture itself shows (from_marked).
MarkedRoundTrip ==
    asked.about = "marked" =>
        LET read == FromMarked(asked.snippet)
        IN /\ \A i \in DOMAIN read.spans :
                /\ read.spans[i][1] < read.spans[i][2] /\ read.spans[i][2] <= Len(read.text) + 1
                /\ i > 1 => read.spans[i - 1][2] <= read.spans[i][1]
           /\ FromMarked(Remarked(read)).text = read.text
           /\ FromMarked(Remarked(read)).spans = read.spans

\* Every word with evidence lies in one span and no other word in any, spans
\* never touch, and a span shows its best evidence (highlights).
HighlightsCover ==
    asked.about = "words" =>
        LET words == asked.words
            spans == Highlights(words)
            In(i, s) == s.first <= i /\ i <= s.last
        IN /\ \A i \in DOMAIN words : words[i] # 0 <=> \E s \in Range(spans) : In(i, s)
           /\ \A k \in 2..Len(spans) : spans[k - 1].last + 1 < spans[k].first
           /\ \A s \in Range(spans) :
                s.kind \in {words[i] : i \in s.first..s.last} /\ \A i \in s.first..s.last : words[i] <= s.kind

\* Each filter means what it is for: patterns and the literal they are narrowed
\* by, the order of names, the ranges of a scope, the folders of a tree, words
\* one edit apart, and the spans of a snippet (glob_match, required_literal,
\* natural_file_cmp, bind, contains_folder, within_one_edit, highlights).
FiltersAgree ==
    /\ GlobAgrees
    /\ LiteralIsNecessary
    /\ NaturalOrder
    /\ ScopeAgrees
    /\ FocusNarrows
    /\ FoldersOfFilesShown
    /\ OneEditAgrees
    /\ MarkedRoundTrip
    /\ HighlightsCover
===============================================================================
