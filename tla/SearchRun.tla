------------------------------ MODULE SearchRun ------------------------------
(***************************************************************************)
(* One search request while jobs rewrite the stores it reads: planning the  *)
(* queries, opening the stores, embedding and combining what is searched    *)
(* for, answering every query and fusing the answers.  The image index with *)
(* the catalog attached to it, and the OCR store, are each read in one      *)
(* SQLite snapshot, which begins at the first read.                         *)
(*                                                                         *)
(* A vector is a pair of integers; the stored ones have length one, so the  *)
(* order by cosine distance is the order by scalar product.                 *)
(***************************************************************************)
EXTENDS Integers, Sequences, FiniteSets, SequencesExt, FiniteSetsExt

CONSTANTS
    Assets,             \* asset ids
    Versions,           \* bound: fingerprints a file has in turn, 1..n
    Writes,             \* bound: transactions of other jobs during the request
    Requests,           \* requests clients send
    Scope,              \* [library -> assets its folders cover]
    Frames(_, _),       \* vectors of the frames of an asset in a version
    Taken,              \* [Assets -> instant], the timeline a range is about
    Words(_, _),        \* words OCR reads in an asset in a version
    Direction,          \* [text -> vector], what the models make of a text
    MaxLimit, MaxQueries, MaxComponents, MaxWeight,   \* bounds of the API
    Scale,              \* a common multiple of every k + rank
    NoKey, NoText, NoTime, Always, NoFuse, NoCeiling, NoView, NoScope

ASSUME SearchAssumption == Assets \subseteq Nat /\ Versions \in Nat /\ Scale \in Nat \ {0}

VARIABLES
    cataloged,   \* [Assets -> fingerprint of its row, 0 without one]
    imaged,      \* [Assets -> fingerprint its vectors were made from, or 0]
    read,        \* [Assets -> fingerprint of its OCR row, or 0]
    worded,      \* [Assets -> fingerprint its text vector was made from, or 0]
    written,     \* transactions of other jobs so far
    search       \* the request: phase, plans, views, vectors, answers

stores == <<cataloged, imaged, read, worded, written>>
searchVars == <<stores, search>>

-----------------------------------------------------------------------------
(* Planning.                                                                *)

Distances == {"vector", "image"}

Key(query) == IF query.key = NoKey THEN query.kind ELSE query.key

\* Mutant: keys may repeat.
Duplicate_Allowed(queries) == FALSE

Duplicate(queries) == \E i, j \in DOMAIN queries : i # j /\ Key(queries[i]) = Key(queries[j])

ValidLimit(limit) == limit \in 1..MaxLimit

ValidComponent(component) == component.weight # 0 /\ component.weight \in (-MaxWeight)..MaxWeight

\* A text is a component of weight one after the others.
Components(query) ==
    query.components \o
    (IF query.text = NoText THEN <<>> ELSE <<[source |-> "text", of |-> query.text, weight |-> 1]>>)

ValidInput(query) ==
    CASE query.kind = "image" ->
           /\ Components(query) # <<>> /\ Len(Components(query)) <= MaxComponents
           /\ \A i \in DOMAIN query.components : ValidComponent(query.components[i])
      [] query.kind = "name" -> query.components = <<>>
      [] OTHER -> query.components = <<>> /\ query.text # NoText

ValidQuery(query) ==
    /\ query.limit # 0 => ValidLimit(query.limit)
    /\ query.ceiling # NoCeiling => query.kind \in Distances /\ query.ceiling \in 0..2
    /\ query.weight > 0
    /\ ValidInput(query)

\* Always names a timeline and no bounds; a bound left out is a far instant.
ValidTime(time) == time \in {NoTime, Always} \/ time.after < time.before

TimeResolved(time) == IF time = Always THEN NoTime ELSE time

Accepted(request) ==
    /\ ValidLimit(request.limit)
    /\ request.queries # <<>> /\ Len(request.queries) <= MaxQueries
    /\ ~Duplicate(request.queries)
    /\ ValidTime(request.time)
    /\ \A i \in DOMAIN request.queries : ValidQuery(request.queries[i]) /\ ValidTime(request.queries[i].time)
    /\ request.fuse # NoFuse => request.fuse.k > 0 /\ ValidLimit(request.fuse.limit)

\* A query that names any time field does not inherit those of the request.
PlanOf(request, query) ==
    [key |-> Key(query), kind |-> query.kind, text |-> query.text, components |-> Components(query),
     limit |-> IF query.limit = 0 THEN request.limit ELSE query.limit, ceiling |-> query.ceiling,
     weight |-> query.weight,
     time |-> TimeResolved(IF query.time = NoTime THEN request.time ELSE query.time)]

Idle ==
    [phase |-> "idle", plans |-> <<>>, at |-> 1, scope |-> NoScope, files |-> {}, fuse |-> NoFuse,
     views |-> [store \in {"images", "catalog", "read", "worded"} |-> NoView],
     vectors |-> <<>>, answers |-> <<>>, fused |-> <<>>]

Plan ==
    /\ search.phase = "idle"
    /\ \E request \in Requests :
        search' = IF Accepted(request)
                  THEN [search EXCEPT !.phase = "open", !.fuse = request.fuse, !.files = request.files,
                          !.scope = request.library,
                          !.plans = [i \in DOMAIN request.queries |-> PlanOf(request, request.queries[i])]]
                  ELSE [search EXCEPT !.phase = "rejected"]
    /\ UNCHANGED stores

Kinds == {search.plans[i].kind : i \in DOMAIN search.plans}

\* The library's folders are read once; the snapshots begin without reading.
Open ==
    /\ search.phase = "open"
    /\ search' = IF search.scope \in DOMAIN Scope
                 THEN [search EXCEPT !.phase = "embed", !.scope = Scope[@]]
                 ELSE [search EXCEPT !.phase = "rejected"]
    /\ UNCHANGED stores

-----------------------------------------------------------------------------
(* What the statements see.                                                 *)

\* Mutant: each statement reads the catalog as it is by then.
SeenCatalog_Live == cataloged
SeenCatalog == search.views.catalog

\* Mutant: each statement reads the OCR rows as they are by then.
SeenText_Live == [read |-> read, worded |-> worded]
SeenText == [read |-> search.views.read, worded |-> search.views.worded]

\* An asset whose vectors are current with the catalog.
Current(a) == SeenCatalog[a] # 0 /\ search.views.images[a] = SeenCatalog[a]

\* current_vector: a video stands for its earliest frame.
CurrentVector(a) == Frames(a, search.views.images[a])[1]

\* Mutant: the end of a range belongs to it.
InTime_Closed(time, a) == time # NoTime => time.after <= Taken[a] /\ Taken[a] <= time.before
InTime(time, a) == time # NoTime => time.after <= Taken[a] /\ Taken[a] < time.before

\* SearchFilters: one fragment for the OCR rows and the rows of the catalog.
Admitted(plan, a) == a \in search.scope /\ a \in search.files /\ InTime(plan.time, a)

Dot(v, w) == v[1] * w[1] + v[2] * w[2]
Zero == <<0, 0>>

\* A ceiling of 1 keeps what is not opposed, one of 2 or none keeps everything
\* and one of 0 what is the same direction.
Within(ceiling, vector, v) ==
    CASE ceiling = 1 -> Dot(vector, v) >= 0
      [] ceiling = 0 -> Dot(vector, v) >= 0 /\ Dot(vector, v) ^ 2 = Dot(vector, vector)
      [] OTHER -> TRUE

\* The nearest frame stands for its asset, the earliest of equals.
Winner(vector, a) ==
    LET frames == Frames(a, search.views.images[a]) IN
    CHOOSE i \in DOMAIN frames : \A j \in DOMAIN frames :
        Dot(vector, frames[i]) > Dot(vector, frames[j])
            \/ (Dot(vector, frames[i]) = Dot(vector, frames[j]) /\ i <= j)

\* Mutant: every frame within the ceiling is a hit of its own.
Hits_PerFrame(plan, vector) ==
    UNION {{[asset |-> a, near |-> Dot(vector, Frames(a, search.views.images[a])[i]), newest |-> SeenCatalog[a]] :
               i \in {i \in DOMAIN Frames(a, search.views.images[a]) :
                          Within(plan.ceiling, vector, Frames(a, search.views.images[a])[i])}} :
           a \in {a \in Assets : Current(a) /\ Admitted(plan, a)}}

\* search_vectors: the winners within the ceiling.
Hits(plan, vector) ==
    {[asset |-> a, near |-> Dot(vector, Frames(a, search.views.images[a])[Winner(vector, a)]),
      newest |-> SeenCatalog[a]] :
        a \in {a \in Assets : Current(a) /\ Admitted(plan, a)
                   /\ Within(plan.ceiling, vector, Frames(a, search.views.images[a])[Winner(vector, a)])}}

\* search_text_vectors: rows whose vector was made from the text they hold.
TextHits(plan, vector) ==
    {[asset |-> a, near |-> Dot(vector, Direction[w]), newest |-> SeenText.read[a]] :
        <<a, w>> \in {aw \in Assets \X DOMAIN Direction :
            /\ SeenText.read[aw[1]] # 0 /\ SeenText.worded[aw[1]] = SeenText.read[aw[1]]
            /\ aw[2] = Words(aw[1], SeenText.read[aw[1]])
            /\ Admitted(plan, aw[1]) /\ Within(plan.ceiling, vector, Direction[aw[2]])}}

\* search_operator: whether a text matches is the engine's to say, here by its
\* one word.
TextMatches(plan, words) == words = plan.text

\* search: rows whose text matches, scored by the engine.
LiteralHits(plan) ==
    {[asset |-> a, near |-> 0, newest |-> SeenText.read[a]] :
        a \in {a \in Assets : SeenText.read[a] # 0 /\ TextMatches(plan, Words(a, SeenText.read[a])) /\ Admitted(plan, a)}}

\* search_files: the catalog without a snapshot, by id where names tie.
FileHits(plan) ==
    {[asset |-> a, near |-> 0, newest |-> 0] : a \in {a \in Assets : cataloged[a] # 0 /\ Admitted(plan, a)}}

Nearer(h, g) ==
    \/ h.near > g.near
    \/ h.near = g.near /\ h.newest > g.newest
    \/ h.near = g.near /\ h.newest = g.newest /\ h.asset < g.asset

\* The total counts every hit, the results are the first of them.
Answered(plan, hits) ==
    LET ranked == SetToSortSeq(hits, Nearer) IN
    [key |-> plan.key, total |-> Cardinality(hits), results |-> SubSeq(ranked, 1, Min({plan.limit, Len(ranked)}))]

-----------------------------------------------------------------------------
(* Execution.                                                               *)

Plans(kind) == {i \in DOMAIN search.plans : search.plans[i].kind = kind}

Fails == search' = [search EXCEPT !.phase = "failed"] /\ UNCHANGED stores

\* Every check for cancellation precedes a step; a model may fail to load.
Stops == search.phase \in {"embed", "resolve", "answer", "fuse"} /\ Fails

\* The texts of OCR-vector queries, each embedded once.
EmbedTexts ==
    /\ search.phase = "embed"
    /\ search' = [search EXCEPT !.phase = "resolve", !.at = 1]
    /\ UNCHANGED stores

Images == search.views.images # NoView /\ search.views.catalog # NoView

\* The first statement over both databases takes the views one by one.
PinImages ==
    /\ \/ search.phase = "resolve" /\ search.at \in Plans("image")
          /\ \E c \in Range(search.plans[search.at].components) : c.source = "asset"
       \/ search.phase = "answer" /\ search.at \in Plans("image")
    /\ ~Images
    /\ search' = IF search.views.images = NoView THEN [search EXCEPT !.views.images = imaged]
                 ELSE [search EXCEPT !.views.catalog = cataloged]
    /\ UNCHANGED stores

Vector(component) ==
    IF component.source = "asset" THEN CurrentVector(component.of) ELSE Direction[component.of]

\* resolve: the weighted sum of the components.
Combined(components) ==
    FoldLeft(LAMBDA sum, c : <<sum[1] + c.weight * Vector(c)[1], sum[2] + c.weight * Vector(c)[2]>>, Zero, components)

\* image_vectors.insert: the vectors are kept by the key of their query.
Keep(vectors, key, vector) ==
    [k \in DOMAIN vectors \cup {key} |-> IF k = key THEN vector ELSE vectors[k]]

Resolve ==
    /\ search.phase = "resolve" /\ search.at \in DOMAIN search.plans
    /\ LET plan == search.plans[search.at]
           references == {c \in Range(plan.components) : c.source = "asset"}
       IN IF plan.kind # "image" THEN search' = [search EXCEPT !.at = @ + 1]
          ELSE /\ references # {} => Images
               /\ search' =
                    IF (\E c \in references : ~Current(c.of)) \/ Combined(plan.components) = Zero
                    THEN [search EXCEPT !.phase = "rejected"]
                    ELSE [search EXCEPT !.at = @ + 1,
                             !.vectors = Keep(@, plan.key, Combined(plan.components))]
    /\ UNCHANGED stores

Resolved ==
    /\ search.phase = "resolve" /\ search.at > Len(search.plans)
    /\ search' = [search EXCEPT !.phase = "answer", !.at = 1]
    /\ UNCHANGED stores

\* read_snapshot: the view of the OCR store begins with its first query.
PinText ==
    /\ search.phase = "answer" /\ search.at \in Plans("vector") \cup Plans("simple")
    /\ search.views.read = NoView
    /\ search' = [search EXCEPT !.views.read = read, !.views.worded = worded]
    /\ UNCHANGED stores

Answer ==
    /\ search.phase = "answer" /\ search.at \in DOMAIN search.plans
    /\ LET plan == search.plans[search.at]
           Give(hits) == search' = [search EXCEPT !.at = @ + 1, !.answers = Append(@, Answered(plan, hits))]
       IN CASE plan.kind = "image" -> Images /\ Give(Hits(plan, search.vectors[plan.key]))
            [] plan.kind = "vector" -> search.views.read # NoView /\ Give(TextHits(plan, Direction[plan.text]))
            [] plan.kind = "simple" -> search.views.read # NoView /\ Give(LiteralHits(plan))
            [] plan.kind = "name" -> Give(FileHits(plan))
    /\ UNCHANGED stores

\* The snapshots end before the answers are ranked.
Commit ==
    /\ search.phase = "answer" /\ search.at > Len(search.plans)
    /\ search' = [search EXCEPT !.phase = "fuse"]
    /\ UNCHANGED stores

RankIn(answer, a) == CHOOSE r \in DOMAIN answer.results : answer.results[r].asset = a

Found(answer) == {answer.results[r].asset : r \in DOMAIN answer.results}

\* Mutant: the score of the last query that returned the asset.
Score_Last(a) ==
    LET last == CHOOSE i \in DOMAIN search.answers : a \in Found(search.answers[i])
                    /\ \A j \in DOMAIN search.answers : a \in Found(search.answers[j]) => j <= i
    IN search.plans[last].weight * (Scale \div (search.fuse.k + RankIn(search.answers[last], a)))

\* Reciprocal ranks, weighted, summed over the queries that returned the asset.
Score(a) ==
    FoldSet(LAMBDA i, sum : sum + search.plans[i].weight * (Scale \div (search.fuse.k + RankIn(search.answers[i], a))),
            0, {i \in DOMAIN search.answers : a \in Found(search.answers[i])})

Fuse ==
    /\ search.phase = "fuse"
    /\ LET found == UNION {Found(search.answers[i]) : i \in DOMAIN search.answers}
           ranked == SetToSortSeq(found, LAMBDA a, b : Score(a) > Score(b) \/ (Score(a) = Score(b) /\ a < b))
       IN search' = [search EXCEPT !.phase = "done",
                       !.fused = IF search.fuse = NoFuse THEN <<>>
                                 ELSE SubSeq(ranked, 1, Min({search.fuse.limit, Len(ranked)}))]
    /\ UNCHANGED stores

-----------------------------------------------------------------------------
(* The jobs that write the stores meanwhile.                                *)

Writing == written < Writes /\ written' = written + 1 /\ UNCHANGED search

Recatalog(a) ==
    /\ Writing /\ cataloged[a] < Versions
    /\ cataloged' = [cataloged EXCEPT ![a] = @ + 1] /\ UNCHANGED <<imaged, read, worded>>

Reindex(a) ==
    /\ Writing /\ cataloged[a] # 0
    /\ \/ imaged' = [imaged EXCEPT ![a] = cataloged[a]] /\ UNCHANGED <<read, worded>>
       \/ read' = [read EXCEPT ![a] = cataloged[a]] /\ UNCHANGED <<imaged, worded>>
       \/ worded' = [worded EXCEPT ![a] = read[a]] /\ UNCHANGED <<imaged, read>>
    /\ UNCHANGED cataloged

Forget(a) ==
    /\ Writing
    /\ cataloged' = [cataloged EXCEPT ![a] = 0] /\ imaged' = [imaged EXCEPT ![a] = 0]
    /\ read' = [read EXCEPT ![a] = 0] /\ worded' = [worded EXCEPT ![a] = 0]

SearchInit ==
    /\ cataloged = [a \in Assets |-> 1] /\ read = [a \in Assets |-> 1]
    /\ imaged \in {[a \in Assets |-> 1], [a \in Assets |-> IF a = 1 THEN 0 ELSE 1]}
    /\ worded = [a \in Assets |-> IF a = 1 THEN 0 ELSE 1]
    /\ written = 0 /\ search = Idle

SearchSteps ==
    Plan \/ Open \/ Stops \/ EmbedTexts \/ PinImages \/ Resolve \/ Resolved \/ PinText \/ Answer \/ Commit \/ Fuse

\* Writes before the request and after its answers make no difference to it.
SearchNext ==
    \/ SearchSteps
    \/ search.phase \notin {"idle", "done", "failed", "rejected"} /\ \E a \in Assets : Recatalog(a) \/ Reindex(a) \/ Forget(a)

-----------------------------------------------------------------------------
(* Properties.                                                              *)

Answers == {<<search.plans[i], search.answers[i]>> : i \in DOMAIN search.answers}

\* A picture the user searches by is at distance zero from its own query, so
\* it is among the hits however the stores change while the request runs: it
\* was current when its vector was read and still is for the query.
ReferencesFindThemselves ==
    \A pa \in Answers :
        LET plan == pa[1]
            reference == plan.components[1]
        IN plan.kind = "image" /\ Len(plan.components) = 1 /\ reference.source = "asset" /\ reference.weight > 0
               /\ Admitted(plan, reference.of)
           => \/ reference.of \in Found(pa[2])
              \/ Len(pa[2].results) = plan.limit
                 /\ \A r \in DOMAIN pa[2].results : Within(0, search.vectors[plan.key],
                        Frames(pa[2].results[r].asset, search.views.images[pa[2].results[r].asset])
                            [Winner(search.vectors[plan.key], pa[2].results[r].asset)])

\* Every image query is answered with the direction of its own components.
OwnDirection ==
    \A i \in DOMAIN search.answers :
        search.plans[i].kind = "image" => search.vectors[search.plans[i].key] = Combined(search.plans[i].components)

\* Two text queries of a request that ask the same count the same, and ranges
\* that meet share no row and add up to the range of both (read_snapshot,
\* TimeRange).
SameText(p, q) == p.kind = q.kind /\ p.text = q.text /\ p.ceiling = q.ceiling /\ p.kind \in {"simple", "vector"}

OneViewOfText ==
    \A x, y \in Answers : SameText(x[1], y[1]) /\ x[1].time = y[1].time => x[2].total = y[2].total

RangesTile ==
    \A x, y, z \in Answers :
        /\ SameText(x[1], y[1]) /\ SameText(y[1], z[1]) /\ NoTime \notin {x[1].time, y[1].time, z[1].time}
        /\ x[1].time.before = y[1].time.after
        /\ z[1].time = [after |-> x[1].time.after, before |-> y[1].time.before]
        => x[2].total + y[2].total = z[2].total

\* An asset is a hit of a query once, the total counts assets and the results
\* are short only when there are no more (search_vectors, search_count).
TotalsCountAssets ==
    \A pa \in Answers :
        /\ Cardinality(Found(pa[2])) = Len(pa[2].results)
        /\ Len(pa[2].results) = Min({pa[1].limit, pa[2].total})
        /\ pa[2].total <= Cardinality(Assets)

\* What every query ranks no lower, and some query higher or alone, comes first
\* in the fused answer (Fusion::apply).
FusedRespectsQueries ==
    search.phase = "done" /\ search.fuse # NoFuse =>
        \A a, b \in UNION {Found(search.answers[i]) : i \in DOMAIN search.answers} :
            LET NoWorse(i) == b \in Found(search.answers[i])
                        => a \in Found(search.answers[i]) /\ RankIn(search.answers[i], a) <= RankIn(search.answers[i], b)
            IN a # b /\ (\A i \in DOMAIN search.answers : NoWorse(i)) /\ b \in Range(search.fused)
               => \E i, j \in DOMAIN search.fused : search.fused[i] = a /\ search.fused[j] = b /\ i < j

\* The answers of one request agree with each other and with one state of each
\* store, whatever other jobs commit between its reads: examples find
\* themselves, like queries count alike, ranges tile, fusion respects ranks.
AnswersAgree ==
    /\ ReferencesFindThemselves
    /\ OwnDirection
    /\ OneViewOfText
    /\ RangesTile
    /\ TotalsCountAssets
    /\ FusedRespectsQueries
===============================================================================
