--------------------------- MODULE ThumbnailFlights ---------------------------
(***************************************************************************)
(* The thumbnail service.  Callers (ensure requests and the backfill job)    *)
(* claim every variant they want; the first to claim one owns its flight,    *)
(* asks the writer what is current, decodes the rest and has it stored, and  *)
(* the others wait for the flight.  One writer thread owns the database and  *)
(* serves a bounded queue, into which an image is also put, its samples are  *)
(* stored and its thumbnails are deleted.  A fingerprint is the version of   *)
(* the source file.                                                          *)
(***************************************************************************)
EXTENDS Naturals, Sequences, FiniteSets

CONSTANTS
    Callers, BackfillJob,   \* threads in generate; the job is one of them
    ThumbAssets, Buckets,   \* asset ids (numbers) and SIZE_BUCKETS
    ThumbChunk,             \* GENERATION_ASSET_CHUNK_SIZE, 32 in the code
    QueueCapacity,          \* WRITER_QUEUE_CAPACITY, 64 in the code
    Requested, JobOptions,  \* bounds: assets of a request, <<force, sweepStale>> of a job
    Touched,                \* bound: assets whose file changes or is written from outside
    MaxFlights,             \* bound: flights, those of calls under way included
    MaxOutside              \* bound: puts, sample stores and deletions

ASSUME ThumbAssumption ==
    /\ BackfillJob \in Callers /\ JobOptions \subseteq BOOLEAN \X BOOLEAN
    /\ ThumbAssets \subseteq Nat /\ ThumbAssets # {} /\ Buckets \subseteq Nat /\ Buckets # {}
    /\ ThumbChunk \in Nat \ {0} /\ Touched \subseteq ThumbAssets
    /\ \A assets \in Requested : assets \subseteq ThumbAssets /\ assets # {}

VARIABLES
    source,     \* asset -> version on disk
    thumbs,     \* thumbnails, <<asset, bucket>> -> [fp, seen, shared]
    oldRows,    \* assets with rows of an older generator version
    flights,    \* the registry: key -> number of its flight
    results,    \* number of a flight -> "running", "stored", "cached" or "failed"
    caller,     \* caller -> what its call of generate holds
    queue,      \* commands that wait for the writer
    everStored, \* history: keys that were committed
    outside     \* puts, sample stores and deletions so far

thumbVars == <<source, thumbs, oldRows, flights, results, caller, queue, everStored, outside>>

NoThumb == [fp |-> 0, seen |-> 0, shared |-> FALSE]

IdleCaller ==
    [pc |-> "idle", rest |-> {}, fp |-> [a \in ThumbAssets |-> 0], todo |-> {}, buckets |-> {},
     force |-> FALSE, sweep |-> FALSE, waits |-> {}, owned |-> {}, current |-> {}, decoded |-> {},
     broken |-> FALSE, bad |-> FALSE, had |-> {}]

ThumbFresh ==
    /\ source = [a \in ThumbAssets |-> 1]
    /\ thumbs = [v \in ThumbAssets \X Buckets |-> NoThumb] /\ oldRows = ThumbAssets
    /\ flights = [k \in {} |-> 0]
    /\ caller = [c \in Callers |-> IdleCaller]
    /\ queue = <<>> /\ everStored = {}

ThumbInit == ThumbFresh /\ results = <<>> /\ outside = 0

SwapSource(a) ==
    /\ source[a] = 1
    /\ source' = [source EXCEPT ![a] = 2]
    /\ UNCHANGED <<thumbs, oldRows, flights, results, caller, queue, everStored, outside>>

Least(assets, n) == {a \in assets : Cardinality({o \in assets : o < a}) < n}

\* The call goes on with its next chunk.
WithChunk(call) ==
    LET chunk == Least(call.rest, ThumbChunk) IN
    [call EXCEPT !.pc = "claim", !.rest = @ \ chunk, !.waits = {}, !.current = {}, !.decoded = {},
        !.broken = FALSE, !.todo = {<<a, b, call.fp[a]>> : a \in chunk, b \in call.buckets}]

\* A call of generate for some assets in some buckets, with these fingerprints.
Start(c, assets, buckets, fp, force, sweep) ==
    /\ caller[c].pc = "idle"
    /\ Len(results) + Cardinality(assets) * Cardinality(buckets)
         + Cardinality(UNION {caller[o].todo : o \in Callers}) <= MaxFlights
    /\ caller' = [caller EXCEPT ![c] = WithChunk([IdleCaller EXCEPT
            !.rest = assets, !.buckets = buckets, !.fp = fp, !.force = force, !.sweep = sweep])]
    /\ UNCHANGED <<source, thumbs, oldRows, flights, results, queue, everStored, outside>>

\* POST /v1/thumbnails: one bucket, the fingerprints that are on disk.
Ensure(c) ==
    \E assets \in Requested, b \in Buckets :
        c # BackfillJob /\ Start(c, assets, {b}, source, FALSE, FALSE)

\* The job: the fingerprints of the catalog, which are those of some earlier
\* scan; only a backfill of every bucket may sweep.
Backfill ==
    \E fp \in [ThumbAssets -> 1..2], o \in JobOptions :
        /\ \A a \in ThumbAssets : fp[a] <= source[a]
        /\ Start(BackfillJob, ThumbAssets, Buckets, fp, o[1], o[2])

\* Mutant: a key that is in flight gets a second owner.
Claimable_Always(k) == TRUE

\* claim: the first caller of a key owns it.
Claimable(k) == k \notin DOMAIN flights

\* claim_chunk claims one key at a time, assets and buckets in order; other
\* callers claim in between.
ClaimKey(c) ==
    /\ caller[c].pc = "claim"
    /\ LET k == CHOOSE k \in caller[c].todo : \A o \in caller[c].todo :
                    o[1] > k[1] \/ (o[1] = k[1] /\ o[2] >= k[2])
           more == caller[c].todo # {k}
           new == Len(results) + 1
           owned == caller[c].owned \cup (IF Claimable(k) THEN {<<k, new>>} ELSE {})
           next == IF more THEN "claim" ELSE IF owned = {} THEN "wait"
                   ELSE IF caller[c].force THEN "decode" ELSE "check"
       IN
       /\ IF Claimable(k)
          THEN /\ flights' = [f \in DOMAIN flights \cup {k} |-> IF f = k THEN new ELSE flights[f]]
               /\ results' = Append(results, "running")
          ELSE UNCHANGED <<flights, results>>
       /\ caller' = [caller EXCEPT ![c].todo = @ \ {k}, ![c].owned = owned, ![c].pc = next,
              ![c].waits = @ \cup {<<k, IF Claimable(k) THEN new ELSE flights[k]>>}]
    /\ UNCHANGED <<source, thumbs, oldRows, queue, everStored, outside>>

\* request: the command enters the bounded queue, the caller waits for the reply.
Send(c, kind, next) ==
    /\ Len(queue) < QueueCapacity
    /\ queue' = Append(queue, [kind |-> kind, from |-> c])
    /\ caller' = [caller EXCEPT ![c].pc = next]

\* mark_current; a call that forces does not ask.
AskCurrent(c) ==
    /\ caller[c].pc = "check" /\ Send(c, "current", "asked")
    /\ UNCHANGED <<source, thumbs, oldRows, flights, results, everStored, outside>>

\* resolve: the flight is finished and, when the key is still its own, freed,
\* both under the registry lock.
Resolved(completed, outcome) ==
    /\ results' = [n \in DOMAIN results |->
            IF \E o \in completed : o[2] = n
            THEN outcome[CHOOSE o \in completed : o[2] = n] ELSE results[n]]
    /\ flights' = [k \in {k \in DOMAIN flights : <<k, flights[k]>> \notin completed} |-> flights[k]]

FailAll(completed) == Resolved(completed, [o \in completed |-> "failed"])

\* Mutant: only an error wakes the waiters; what a panic unwinds stays.
Unwinds_Not(c) == UNCHANGED <<results, flights>>

\* Drop for ClaimedVariant completes what is left when a panic unwinds.
Unwinds(c) == FailAll(caller[c].owned)

Missing(c) == {o[1] : o \in caller[c].owned} \ caller[c].current

\* decode_claimed: per asset one pass over the source as it is now; the flights
\* of an asset that cannot be decoded fail, its siblings go on.
DecodeClaimed(c) ==
    /\ caller[c].pc = "decode"
    /\ \E bad \in SUBSET {k[1] : k \in Missing(c)} :
        LET lost == {o \in caller[c].owned : o[1][1] \in bad}
            good == {k \in Missing(c) : k[1] \notin bad}
        IN /\ caller' = [caller EXCEPT ![c].owned = @ \ lost,
                            ![c].decoded = {<<k, source[k[1]]>> : k \in good},
                            ![c].pc = IF good = {} THEN "complete" ELSE "persist"]
           /\ FailAll(lost)
    /\ UNCHANGED <<source, thumbs, oldRows, queue, everStored, outside>>

\* A decoder that panics takes the whole call with it.
DecodePanics(c) ==
    /\ caller[c].pc = "decode" /\ Missing(c) # {}
    /\ caller' = [caller EXCEPT ![c] = IdleCaller] /\ Unwinds(c)
    /\ UNCHANGED <<source, thumbs, oldRows, queue, everStored, outside>>

\* Mutant: the fingerprint is read again when the batch is stored.
Labelled_Late(k) == source[k[1]]

\* A variant is stored under the fingerprint its call began with.
Labelled(k) == k[3]

Decoded(c) == {[at |-> <<d[1][1], d[1][2]>>, row |-> [fp |-> Labelled(d[1]), seen |-> d[2], shared |-> TRUE]] :
                   d \in caller[c].decoded}

\* persist_decoded: one batch for the chunk.
SendBatch(c) ==
    /\ caller[c].pc = "persist" /\ Len(queue) < QueueCapacity
    /\ queue' = Append(queue, [kind |-> "store", from |-> c, rows |-> Decoded(c)])
    /\ caller' = [caller EXCEPT ![c].pc = "storing"]
    /\ UNCHANGED <<source, thumbs, oldRows, flights, results, everStored, outside>>

\* Mutant: a batch that failed is completed as stored.
Outcome_Stored(c, k) == IF k \in caller[c].current THEN "cached" ELSE "stored"

\* What a flight ends with; a variant that was current is cached whatever
\* happened to the batch.
Outcome(c, k) ==
    IF k \in caller[c].current THEN "cached" ELSE IF caller[c].broken THEN "failed" ELSE "stored"

Landed(c) == \A w \in caller[c].waits : results[w[2]] # "running"

\* Mutant: a caller waits for what it joined before it completes what it owns.
CompletesFirst_Not(c) == \A w \in caller[c].waits \ caller[c].owned : results[w[2]] # "running"

\* Own flights are completed before any flight is waited on.
CompletesFirst(c) == TRUE

Complete(c) ==
    /\ caller[c].pc = "complete" /\ CompletesFirst(c)
    /\ Resolved(caller[c].owned, [o \in caller[c].owned |-> Outcome(c, o[1])])
    /\ caller' = [caller EXCEPT ![c].pc = "wait", ![c].owned = {}]
    /\ UNCHANGED <<source, thumbs, oldRows, queue, everStored, outside>>

\* A flight nobody holds any more is gone, and its result with it.
Dropped(c) ==
    results' = [n \in DOMAIN results |->
        IF \E o \in Callers \ {c} : \E w \in caller[o].waits : w[2] = n THEN results[n] ELSE "dropped"]

\* Mutant: the backfill job sweeps whatever happened to its assets.
MaySweep_Always(c, bad) == caller[c].sweep

\* "refusing to sweep stale thumbnail generators after backfill failures".
MaySweep(c, bad) == caller[c].sweep /\ ~bad

\* finish_waiter, for the whole chunk: one failed flight fails its asset.  Then
\* the next chunk begins, or the loop is over and the call sweeps or answers.
\* Cancellation is looked at here, when the chunk's flights are complete.
FinishWaiter(c) ==
    /\ caller[c].pc = "wait" /\ Landed(c) /\ Dropped(c)
    /\ LET bad == caller[c].bad \/ \E w \in caller[c].waits : results[w[2]] = "failed"
           done == [caller[c] EXCEPT !.bad = bad, !.waits = {}, !.had = @ \cup {w[1] : w \in caller[c].waits},
                        !.pc = IF MaySweep(c, bad) THEN "sweep" ELSE "answered"]
       IN caller' \in {[caller EXCEPT ![c] = IF done.rest = {} THEN done ELSE WithChunk(done)],
                       [caller EXCEPT ![c] = IdleCaller]}
    /\ UNCHANGED <<source, thumbs, oldRows, flights, queue, everStored, outside>>

\* sweep_old_generators_for_assets.
SendSweep(c) ==
    /\ caller[c].pc = "sweep" /\ Send(c, "sweep", "sweeping")
    /\ UNCHANGED <<source, thumbs, oldRows, flights, results, everStored, outside>>

Return(c) ==
    /\ caller[c].pc = "answered"
    /\ caller' = [caller EXCEPT ![c] = IdleCaller]
    /\ UNCHANGED <<source, thumbs, oldRows, flights, results, queue, everStored, outside>>

-----------------------------------------------------------------------------
(* Commands that need no flight.                                            *)

Outside(command) ==
    /\ outside < MaxOutside /\ Len(queue) < QueueCapacity
    /\ outside' = outside + 1 /\ queue' = Append(queue, command)
    /\ UNCHANGED <<source, thumbs, oldRows, flights, results, caller, everStored>>

\* PUT /v1/thumbnails: what the client drew (seen 0), under the fingerprint of
\* this moment.
Put(v) == Outside([kind |-> "put", rows |->
    {[at |-> v, row |-> [fp |-> source[v[1]], seen |-> 0, shared |-> FALSE]]}])

\* An index worker sampled the video under the fingerprint of the catalog.
StoreVideoSamples(a) ==
    \E fp \in 1..source[a] : Outside([kind |-> "put", rows |->
        {[at |-> <<a, b>>, row |-> [fp |-> fp, seen |-> source[a], shared |-> FALSE]] : b \in Buckets}])

DeleteAsset(a) == Outside([kind |-> "delete", asset |-> a])

-----------------------------------------------------------------------------
(* thumbnail_writer serves the head of its queue.  A connection that does     *)
(* not open, or a command that fails, is an error to its caller alone.       *)

Serves(kind) == queue # <<>> /\ Head(queue).kind = kind /\ queue' = Tail(queue)

\* Current: has_current of every key; an error fails every owned flight.
WriteCurrent ==
    /\ Serves("current")
    /\ LET c == Head(queue).from IN
       \/ /\ caller' = [caller EXCEPT ![c].pc = "decode",
                  ![c].current = {k \in {o[1] : o \in caller[c].owned} : thumbs[<<k[1], k[2]>>].fp = k[3]}]
          /\ UNCHANGED <<flights, results>>
       \/ /\ FailAll(caller[c].owned)
          /\ caller' = [caller EXCEPT ![c].pc = "wait", ![c].owned = {}]
    /\ UNCHANGED <<source, thumbs, oldRows, everStored, outside>>

\* INSERT .. ON CONFLICT DO UPDATE, in one transaction.
Upserted(new) ==
    [v \in DOMAIN thumbs |-> IF \E n \in new : n.at = v THEN (CHOOSE n \in new : n.at = v).row ELSE thumbs[v]]

\* store_batch and store_encoded_video_samples.
Stores(new) ==
    /\ thumbs' = Upserted(new)
    /\ everStored' = everStored \cup {<<n.at[1], n.at[2], n.row.fp>> : n \in new}

\* Store, for a batch of decoded variants.
WriteBatch ==
    /\ Serves("store")
    /\ LET c == Head(queue).from IN
       \/ Stores(Head(queue).rows) /\ caller' = [caller EXCEPT ![c].pc = "complete"]
       \/ /\ caller' = [caller EXCEPT ![c].pc = "complete", ![c].broken = TRUE]
          /\ UNCHANGED <<thumbs, everStored>>
    /\ UNCHANGED <<source, oldRows, flights, results, outside>>

\* Put and StoreVideoSamples.
WritePut ==
    /\ Serves("put")
    /\ \/ Stores(Head(queue).rows)
       \/ UNCHANGED <<thumbs, everStored>>
    /\ UNCHANGED <<source, oldRows, flights, results, caller, outside>>

\* Sweep: rows of other generator versions go, for the assets of the job.
WriteSweep ==
    /\ Serves("sweep")
    /\ oldRows' \in {oldRows, oldRows \ ThumbAssets}
    /\ caller' = [caller EXCEPT ![Head(queue).from].pc = "answered"]
    /\ UNCHANGED <<source, thumbs, flights, results, everStored, outside>>

\* Delete: every row of the asset, in both tables.
WriteDelete ==
    /\ Serves("delete")
    /\ LET a == Head(queue).asset IN
       /\ thumbs' = [v \in DOMAIN thumbs |-> IF v[1] = a THEN NoThumb ELSE thumbs[v]]
       /\ oldRows' = oldRows \ {a}
    /\ UNCHANGED <<source, flights, results, caller, everStored, outside>>

WriterServes == WriteCurrent \/ WriteBatch \/ WritePut \/ WriteSweep \/ WriteDelete

CallerSteps(c) ==
    \/ ClaimKey(c) \/ AskCurrent(c) \/ DecodeClaimed(c) \/ DecodePanics(c)
    \/ SendBatch(c) \/ Complete(c) \/ FinishWaiter(c) \/ SendSweep(c) \/ Return(c)

ThumbNext ==
    \/ WriterServes
    \/ \E c \in Callers : CallerSteps(c) \/ Ensure(c)
    \/ Backfill
    \/ \E a \in Touched : SwapSource(a) \/ StoreVideoSamples(a) \/ DeleteAsset(a)
    \/ \E v \in Touched \X Buckets : Put(v)

-----------------------------------------------------------------------------
(* Properties.                                                              *)

\* "Claiming before cache lookup prevents duplicate owners": an unforced call
\* decodes a variant only when no other call has stored it meanwhile.
DecodedOnce ==
    [][queue # <<>> /\ Head(queue).kind = "store" /\ thumbs' # thumbs =>
         caller[Head(queue).from].force
         \/ \A n \in Head(queue).rows : thumbs[n.at].shared => thumbs[n.at].fp # n.row.fp]_thumbVars

\* Every flight of the registry has a live owner: a decode that panics, a
\* writer that errs or a call that is cancelled leaves no key that nobody will
\* complete, and frees it for a retry.
FlightsOwned ==
    \A k \in DOMAIN flights : \E c \in Callers : <<k, flights[k]>> \in caller[c].owned

\* "Stale variants must never be served": a row whose fingerprint is that of
\* the file now shows the file as it is now, however the file was swapped
\* between the look at its fingerprint, the decode and the store.
NeverStale ==
    \A v \in DOMAIN thumbs : thumbs[v].fp = source[v[1]] /\ thumbs[v].seen # 0 => thumbs[v].seen = source[v[1]]

\* "A successful response is a durability acknowledgement": what a call without
\* failures waited for was committed, by it or by the call it joined.
AnswersDurable ==
    \A c \in Callers : caller[c].pc \in {"answered", "sweeping"} /\ ~caller[c].bad =>
        caller[c].had \subseteq everStored

\* The rows of an older generator go only when an asset is deleted or when all
\* its variants were replaced: a viewer is never left with nothing.
SweepSafe ==
    [][\A a \in oldRows \ oldRows' : Head(queue).kind = "sweep" =>
         \A b \in Buckets : <<a, b, caller[Head(queue).from].fp[a]>> \in everStored]_thumbVars

\* Every call returns: an owner completes its flights before it waits for those
\* of others, so callers never wait for each other in a circle.
CallersReturn == \A c \in Callers : caller[c].pc # "idle" ~> caller[c].pc = "idle"

ThumbFairness == WF_thumbVars(WriterServes) /\ \A c \in Callers : SF_thumbVars(CallerSteps(c))

\* One decode per variant, shared by all who want it; what is acknowledged is
\* stored, current and not swept: with files that change, decodes that panic,
\* puts and deletions in the writer's queue, and cancelled calls.
ThumbnailsHold ==
    /\ [](FlightsOwned /\ NeverStale /\ AnswersDurable)
    /\ DecodedOnce
    /\ SweepSafe

ThumbSpec == ThumbInit /\ [][ThumbNext]_thumbVars

-----------------------------------------------------------------------------
(* The inductive invariant.                                                 *)

ThumbKeys == ThumbAssets \X Buckets \X Nat
FlightStates == {"running", "stored", "cached", "failed", "dropped"}
ThumbRow == [fp : Nat, seen : Nat, shared : BOOLEAN]
PlacedRows == [at : ThumbAssets \X Buckets, row : ThumbRow]
Commands ==
    [kind : {"current", "sweep"}, from : Callers] \cup [kind : {"store"}, from : Callers, rows : SUBSET PlacedRows]
    \cup [kind : {"put"}, rows : SUBSET PlacedRows] \cup [kind : {"delete"}, asset : ThumbAssets]
CallerStates ==
    [pc : {"idle", "claim", "check", "asked", "decode", "persist", "storing", "complete", "wait",
           "sweep", "sweeping", "answered"},
     rest : SUBSET ThumbAssets, fp : [ThumbAssets -> Nat], todo : SUBSET ThumbKeys, buckets : SUBSET Buckets,
     force : BOOLEAN, sweep : BOOLEAN, waits : SUBSET (ThumbKeys \X Nat), owned : SUBSET (ThumbKeys \X Nat),
     current : SUBSET ThumbKeys, decoded : SUBSET (ThumbKeys \X Nat),
     broken : BOOLEAN, bad : BOOLEAN, had : SUBSET ThumbKeys]

ThumbTypeOK ==
    /\ source \in [ThumbAssets -> {1, 2}] /\ thumbs \in [ThumbAssets \X Buckets -> ThumbRow]
    /\ oldRows \subseteq ThumbAssets /\ everStored \subseteq ThumbKeys
    /\ results \in Seq(FlightStates) /\ caller \in [Callers -> CallerStates]
    /\ queue \in Seq(Commands)

\* A call's keys carry fingerprints that were on disk, and what it decoded is
\* no older than its key.
CallDated(r, files) ==
    /\ \A a \in r.rest : 0 < r.fp[a] /\ r.fp[a] <= files[a]
    /\ \A k \in r.todo : 0 < k[3] /\ k[3] <= files[k[1]]
    /\ \A o \in r.owned : 0 < o[1][3] /\ o[1][3] <= files[o[1][1]]
    /\ \A d \in r.decoded : d[1][3] <= d[2] /\ d[2] <= files[d[1][1]]

\* A call waits for what it owns too, until it owns nothing; a flight that ended
\* well is a row that was committed.
Landing(w, ends, stored) ==
    /\ w[2] \in DOMAIN ends /\ ends[w[2]] # "dropped"
    /\ ends[w[2]] \in {"stored", "cached"} => w[1] \in stored
CallJoined(r, ends, stored) ==
    /\ r.owned \subseteq r.waits
    /\ r.pc \in {"idle", "wait", "answered", "sweep", "sweeping"} => r.owned = {}
    /\ \A w \in r.waits : Landing(w, ends, stored)

\* What a call has decoded is what it owns and found missing; what it may
\* acknowledge was committed.
CallStored(r, stored) ==
    /\ r.current \subseteq stored /\ (~r.bad => r.had \subseteq stored)
    /\ r.pc \in {"persist", "storing"} => {d[1] : d \in r.decoded} = {o[1] : o \in r.owned} \ r.current
    /\ r.pc = "complete" /\ ~r.broken => {o[1] : o \in r.owned} \subseteq stored

\* A call that sweeps has every asset and bucket behind it, or before it.
CallCovers(r) ==
    /\ r.pc = "claim" <=> r.todo # {}
    /\ r.pc # "idle" => r.buckets # {}
    /\ r.pc \in {"sweep", "sweeping"} => r.sweep /\ ~r.bad /\ r.rest = {} /\ r.waits = {}
    /\ r.sweep /\ r.pc # "idle" =>
           /\ r.buckets = Buckets
           /\ \A a \in ThumbAssets, b \in Buckets :
                  a \in r.rest \/ <<a, b, r.fp[a]>> \in r.todo \cup r.had \cup {w[1] : w \in r.waits}

CallInv(r, files, ends, stored) ==
    CallDated(r, files) /\ CallJoined(r, ends, stored) /\ CallStored(r, stored) /\ CallCovers(r)

\* A key has one owner, and a flight one key.
RegistryInv ==
    /\ FlightsOwned
    /\ \A c \in Callers : \A o \in caller[c].owned : o[1] \in DOMAIN flights /\ flights[o[1]] = o[2]
    /\ \A c, d \in Callers : c # d => caller[c].owned \cap caller[d].owned = {}
    /\ \A c, d \in Callers : \A v \in caller[c].waits, w \in caller[d].waits : v[2] = w[2] => v[1] = w[1]

\* A row shows the file as it was under its fingerprint, or later.
TrueRow(a, row) == row.seen = 0 \/ (row.fp <= row.seen /\ row.seen <= source[a])
RowsInv ==
    \A v \in ThumbAssets \X Buckets :
        TrueRow(v[1], thumbs[v]) /\ (thumbs[v].fp # 0 => <<v[1], v[2], thumbs[v].fp>> \in everStored)

\* A caller waits for the one command it has in the queue.
Asking == {"current", "store", "sweep"}
CommandOK(m) ==
    /\ m.kind = "current" => caller[m.from].pc = "asked"
    /\ m.kind = "store" => caller[m.from].pc = "storing" /\ m.rows = Decoded(m.from)
    /\ m.kind = "sweep" => caller[m.from].pc = "sweeping"
    /\ m.kind = "put" => \A n \in m.rows : ~n.row.shared /\ TrueRow(n.at[1], n.row)
QueueInv ==
    /\ \A i \in DOMAIN queue : CommandOK(queue[i])
    /\ \A i, j \in DOMAIN queue : i # j /\ queue[i].kind \in Asking /\ queue[j].kind \in Asking => queue[i].from # queue[j].from

\* What an unforced call found missing, no other call has stored since.
NotYetShared(k) == ~(thumbs[<<k[1], k[2]>>].shared /\ thumbs[<<k[1], k[2]>>].fp = k[3])
SharedOnce ==
    \A c \in Callers : ~caller[c].force /\ caller[c].pc \in {"decode", "persist", "storing"} =>
        \A k \in Missing(c) : NotYetShared(k)

ThumbInv ==
    /\ ThumbTypeOK /\ RegistryInv /\ RowsInv /\ QueueInv /\ SharedOnce
    /\ \A c \in Callers : CallInv(caller[c], source, results, everStored)
===============================================================================
