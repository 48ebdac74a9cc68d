----------------------------- MODULE DatumSession -----------------------------
(***************************************************************************)
(* A DATUM gateway's session: src/src/services/datum.service.ts with the    *)
(* frames of src/src/models/datum/datum-codec.ts and the keys and nonces of *)
(* src/src/models/datum/datum-crypto.ts.                                    *)
(*                                                                         *)
(* The gateway makes its own templates; it fetches the outputs its coinbase *)
(* has to pay, submits work and is asked for its jobs' transactions.  Each  *)
(* piece of data that arrives starts a handler of its own that goes through *)
(* the frames in it and waits for each; handlers of different pieces        *)
(* overlap.  Writes end in the order they were made, calls of the database  *)
(* in any order.  What a frame holds is chosen when it is handled.          *)
(*                                                                         *)
(* A template stands for its outputs and its snapshot; a coinbase that pays *)
(* template 0 pays none.  Coinbases come with a submission or are cached.   *)
(***************************************************************************)
EXTENDS Integers, Sequences, SequencesExt, FiniteSets, Functions

CONSTANTS
    PayoutModes,   \* of the ports: "solo", "pplns"
    JobIds,        \* job ids of the gateway, a byte
    MaxIds,        \* coinbaser ids, 254
    MaxMessages,   \* bound: mining commands
    MaxPows,       \* bound: submissions among them
    MaxTemplates   \* bound: templates

ASSUME DatumSessionAssumption ==
    /\ PayoutModes \subseteq {"solo", "pplns"}
    /\ MaxIds \in Nat \ {0}
    /\ MaxTemplates \in Nat \ {0}

VARIABLES
    mode,        \* payoutMode
    heights,     \* heights of the templates so far
    wire,        \* greeting, frames read and frames decrypted
    socket,      \* open, gone
    closed,      \* destroyClient was called: no, by close, by the event
    row,         \* clientEntity: 0 or the number of a row
    live,        \* rows that are not deleted
    rows,        \* rows inserted
    contexts,    \* coinbaserPayoutContexts: a template for each id, or 0
    nextId,      \* nextCoinbaserId
    caches,      \* every DatumJobCache made
    jobs,        \* datumJobs: which of them a job id has, 0 if none
    asked,       \* requests the gateway may answer: kind and cache
    tasks,       \* handlers that wait
    shares,      \* accepted shares, in order
    recorded, dropped,  \* indexes of shares
    finalized,   \* calls of finalizeSnapshotForBlock: share and snapshot
    msgs, pows,  \* counters for the bounds
    aux          \* history the properties refer to

stream == <<socket, closed>>
client == <<row, live, rows>>
work == <<caches, jobs, asked>>
coinbaser == <<contexts, nextId>>
books == <<shares, recorded, dropped, finalized>>
vars == <<mode, heights, wire, stream, client, coinbaser, work, tasks, books, msgs, pows, aux>>

Latest == Len(heights)

Init ==
    /\ mode \in PayoutModes
    /\ heights = <<1>>
    /\ wire = [hello |-> FALSE, read |-> 0, opened |-> 0, garbled |-> FALSE]
    /\ socket = "open" /\ closed = "no"
    /\ row = 0 /\ live = {} /\ rows = 0
    /\ contexts = [id \in 1..MaxIds |-> 0] /\ nextId = 1
    /\ caches = <<>> /\ jobs = [j \in JobIds |-> 0] /\ asked = {}
    /\ tasks = <<>>
    /\ shares = <<>> /\ recorded = {} /\ dropped = {} /\ finalized = {}
    /\ msgs = 0 /\ pows = 0
    /\ aux = [overlapped |-> FALSE,  \* data came with frames left to handle
              racing |-> FALSE,      \* closed with a handler under way
              twice |-> FALSE,       \* two inserts of a row at a time
              issued |-> <<>>,       \* templates whose outputs were handed out
              refused |-> {},        \* what was paid in vain, and handed out
              mixed |-> {}]          \* caches whose context changed meanwhile

-----------------------------------------------------------------------------
(* Handlers.  A task is where its handler goes on (at), whether its piece of *)
(* data has another frame (more), and the cache, the share or the row that   *)
(* it carries, or 0.                                                         *)

Of(i) == tasks[i]
Waits(at, more, carries) ==
    [at |-> at, more |-> more, carries |-> carries, ready |-> FALSE]

(* The handler of a frame is done; the next frame of the piece follows.      *)
Rest(more) == IF more THEN <<Waits("next", FALSE, 0)>> ELSE <<>>

(* writeRaw, after which task goes on; nothing is written to a gone socket,  *)
(* and the handler goes on at once.                                          *)
Written(task) == <<[task EXCEPT !.ready = (socket = "gone")]>>

(* A reply after which only the next frame of the piece is left: should the  *)
(* write fail with none left, it closes a socket that is gone.               *)
Replied(more) == IF more THEN Written(Waits("wrote", TRUE, 0)) ELSE <<>>

Without(i) == RemoveAt(tasks, i)

(* destroyClient up to the delete: of a row, if there is one.  Deletes of    *)
(* one row are one.                                                          *)
Deletes(left) ==
    IF row # 0 /\ \A i \in DOMAIN left : left[i].at # "delete"
    THEN Append(left, Waits("delete", FALSE, row)) ELSE left

(* close(), with the handlers that are left. *)
Closes(left) ==
    /\ closed' = IF closed = "no" THEN "close" ELSE closed
    /\ socket' = "gone"
    /\ tasks' = Deletes(left)
    /\ aux' = [aux EXCEPT !.racing = @ \/ \E i \in DOMAIN left : left[i].at # "delete"]

(* Handler i throws. *)
Throws(i) == Closes(Without(i))

(* Handler i goes on, and waits as seq says. *)
Goes(i, seq) ==
    /\ tasks' = Without(i) \o seq
    /\ UNCHANGED stream

-----------------------------------------------------------------------------
(* SUBMIT_POW *)

(* A submission of a job comes with its context, or it does not.  The base   *)
(* is the template whose previous block, bits and height the work has.       *)
Contexts == [base : 1..Latest, id : 1..MaxIds, txs : {0, 1}]
Pows == [job : JobIds, context : {<<>>} \cup {<<c>> : c \in Contexts}]

(* The context of a coinbaser id, 0 if none was given. *)
ContextOf(id) == contexts[id]

(* updateDatumJobCache: the cache of a job that comes with its context is a  *)
(* new one.                                                                  *)
CacheFor(pow) ==
    IF pow.context # <<>> \/ jobs[pow.job] = 0 THEN Len(caches) + 1 ELSE jobs[pow.job]

NoCache(job) == [job |-> job, base |-> 0, ctx |-> 0, txs |-> 0, state |-> "none", verdict |-> 0]

Updated(pow) ==
    IF CacheFor(pow) \in DOMAIN caches THEN caches
    ELSE Append(caches,
           IF pow.context = <<>> THEN NoCache(pow.job)
           ELSE [NoCache(pow.job) EXCEPT !.base = pow.context[1].base,
                                         !.ctx = ContextOf(pow.context[1].id),
                                         !.txs = pow.context[1].txs])

(* Outputs of the two templates are alike; solo ones all pay the pool.       *)
PaysAs(pays, template) == pays = template \/ (mode = "solo" /\ pays # 0)

(* The other contexts of the job's height that the coinbase pays.            *)
PaidContext(cache, pays) ==
    {t \in Range(contexts) \ {0} : heights[t] = heights[cache.base] /\ PaysAs(pays, t)}

Expected(cache) == IF cache.ctx = 0 THEN Latest ELSE cache.ctx

(* Without a context (COINBASE_MISSING), STALE_BLOCK, or a failed job.       *)
Unusable(cache) ==
    \/ cache.base = 0
    \/ heights[cache.base] # heights[Latest]
    \/ cache.state = "failed"

(* The outputs handed out lately for blocks of this height. *)
Issued(height) ==
    {aux.issued[k] : k \in {k \in DOMAIN aux.issued :
        k > Len(aux.issued) - MaxIds /\ heights[aux.issued[k]] = height}}

Reject(i, more) == Goes(i, Replied(more)) /\ UNCHANGED books

Accept(i, more, share) ==
    /\ shares' = Append(shares, share)
    /\ Goes(i, Written(Waits("reply", more, Len(shares) + 1)))
    /\ UNCHANGED <<recorded, dropped, finalized>>

(* The handler judges the work of cache n, as it is in all, whose coinbase   *)
(* is missing or pays some template.                                         *)
Judge(i, more, all, n) ==
    LET cache == all[n]
        Ctxs(pays) == IF PaysAs(pays, Expected(cache)) THEN {cache.ctx}
                      ELSE PaidContext(cache, pays)
    IN  \/ /\ caches' = all
           /\ Reject(i, more)
           /\ UNCHANGED aux
        \/ /\ ~Unusable(cache)
           /\ \E pays \in {p \in 0..Latest : Ctxs(p) = {}} :      \* BAD_COINBASER_ID
                 aux' = [aux EXCEPT !.refused = @ \cup
                           ({pays} \cap Issued(heights[cache.base]))]
           /\ caches' = all
           /\ Reject(i, more)
        \/ /\ ~Unusable(cache)
           /\ \E pays \in 0..Latest : \E ctx \in Ctxs(pays) :
                 /\ caches' = [all EXCEPT ![n].ctx = ctx]
                 /\ aux' = [aux EXCEPT !.mixed = IF ctx = cache.ctx THEN @ ELSE @ \cup {n}]
                 /\ \/ Reject(i, more)                             \* HIGH_HASH
                    \/ Accept(i, more, [n |-> n, pays |-> pays])

(* The row is there: the job's cache, the request for its transactions.      *)
Continue(i, more, pow) ==
    LET n == CacheFor(pow)
        all == Updated(pow)
        unasked == all[n].base # 0 /\ all[n].state = "none"
        With(state) == [all EXCEPT ![n].state = state]
    IN  /\ jobs' = [jobs EXCEPT ![pow.job] = n]
        /\ IF unasked /\ all[n].txs > 0
           THEN /\ caches' = With("short")
                /\ asked' = asked \cup {<<"short", n>>}
                /\ Goes(i, Written(Waits("asking", more, n)))
                /\ UNCHANGED <<books, aux>>
           ELSE /\ Judge(i, more, IF unasked THEN With("validated") ELSE all, n)
                /\ UNCHANGED asked
        /\ UNCHANGED coinbaser

(* handlePowSubmit; ensureClientEntity has no promise to share.              *)
SubmitPow(i, more) ==
    \/ /\ row # 0
       /\ \E pow \in Pows : Continue(i, more, pow)
       /\ UNCHANGED client
    \/ /\ row = 0
       /\ Goes(i, <<Waits("insert", more, 0)>>)
       /\ aux' = [aux EXCEPT !.twice = @ \/ \E k \in DOMAIN tasks : tasks[k].at = "insert"]
       /\ UNCHANGED <<client, coinbaser, work, books>>
    \/ /\ Reject(i, more)                                         \* BAD_USERNAME
       /\ UNCHANGED <<client, coinbaser, work, aux>>

-----------------------------------------------------------------------------
(* FETCH_COINBASER and JOB_VALIDATION *)

(* nextDatumCoinbaserId.  The limit of 512 contexts is never reached.        *)
NextId(id) == IF id >= MaxIds THEN 1 ELSE id + 1

(* handleCoinbaserFetch. *)
FetchCoinbaser(i, more) ==
    /\ contexts' = [contexts EXCEPT ![nextId] = Latest]
    /\ nextId' = NextId(nextId)
    /\ aux' = [aux EXCEPT !.issued = Append(@, Latest)]
    /\ Goes(i, Replied(more))
    /\ UNCHANGED <<client, work, books>>

(* Mutant: a response is taken for the job the session saw last. *)
AnsweredLatest(job) == Len(caches)

(* The cache a response is applied to. *)
Answered(job) == jobs[job]

(* handleJobValidationResponse: the gateway answers truthfully for the job   *)
(* it was asked about, m, or says it cannot.  Another job's transactions may *)
(* be as many, but are not its own.                                          *)
AnswerValidation(i, more) ==
    \E request \in asked, ok \in BOOLEAN :
        LET m == request[2]
            n == Answered(caches[m].job)
            right == n = m \/ (request[1] = "short" /\ caches[n].txs = caches[m].txs)
        IN  /\ CASE ~ok \/ ~right ->
                    /\ caches' = [caches EXCEPT ![n].state = "failed", ![n].verdict = m]
                    /\ asked' = asked \ {request}
                    /\ Goes(i, Rest(more))
                 [] ok /\ right /\ request[1] = "short" ->
                    /\ caches' = [caches EXCEPT ![n].state = "blob"]
                    /\ asked' = (asked \ {request}) \cup {<<"blob", n>>}
                    /\ Goes(i, Replied(more))
                 [] ok /\ right /\ request[1] = "blob" ->
                    /\ caches' = [caches EXCEPT ![n].state = "validated", ![n].verdict = m]
                    /\ asked' = asked \ {request}
                    /\ Goes(i, Rest(more))
            /\ UNCHANGED <<jobs, client, coinbaser, books, aux>>

-----------------------------------------------------------------------------
(* Data arrives. *)

(* The first frame, in plain: openHandshake, the response and configuration. *)
Hello ==
    /\ ~wire.hello /\ socket = "open"
    /\ wire' = [wire EXCEPT !.hello = TRUE]
    /\ UNCHANGED <<mode, heights, tasks, stream, client, coinbaser, work, books, msgs, pows, aux>>

(* Mutant: a frame's key counts once the frame has been handled. *)
KeyWhenHandled == wire.opened - Cardinality({i \in DOMAIN tasks : tasks[i].at # "next"}) + 1

(* currentReceiveHeaderKey: that of the first frame not decrypted yet.       *)
Key == wire.opened + 1

(* A piece of one frame or two.  The reader is given the session's key, and  *)
(* advances it with the frames it takes; with another frame's key a header   *)
(* is garbled, and nothing is read right any more.                           *)
Piece(more) ==
    /\ wire.hello /\ ~wire.garbled /\ socket = "open"
    /\ msgs + (IF more THEN 2 ELSE 1) <= MaxMessages
    /\ msgs' = msgs + (IF more THEN 2 ELSE 1)
    /\ IF Key = wire.read + 1
       THEN /\ wire' = [wire EXCEPT !.read = @ + (IF more THEN 2 ELSE 1)]
            /\ tasks' = Append(tasks, Waits("next", more, 0))
       ELSE /\ wire' = [wire EXCEPT !.garbled = TRUE]
            /\ UNCHANGED tasks
    /\ aux' = [aux EXCEPT !.overlapped = @ \/ \E i \in DOMAIN tasks : tasks[i].more]
    /\ UNCHANGED <<mode, heights, stream, client, coinbaser, work, books, pows>>

(* A frame is decrypted and handled, or cannot be parsed.                    *)
Frame(i) ==
    /\ Of(i).at = "next"
    /\ wire' = [wire EXCEPT !.opened = @ + 1]
    /\ \/ pows < MaxPows /\ pows' = pows + 1 /\ SubmitPow(i, Of(i).more)
       \/ FetchCoinbaser(i, Of(i).more) /\ UNCHANGED pows
       \/ AnswerValidation(i, Of(i).more) /\ UNCHANGED pows
       \/ Throws(i) /\ UNCHANGED <<client, coinbaser, work, books, pows>>
    /\ UNCHANGED <<mode, heights, msgs>>

-----------------------------------------------------------------------------
(* What waits goes on. *)

Elsewhere == UNCHANGED <<mode, heights, wire, msgs, pows>>

(* recordAcceptedShare is called, with the row's id.                         *)
Credit(i) ==
    IF row = 0
    THEN /\ dropped' = dropped \cup {Of(i).carries}
         /\ Throws(i)
    ELSE /\ Goes(i, <<[Of(i) EXCEPT !.at = "record"]>>)
         /\ UNCHANGED <<dropped, aux>>

IsWrite(i) == Of(i).at \in {"wrote", "asking", "reply"}

(* The write a handler waits for ends. *)
WriteEnds(i) ==
    /\ IsWrite(i)
    /\ Of(i).ready \/ (socket = "open" /\ \A k \in 1..(i - 1) : ~IsWrite(k))
    /\ \/ /\ Of(i).at = "wrote"
          /\ Goes(i, Rest(Of(i).more))
          /\ UNCHANGED <<caches, books, aux>>
       \/ /\ Of(i).at = "asking"
          /\ Judge(i, Of(i).more, caches, Of(i).carries)
       \/ /\ Of(i).at = "reply"
          /\ \/ /\ Goes(i, <<[Of(i) EXCEPT !.at = "save"]>>)     \* a candidate
                /\ UNCHANGED <<dropped, aux>>
             \/ Credit(i)
          /\ UNCHANGED <<caches, shares, recorded, finalized>>
    /\ UNCHANGED <<client, coinbaser, jobs, asked>> /\ Elsewhere

(* It fails, as the socket went first. *)
WriteFails(i) ==
    /\ IsWrite(i) /\ socket = "gone" /\ ~Of(i).ready
    /\ dropped' = IF Of(i).at = "reply" THEN dropped \cup {Of(i).carries} ELSE dropped
    /\ Throws(i)
    /\ UNCHANGED <<client, coinbaser, work, shares, recorded, finalized>> /\ Elsewhere

(* The row is inserted, or is not. *)
InsertRow(i) ==
    /\ Of(i).at = "insert"
    /\ \/ /\ rows' = rows + 1
          /\ row' = rows + 1
          /\ live' = live \cup {rows + 1}
          /\ \E pow \in Pows : Continue(i, Of(i).more, pow)
       \/ /\ Throws(i)
          /\ UNCHANGED <<client, coinbaser, work, books>>
    /\ Elsewhere

(* Mutant: the snapshot of the context that has the last id by now. *)
SaveBlockOfId(i) ==
    /\ Of(i).at = "save"
    /\ IF mode = "pplns"
       THEN /\ finalized' = finalized \cup {[share |-> Of(i).carries,
                                snapshot |-> contexts[IF nextId = 1 THEN MaxIds ELSE nextId - 1]]}
            /\ Goes(i, <<[Of(i) EXCEPT !.at = "finalize"]>>)
            /\ UNCHANGED <<dropped, aux>>
       ELSE /\ Credit(i)
            /\ UNCHANGED finalized
    /\ UNCHANGED <<client, coinbaser, work, shares, recorded>> /\ Elsewhere

(* Mutant: a block's share is not recorded. *)
SaveBlockOnly(i) ==
    /\ Of(i).at = "save"
    /\ Goes(i, Rest(Of(i).more))
    /\ UNCHANGED <<client, coinbaser, work, books, aux>> /\ Elsewhere

(* blocksService.save, and the snapshot is given to finalization.            *)
SaveBlock(i) ==
    /\ Of(i).at = "save"
    /\ IF mode = "pplns"
       THEN /\ finalized' = finalized \cup {[share |-> Of(i).carries,
                                snapshot |-> caches[shares[Of(i).carries].n].ctx]}
            /\ Goes(i, <<[Of(i) EXCEPT !.at = "finalize"]>>)
            /\ UNCHANGED <<dropped, aux>>
       ELSE /\ Credit(i)
            /\ UNCHANGED finalized
    /\ UNCHANGED <<client, coinbaser, work, shares, recorded>> /\ Elsewhere

Finalize(i) ==
    /\ Of(i).at = "finalize"
    /\ Credit(i)
    /\ UNCHANGED <<client, coinbaser, work, shares, recorded, finalized>> /\ Elsewhere

(* The database refuses: an exception. *)
CallFails(i) ==
    /\ Of(i).at \in {"save", "finalize", "record"}
    /\ dropped' = dropped \cup {Of(i).carries}
    /\ Throws(i)
    /\ UNCHANGED <<client, coinbaser, work, shares, recorded, finalized>> /\ Elsewhere

(* The share is recorded; updateAcceptedSharePresence may write the row.     *)
Record(i) ==
    /\ Of(i).at = "record"
    /\ recorded' = recorded \cup {Of(i).carries}
    /\ \/ Goes(i, Rest(Of(i).more))
       \/ row # 0 /\ Goes(i, <<Waits("touch", Of(i).more, row)>>)
    /\ UNCHANGED <<client, coinbaser, work, shares, dropped, finalized, aux>> /\ Elsewhere

(* updateHashRate, which clears deletedAt. *)
TouchRow(i) ==
    /\ Of(i).at = "touch"
    /\ live' = live \cup {Of(i).carries}
    /\ Goes(i, Rest(Of(i).more))
    /\ UNCHANGED <<row, rows, coinbaser, work, books, aux>> /\ Elsewhere

(* The delete of destroyClient. *)
DeleteRow(i) ==
    /\ Of(i).at = "delete"
    /\ live' = live \ {Of(i).carries}
    /\ row' = 0
    /\ Goes(i, <<>>)
    /\ UNCHANGED <<rows, coinbaser, work, books, aux>> /\ Elsewhere

-----------------------------------------------------------------------------
NewTemplate(height) ==
    /\ Latest < MaxTemplates /\ socket = "open"
    /\ heights' = Append(heights, height)
    /\ UNCHANGED <<mode, wire, stream, client, coinbaser, work, tasks, books, msgs, pows, aux>>

(* The gateway closes, or an error occurs. *)
LoseSocket ==
    /\ socket = "open"
    /\ socket' = "gone"
    /\ UNCHANGED <<mode, heights, wire, closed, client, coinbaser, work, tasks, books, msgs, pows, aux>>

(* Its close event. *)
OnClose ==
    /\ socket = "gone" /\ closed # "event"
    /\ closed' = "event"
    /\ tasks' = Deletes(tasks)
    /\ aux' = [aux EXCEPT !.racing = @ \/ tasks # <<>>]
    /\ UNCHANGED <<mode, heights, wire, socket, client, coinbaser, work, books, msgs, pows>>

Wakes(i) ==
    \/ WriteEnds(i)
    \/ WriteFails(i)
    \/ InsertRow(i)
    \/ SaveBlock(i)
    \/ Finalize(i)
    \/ CallFails(i)
    \/ Record(i)
    \/ TouchRow(i)
    \/ DeleteRow(i)

(* Frames at hand, and handlers whose write was none, go first.              *)
First == {i \in DOMAIN tasks : Of(i).at = "next" \/ (IsWrite(i) /\ Of(i).ready)}

Next ==
    \/ \E i \in First : Frame(i) \/ WriteEnds(i)
    \/ /\ First = {}
       /\ \/ Hello
          \/ \E more \in BOOLEAN : Piece(more)
          \/ \E i \in DOMAIN tasks : Wakes(i)
          \/ \E height \in {heights[Latest], heights[Latest] + 1} : NewTemplate(height)
          \/ LoseSocket
          \/ OnClose

Spec == Init /\ [][Next]_vars

-----------------------------------------------------------------------------
CacheType ==
    [job : JobIds, base : 0..MaxTemplates, ctx : 0..MaxTemplates, txs : {0, 1},
     verdict : Nat,
     state : {"none", "short", "blob", "validated", "failed"}]

(* Types; every job id's cache is one made for it, and each accepted share   *)
(* is at most once recorded or dropped.                                      *)
TypeOK ==
    /\ wire.opened <= wire.read
    /\ live \subseteq 1..rows /\ row \in 0..rows
    /\ nextId \in 1..MaxIds /\ contexts \in [1..MaxIds -> 0..Latest]
    /\ caches \in Seq(CacheType)
    /\ \A j \in JobIds : jobs[j] # 0 => caches[jobs[j]].job = j
    /\ recorded \cap dropped = {} /\ recorded \cup dropped \subseteq DOMAIN shares
    /\ \A i \in DOMAIN tasks :
          /\ tasks[i].at \in {"next", "wrote", "asking", "reply", "insert", "save",
                              "finalize", "record", "touch", "delete"}
          /\ tasks[i].ready \in BOOLEAN

(* Whatever pieces the stream comes in, each header is read with its own key *)
(* and each frame decrypted with its own nonce, unless data arrived while a  *)
(* piece had a frame left that waited for the one before it.                 *)
ReadInStep == wire.garbled => aux.overlapped

(* An accepted share is recorded once its handler is done, as long as the    *)
(* session lives: only its end, or a failure that ends it, drops one.        *)
AcceptedIsRecorded ==
    LET underway == {tasks[i].carries : i \in {i \in DOMAIN tasks :
                        tasks[i].at \in {"reply", "save", "finalize", "record"}}}
    IN  /\ DOMAIN shares \subseteq recorded \cup dropped \cup underway
        /\ dropped # {} => closed # "no"

(* The snapshot finalized for a block is the one whose outputs its coinbase  *)
(* pays, or none; unless a submission of the same job that paid another      *)
(* context came between.                                                     *)
SnapshotIsPaid ==
    \A f \in finalized :
        LET share == shares[f.share]
        IN  f.snapshot \in {0, share.pays} \/ share.n \in aux.mixed

(* A coinbase that pays outputs the pool handed out for this height, in the  *)
(* last as many fetches as there are ids, is not refused for its payouts.    *)
IssuedIsTaken == aux.refused = {}

(* A job fails its validation on an answer about itself; on one about an     *)
(* earlier job of the same id only if that one was replaced while asked.     *)
VerdictIsItsOwn ==
    \A n \in DOMAIN caches : caches[n].verdict \notin {0, n} =>
        caches[caches[n].verdict].job = caches[n].job /\ caches[n].verdict < n

(* A session has one row, unless two submissions found none at a time or it  *)
(* was closed with a handler under way; else it leaves none.                 *)
OneRowWhileConnected ==
    /\ Cardinality(live) > 1 => aux.twice \/ aux.racing
    /\ closed = "event" /\ tasks = <<>> /\ ~aux.racing /\ ~aux.twice => live = {}

(* The payouts the pool hands out are taken, and are those it books.         *)
PayoutsAgree == SnapshotIsPaid /\ IssuedIsTaken

(* A session's shares and its row, with the types of its variables.          *)
SessionInv == TypeOK /\ AcceptedIsRecorded /\ OneRowWhileConnected
=============================================================================
