------------------------------ MODULE Streams ------------------------------
(***************************************************************************)
(* Copying one provider result into the object store.  A claim of the      *)
(* materialization event fetches the result through the guarded downloader *)
(* and streams it, as a multipart upload whose parts a few workers send    *)
(* concurrently, to a key frozen before the first byte; the upload is      *)
(* completed only if the key is still free, the stored object is read back *)
(* and only then is the asset published.  Losing the lease cancels the     *)
(* stream wherever it is, and the next claim starts over while the old one *)
(* still winds down.                                                       *)
(*                                                                         *)
(* The orphan audit reads the store page by page and compares each page    *)
(* with the published assets.                                              *)
(*                                                                         *)
(* What an upload holds is determined by how much of the body was written: *)
(* part n is the n-th run of PartSize bytes, so that parts are numbers.    *)
(***************************************************************************)
EXTENDS Integers, FiniteSets, SequencesExt

CONSTANTS
    Claims,          \* claims of the event, by one worker or another
    QueueSize,       \* capacity of the part queue, and the number of workers
    PartSize,        \* bytes of a part
    MaxResultBytes,  \* ceiling of the route
    MaxRedirects,    \* redirects the downloader follows
    AllowedHosts,    \* hosts the route's results may come from
    Responses,       \* what the provider may answer to a download
    ExtensionOf(_),  \* file extension of a content type, or NoExtension
    NoExtension,
    StepKeys,        \* the step's possible keys, one for each extension, in key order
    PageLimit,       \* keys the audit lists at a time
    None

Workers == 1..QueueSize

ASSUME StreamsAssumption ==
    /\ {QueueSize, PartSize, MaxResultBytes, PageLimit} \subseteq Nat \ {0}
    /\ StepKeys \in Seq(Range(StepKeys)) /\ None \notin Range(StepKeys)
    /\ \A r \in Responses : /\ r.body \in Seq(Nat)
                            /\ ExtensionOf(r.type) \in Range(StepKeys) \cup {NoExtension}

VARIABLES
    copy,            \* each claim's stream
    upload,          \* the store: the multipart upload of each claim
    object,          \* the store: under each key nothing, or the bytes of one object
    asset,           \* the published asset of the step
    event,           \* the materialization event: open, delivered or failed
    audit            \* the orphan audit in progress

streamVars == <<copy, upload, object, asset, event, audit>>
-----------------------------------------------------------------------------
\* A download: the hops of its redirects, the status and the headers of the
\* last one, and the body, whose bytes are numbered by what was served.
NotStarted ==
    [pc |-> "idle", key |-> None, body |-> << >>, written |-> 0, taken |-> 0, sent |-> 0,
     queue |-> << >>, busy |-> [w \in Workers |-> 0], dead |-> {}, stored |-> {},
     failed |-> FALSE, cancelled |-> FALSE, lost |-> FALSE, result |-> "none"]

Active(c) == copy[c].pc \notin {"idle", "returned"}
MinOf(a, b) == IF a < b THEN a ELSE b

\* Part n of a body, and what a set of completed parts, listed in the order of
\* their numbers, makes up.
PartBytes(body, n) == SubSeq(body, (n - 1) * PartSize + 1, MinOf(n * PartSize, Len(body)))
CompletedParts(parts) == SetToSortSeq(parts, LAMBDA m, n : m < n)
Assembled(body, parts) ==
    FlattenSeq([i \in DOMAIN CompletedParts(parts) |-> PartBytes(body, CompletedParts(parts)[i])])

StreamsTypeOK ==
    /\ \A c \in Claims :
        /\ copy[c].written \in 0..MaxResultBytes
        /\ copy[c].taken \in 0..copy[c].written
        /\ copy[c].sent * PartSize <= copy[c].taken + PartSize
        /\ Len(copy[c].queue) <= QueueSize
        /\ copy[c].stored \subseteq 1..copy[c].sent
    /\ upload \in [Claims -> {"none", "open", "completed", "aborted"}]
    /\ DOMAIN object = Range(StepKeys)
    /\ event \in {"open", "delivered", "failed", "attention"}

StreamsInit ==
    /\ copy = [c \in Claims |-> NotStarted]
    /\ upload = [c \in Claims |-> "none"]
    /\ object = [k \in Range(StepKeys) |-> {}]
    /\ asset = None
    /\ event = "open"
    /\ audit = [pc |-> "idle", cursor |-> 0, page |-> {}, orphans |-> {}, scanned |-> {}, before |-> {}]
-----------------------------------------------------------------------------
(* The downloader.                                                          *)

\* Checked of the first address and of every hop: an http(s) address of an
\* allowed host, with no credentials, that is not an address literal and of
\* which every resolution is public.
HopShape(u) == u.scheme \in {"http", "https"} /\ ~u.user /\ ~u.literal
HopPublic(u) == u.resolved # {} /\ u.resolved \subseteq {"public"}
HopAllowed(u) == HopShape(u) /\ u.host \in AllowedHosts /\ HopPublic(u)

TooManyRedirects(r) == Len(r.hops) - 1 > MaxRedirects

PolicyRefuses(r) ==
    \/ TooManyRedirects(r)
    \/ \E i \in DOMAIN r.hops : ~HopAllowed(r.hops[i])
    \/ r.status \in 200..299 /\ (r.declared > MaxResultBytes \/ r.encoding \notin {"", "identity"})

RetryableStatus(s) == s = 408 \/ s = 429 \/ s >= 500

\* What the claim makes of a download that is not streamed.
FetchFailure(r) ==
    CASE PolicyRefuses(r) -> "permanent"
      [] r.status \notin 200..299 -> IF RetryableStatus(r.status) THEN "retry" ELSE "permanent"
      [] ExtensionOf(r.type) = NoExtension -> "permanent"
      [] OTHER -> "none"
-----------------------------------------------------------------------------
Moves(c, next) == copy' = [copy EXCEPT ![c] = next]
Goes(c, pc) == Moves(c, [copy[c] EXCEPT !.pc = pc])
Gives(c, result) == Moves(c, [copy[c] EXCEPT !.pc = "aborting", !.result = result])
Returns(c, result) == Moves(c, [copy[c] EXCEPT !.pc = "returned", !.result = result])

\* A claim begins while the event is open and no other claim holds its lease.
\* The download is answered; the upload is created under the key of its type,
\* or the store refuses or fails to create it.
Opened(r) == [NotStarted EXCEPT !.pc = "copying", !.body = r.body, !.key = ExtensionOf(r.type)]
Begin(c) ==
    /\ copy[c].pc = "idle" /\ event = "open"
    /\ \A other \in Claims : Active(other) => copy[other].lost
    /\ \E r \in Responses :
        \/ /\ FetchFailure(r) = "none"
           /\ Moves(c, Opened(r))
           /\ upload' = [upload EXCEPT ![c] = "open"]
        \/ /\ FetchFailure(r) = "none"
           /\ Returns(c, "retry")
           /\ UNCHANGED upload
        \/ /\ FetchFailure(r) # "none"
           /\ Returns(c, FetchFailure(r))
           /\ UNCHANGED upload
    /\ UNCHANGED <<object, asset, event, audit>>

\* The lease is lost: the context of everything under way is cancelled.
LoseLease(c) ==
    /\ Active(c) /\ ~copy[c].lost
    /\ Moves(c, [copy[c] EXCEPT !.lost = TRUE, !.cancelled = TRUE])
    /\ UNCHANGED <<upload, object, asset, event, audit>>

Buffered(c) == copy[c].taken - copy[c].sent * PartSize

\* One byte is read and written: refused when a part has failed or the ceiling
\* is reached.  A full buffer is handed over before the byte is taken in.
Write(c) ==
    /\ copy[c].pc = "copying" /\ copy[c].written = copy[c].taken
    /\ copy[c].written < Len(copy[c].body)
    /\ CASE copy[c].failed -> Gives(c, "retry")
         [] ~copy[c].failed /\ copy[c].written + 1 > MaxResultBytes -> Gives(c, "permanent")
         [] OTHER -> Moves(c, IF Buffered(c) = PartSize
                              THEN [copy[c] EXCEPT !.written = @ + 1, !.pc = "dispatching"]
                              ELSE [copy[c] EXCEPT !.written = @ + 1, !.taken = @ + 1])
    /\ UNCHANGED <<upload, object, asset, event, audit>>

\* Handing a part over waits for room in the queue, or gives up once the
\* stream is cancelled; when both are possible either may happen.
Dispatched(c, next) ==
    \/ /\ ~copy[c].failed /\ Len(copy[c].queue) < QueueSize
       /\ Moves(c, [copy[c] EXCEPT !.sent = @ + 1, !.queue = Append(@, copy[c].sent + 1),
                                   !.taken = copy[c].written, !.pc = next])
    \/ (copy[c].failed \/ copy[c].cancelled) /\ Gives(c, "retry")

Dispatch(c) ==
    /\ copy[c].pc = "dispatching"
    /\ Dispatched(c, "copying")
    /\ UNCHANGED <<upload, object, asset, event, audit>>

\* The source ends, or fails: of itself or because the claim was cancelled.
EndOfBody(c) ==
    /\ copy[c].pc = "copying" /\ copy[c].written = Len(copy[c].body)
    /\ IF copy[c].written < 1 THEN Gives(c, "permanent") ELSE Goes(c, "flushing")
    /\ UNCHANGED <<upload, object, asset, event, audit>>
ReadFails(c) ==
    /\ copy[c].pc = "copying"
    /\ Gives(c, "retry")
    /\ UNCHANGED <<upload, object, asset, event, audit>>
-----------------------------------------------------------------------------
(* The workers of a stream.                                                 *)

\* Worker w of the claim has part n in hand, or none.
Takes(c, w, n) == [copy[c] EXCEPT !.busy = [copy[c].busy EXCEPT ![w] = n]]

TakePart(c, w) ==
    /\ copy[c].queue # << >> /\ copy[c].busy[w] = 0 /\ w \notin copy[c].dead
    /\ Moves(c, [Takes(c, w, Head(copy[c].queue)) EXCEPT !.queue = Tail(@)])
    /\ UNCHANGED <<upload, object, asset, event, audit>>

PartStored(c, w) ==
    /\ copy[c].busy[w] # 0 /\ upload[c] = "open"
    /\ Moves(c, [Takes(c, w, 0) EXCEPT !.stored = @ \cup {copy[c].busy[w]}])
    /\ UNCHANGED <<upload, object, asset, event, audit>>

\* A failed part ends its worker, is remembered and cancels the stream.
PartFails(c, w) ==
    /\ copy[c].busy[w] # 0
    /\ Moves(c, [Takes(c, w, 0) EXCEPT !.dead = @ \cup {w}, !.failed = TRUE, !.cancelled = TRUE])
    /\ UNCHANGED <<upload, object, asset, event, audit>>

\* Mistaken variant: the end is taken for the moment nothing waits any more.
NothingQueued(c) == copy[c].queue = << >>

\* Everything handed over has been dealt with, or nobody is left to do it.
Drained(c) == \A w \in Workers : copy[c].busy[w] = 0 /\ (copy[c].queue = << >> \/ w \in copy[c].dead)
-----------------------------------------------------------------------------
(* Committing and aborting.                                                 *)

Flush(c) ==
    /\ copy[c].pc = "flushing"
    /\ IF Buffered(c) = 0 THEN Goes(c, "draining") ELSE Dispatched(c, "draining")
    /\ UNCHANGED <<upload, object, asset, event, audit>>

Drain(c) ==
    /\ copy[c].pc = "draining" /\ Drained(c)
    /\ IF copy[c].failed THEN Gives(c, "retry") ELSE Goes(c, "completing")
    /\ UNCHANGED <<upload, object, asset, event, audit>>

\* The store reveals the object only if its key is free.  The request may fail
\* without effect, or its answer may be lost after it took effect.
KeyFree(c) == object[copy[c].key] = {}
CompleteUpload(c) ==
    /\ copy[c].pc = "completing"
    /\ \/ /\ KeyFree(c)
          /\ object' = [object EXCEPT ![copy[c].key] = {Assembled(copy[c].body, copy[c].stored)}]
          /\ upload' = [upload EXCEPT ![c] = "completed"]
          /\ Goes(c, "verifying") \/ Gives(c, "retry")
       \/ ~KeyFree(c) /\ Goes(c, "releasing") /\ UNCHANGED <<upload, object>>
       \/ Gives(c, "retry") /\ UNCHANGED <<upload, object>>
    /\ UNCHANGED <<asset, event, audit>>

\* The key was taken: the upload is released, successfully or not, before the
\* object that is there is verified.
Release(c) ==
    /\ copy[c].pc = "releasing"
    /\ upload' \in {upload, [upload EXCEPT ![c] = "aborted"]}
    /\ Goes(c, "verifying")
    /\ UNCHANGED <<object, asset, event, audit>>

\* The stored object is read back: its length and its bytes must be the ones
\* that were written.  (Nothing removes or replaces an object, so that the two
\* reads are one step.)  The reads may fail.
Proven(c) == object[copy[c].key] = {SubSeq(copy[c].body, 1, copy[c].written)}
Verify(c) ==
    /\ copy[c].pc = "verifying"
    /\ \/ Proven(c) /\ Goes(c, "committed")
       \/ Returns(c, "retry")
    /\ UNCHANGED <<upload, object, asset, event, audit>>

\* An abort cancels what is under way, waits for the workers and only then
\* gives the upload up, whether the store answers or not.
StopWorkers(c) ==
    /\ copy[c].pc = "aborting"
    /\ Moves(c, [copy[c] EXCEPT !.cancelled = TRUE, !.pc = "stopping"])
    /\ UNCHANGED <<upload, object, asset, event, audit>>
Abort(c) ==
    /\ copy[c].pc = "stopping" /\ Drained(c)
    /\ \/ upload[c] = "open" /\ upload' = [upload EXCEPT ![c] = "aborted"]
       \/ UNCHANGED upload
    /\ Goes(c, "returned")
    /\ UNCHANGED <<object, asset, event, audit>>
-----------------------------------------------------------------------------
(* Publishing and settling the event.                                       *)

\* With the lease renewed, the asset is written and the event delivered in one
\* transaction; a claim that lost its lease leaves both alone.
PublishAsset(c) ==
    /\ copy[c].pc = "committed"
    /\ \/ /\ ~copy[c].lost /\ event = "open" /\ asset = None
          /\ asset' = [key |-> copy[c].key, length |-> copy[c].written,
                       hash |-> SubSeq(copy[c].body, 1, copy[c].written)]
          /\ event' = "delivered"
          /\ Returns(c, "published")
       \/ Returns(c, "retry") /\ UNCHANGED <<asset, event>>
    /\ UNCHANGED <<upload, object, audit>>

\* A permanent failure closes the event, any other schedules it again or, at
\* the end of its budget, hands it to an operator.
Settle(c) ==
    /\ copy[c].pc = "returned" /\ ~copy[c].lost /\ event = "open"
    /\ \A other \in Claims : Active(other) => copy[other].lost
    /\ \/ copy[c].result = "permanent" /\ event' = "failed"
       \/ copy[c].result = "retry" /\ event' = "attention"
             /\ \A other \in Claims : copy[other].pc # "idle"
    /\ UNCHANGED <<copy, upload, object, asset, audit>>
-----------------------------------------------------------------------------
(* The orphan audit.                                                        *)

Held == {k \in Range(StepKeys) : object[k] # {}}
Position(k) == CHOOSE i \in DOMAIN StepKeys : StepKeys[i] = k
PublishedAmong(keys) == {k \in keys : asset # None /\ asset.key = k}

\* The keys still to be listed.
After(cursor) == {k \in Held : Position(k) > cursor}

\* A page is the next keys after the cursor; its end is the next cursor, or
\* the inventory is complete.
AuditPage ==
    /\ audit.pc \in {"idle", "next"}
    /\ LET rest == After(audit.cursor)
           page == {k \in rest : Cardinality({j \in rest : Position(j) <= Position(k)}) <= PageLimit}
       IN audit' = [audit EXCEPT
            !.pc = IF rest = page THEN "last" ELSE "page",
            !.page = page,
            !.cursor = IF rest = page THEN @ ELSE Max({Position(k) : k \in page}),
            !.before = IF audit.pc = "idle" THEN Held ELSE @]
    /\ UNCHANGED <<copy, upload, object, asset, event>>

\* The assets are asked for after the page was listed.
AuditCompare ==
    /\ audit.pc \in {"page", "last"}
    /\ audit' = [audit EXCEPT
            !.pc = IF audit.pc = "last" THEN "complete" ELSE "next",
            !.scanned = @ \cup audit.page,
            !.orphans = @ \cup (audit.page \ PublishedAmong(audit.page))]
    /\ UNCHANGED <<copy, upload, object, asset, event>>

StreamsNext ==
    \/ \E c \in Claims :
        \/ Begin(c) \/ LoseLease(c) \/ Write(c) \/ Dispatch(c) \/ EndOfBody(c) \/ ReadFails(c)
        \/ Flush(c) \/ Drain(c) \/ CompleteUpload(c) \/ Release(c) \/ Verify(c) \/ StopWorkers(c) \/ Abort(c)
        \/ PublishAsset(c) \/ Settle(c)
        \/ \E w \in Workers : TakePart(c, w) \/ PartStored(c, w) \/ PartFails(c, w)
    \/ AuditPage
    \/ AuditCompare

StreamsSpec == StreamsInit /\ [][StreamsNext]_streamVars
-----------------------------------------------------------------------------
\* What is published is what was proven: the object under the asset's key is
\* there, whole and in order, however the parts were sent, whoever completed
\* the key first and whichever claim had lost its lease by then.
PublishedProven ==
    asset # None => /\ object[asset.key] = {asset.hash}
                    /\ Len(asset.hash) = asset.length
                    /\ asset.length \in 1..MaxResultBytes

\* No part is under way when its upload is completed or given up, and once a
\* claim has returned nothing of it is running.
NoPartRaces ==
    \A c \in Claims : copy[c].pc \in {"idle", "completing", "releasing", "verifying", "committed", "returned"} =>
        \A w \in Workers : copy[c].busy[w] = 0

\* The pages of a complete audit hold everything that was there when it began,
\* whatever was added between them: its cursor skips nothing (r2audit/audit.go).
AuditWhole == audit.pc = "complete" => audit.before \subseteq audit.scanned

\* What the copies, the takeovers and the audit leave behind.
StreamsSafe == PublishedProven /\ NoPartRaces /\ AuditWhole
=============================================================================
