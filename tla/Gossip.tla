------------------------------- MODULE Gossip -------------------------------
(***************************************************************************)
(* The gossip context of one module (src/rust/src/gossip.rs) receiving the *)
(* events of its peers over a network that loses, duplicates and reorders. *)
(*                                                                         *)
(* The receiver is one GossipContext: its version vector, local sequence,  *)
(* pending-event count, 4-slot gap buffer and neighbour list.  Its calls   *)
(* (emit, handle_event, clear_pending, merge_vv, add_neighbor,             *)
(* remove_neighbor) each take &mut self and are atomic steps.  The peers   *)
(* are origins that emit numbered events; the network can hand the       *)
(* receiver any event emitted so far, any number of times, in any order   *)
(* -- including the receiver's own events forwarded back to it.  A remote *)
(* version vector handed to merge_vv counts only emitted events.          *)
(*                                                                         *)
(* Data abstraction: an event is its origin and origin_seq.  Timestamps,  *)
(* payload, hop count and statistics drive no state the receiver keeps.  *)
(***************************************************************************)
EXTENDS Naturals, FiniteSets, Sequences, SequencesExt, TLC

CONSTANTS
  Me,              \* the receiver's module id
  Origins,         \* ids of the peers whose events reach it
  MaxSeq,          \* events per origin (and own events)
  VV_MAX_ENTRIES,  \* VV_MAX_ENTRIES (8 in gossip.rs)
  GAP_BUFFER,      \* buffered_events capacity (4)
  PENDING_MAX,     \* pending_events capacity (8)
  NEIGHBOR_MAX,    \* neighbors capacity (7)
  RemoteVVs        \* version vectors that merge_vv may be handed

ASSUME Me \notin Origins

Ids == Origins \cup {Me}
\* EventV2, abstracted to origin_id and origin_seq: what dedup and gaps use.
Event == [origin : Ids, seq : 1..MaxSeq]

VARIABLES
  vv,           \* VersionVector: id -> sequence, for the ids it has entries for
  localSeq,     \* local_sequence
  pending,      \* pending_count
  buffered,     \* buffered_events[..buffered_count]
  nbrs,         \* neighbors[..neighbor_count], ids
  emitted,      \* emitted[o]: how many events origin o emitted
  mergedUpTo,   \* history: the highest entry merge_vv raised vv[o] to
  acceptCount   \* history: how often each event was accepted (capped at 2)

vars == <<vv, localSeq, pending, buffered, nbrs, emitted, mergedUpTo,
          acceptCount>>
\* The fields of GossipContext the receive path changes; the tick times and
\* stats are left out.
rxVars == <<vv, localSeq, pending, buffered, nbrs>>

----------------------------------------------------------------------------
(* VersionVector::get: 0 for an id without an entry.                       *)
VVGet(v, m) == IF m \in DOMAIN v THEN v[m] ELSE 0

(* VersionVector::set: overwrite an existing entry, else add one unless    *)
(* all VV_MAX_ENTRIES are taken (NoMemory; every caller discards it).      *)
VVSet(v, m, s) ==
  IF m \in DOMAIN v THEN [v EXCEPT ![m] = s]
  ELSE IF Cardinality(DOMAIN v) >= VV_MAX_ENTRIES THEN v
  ELSE v @@ (m :> s)

\* VersionVector::increment
VVIncrement(v, m) == VVSet(v, m, VVGet(v, m) + 1)

(* Mutant: compare looks only at the entries of self.                     *)
VVCompare_SelfEntriesOnly(a, b) ==
  LET selfDom  == \A m \in DOMAIN a : ~(a[m] < VVGet(b, m))
      otherDom == \A m \in DOMAIN a : ~(a[m] > VVGet(b, m))
  IN  CASE selfDom /\ otherDom -> "Equal"  [] selfDom -> "After"
        [] otherDom -> "Before"            [] OTHER -> "Concurrent"

(* VersionVector::compare: self_dominates is cleared by any entry, of     *)
(* self or of other, where self is lower; other_dominates by any entry    *)
(* where self is higher; an id without an entry counts as 0.              *)
VVCompare(a, b) ==
  LET selfDom  == /\ \A m \in DOMAIN a : ~(a[m] < VVGet(b, m))
                  /\ \A m \in DOMAIN b : ~(VVGet(a, m) < b[m])
      otherDom == /\ \A m \in DOMAIN a : ~(a[m] > VVGet(b, m))
                  /\ \A m \in DOMAIN b : ~(VVGet(a, m) > b[m])
  IN  CASE selfDom /\ otherDom -> "Equal"  [] selfDom -> "After"
        [] otherDom -> "Before"            [] OTHER -> "Concurrent"

(* VersionVector::merge, one entry of the remote vector (id, sequence):    *)
(* raised to the remote sequence if that is higher.                        *)
MergeEntry(acc, en) ==
  IF en[2] > VVGet(acc, en[1]) THEN VVSet(acc, en[1], en[2]) ELSE acc

\* The remote vector is a sequence of entries, merged in its entry order.
Merged(v, r) == FoldLeft(MergeEntry, v, r)

(* process_buffered_events: one pass over the buffer; an entry that is the *)
(* next expected event of its origin is applied and removed, and the same  *)
(* position is examined again; any other entry is passed over.  Returns    *)
(* the new vector, the new buffer and the events applied.                  *)
RECURSIVE ProcessBuffered(_, _, _, _)
ProcessBuffered(v, b, i, applied) ==
  IF i > Len(b) THEN <<v, b, applied>>
  ELSE IF b[i].seq = VVGet(v, b[i].origin) + 1
       THEN ProcessBuffered(VVSet(v, b[i].origin, b[i].seq), RemoveAt(b, i), i,
                            applied \cup {b[i]})
       ELSE ProcessBuffered(v, b, i + 1, applied)

(* Mutant: an event equal to the known sequence is not a duplicate.      *)
IsDuplicate_Strict(e, known) == e.seq < known

\* handle_event: origin_seq <= known_seq is a duplicate.
IsDuplicate(e, known) == e.seq <= known

(* Mutant: the gap check is missing.                                       *)
IsGap_Never(e, known) == FALSE

\* handle_event: origin_seq > known_seq + 1 is a gap.
IsGap(e, known) == e.seq > known + 1

(* Mutant: the gap buffer is appended to without a capacity check.        *)
BufferGap_Unbounded(b, e) == Append(b, e)

\* handle_event: a gap event is buffered if buffered_count < 4.
BufferGap(b, e) == IF Len(b) < GAP_BUFFER THEN Append(b, e) ELSE b

(* Mutant: on equal timestamps the lower origin_id wins.                 *)
IsNewer_LowerOriginWins(a, b) ==
  IF a.ts # b.ts THEN a.ts > b.ts ELSE a.origin < b.origin

(* LWWTimestamp::is_newer: the later timestamp is newer; on equal         *)
(* timestamps the higher origin_id wins.                                   *)
IsNewer(a, b) ==
  IF a.ts # b.ts THEN a.ts > b.ts ELSE a.origin > b.origin

(* Ord for LWWTimestamp: timestamp_us compared first, then origin_id.     *)
LwwCmp(a, b) ==
  CASE a.ts < b.ts -> "Less"  [] a.ts > b.ts -> "Greater"
    [] a.origin < b.origin -> "Less"  [] a.origin > b.origin -> "Greater"
    [] OTHER -> "Equal"

\* EventV2::lww_timestamp
LwwTimestamp(ts, e) == [ts |-> ts, origin |-> e.origin]

\* The events the network can deliver: all those emitted so far.
Pool ==
  {e \in Event : IF e.origin = Me THEN e.seq < localSeq
                 ELSE e.seq <= emitted[e.origin]}

(* A remote vector can only count events that were emitted.              *)
RemoteVVPossible(r) ==
  \A k \in 1..Len(r) :
    IF r[k][1] = Me THEN r[k][2] < localSeq ELSE r[k][2] <= emitted[r[k][1]]

Accept(cnt, S) == [e \in DOMAIN cnt |-> IF e \in S THEN Min({cnt[e] + 1, 2}) ELSE cnt[e]]

----------------------------------------------------------------------------
\* GossipContext::new: the own entry is set to 0.
Init ==
  /\ vv = (Me :> 0)
  /\ localSeq = 1 /\ pending = 0 /\ buffered = <<>> /\ nbrs = <<>>
  /\ emitted = [o \in Origins |-> 0]
  /\ mergedUpTo = [o \in Ids |-> 0]
  /\ acceptCount = [e \in Event |-> 0]

(* emit: NoMemory when 8 events are pending; otherwise the event carries   *)
(* local_sequence, which then advances, and the own entry is incremented.  *)
Emit ==
  /\ localSeq <= MaxSeq
  /\ pending < PENDING_MAX
  /\ pending' = pending + 1
  /\ localSeq' = localSeq + 1
  /\ vv' = VVIncrement(vv, Me)
  /\ acceptCount' = Accept(acceptCount, {[origin |-> Me, seq |-> localSeq]})
  /\ UNCHANGED <<buffered, nbrs, emitted, mergedUpTo>>

(* handle_event: a duplicate (origin_seq <= known) is refused; an event    *)
(* beyond the next expected one is buffered if there is room and refused  *)
(* with NotFound; the next expected one is recorded, the buffer is        *)
(* processed, and Ok is returned.                                          *)
HandleEvent(e) ==
  LET known == VVGet(vv, e.origin) IN
  /\ CASE IsDuplicate(e, known) ->
            UNCHANGED <<vv, buffered, acceptCount>>   \* AlreadyExists
       [] IsGap(e, known) ->
            /\ buffered' = BufferGap(buffered, e)    \* NotFound
            /\ UNCHANGED <<vv, acceptCount>>
       [] OTHER ->
            LET r == ProcessBuffered(VVSet(vv, e.origin, e.seq), buffered, 1, {})
            IN  /\ vv' = r[1] /\ buffered' = r[2]
                /\ acceptCount' = Accept(acceptCount, {e} \cup r[3])
  /\ UNCHANGED <<localSeq, pending, nbrs, emitted, mergedUpTo>>

\* clear_pending
ClearPending ==
  /\ pending' = 0
  /\ UNCHANGED <<vv, localSeq, buffered, nbrs, emitted, mergedUpTo,
                 acceptCount>>

\* merge_vv
MergeVV(r) ==
  /\ vv' = Merged(vv, r)
  /\ mergedUpTo' = [o \in Ids |-> IF VVGet(vv', o) > VVGet(vv, o) THEN VVGet(vv', o)
                                   ELSE mergedUpTo[o]]
  /\ UNCHANGED <<localSeq, pending, buffered, nbrs, emitted,
                 acceptCount>>

\* add_neighbor: AlreadyExists or NoMemory leave the list unchanged.
AddNeighbor(n) ==
  /\ n \notin ToSet(nbrs)
  /\ Len(nbrs) < NEIGHBOR_MAX
  /\ nbrs' = Append(nbrs, n)
  /\ UNCHANGED <<vv, localSeq, pending, buffered, emitted, mergedUpTo,
                 acceptCount>>

\* remove_neighbor: the later entries shift down; NotFound otherwise.
RemoveNeighbor(n) ==
  /\ n \in ToSet(nbrs)
  /\ nbrs' = Remove(nbrs, n)
  /\ UNCHANGED <<vv, localSeq, pending, buffered, emitted, mergedUpTo,
                 acceptCount>>

\* A peer emits its next event.
OriginEmit(o) ==
  /\ emitted[o] < MaxSeq
  /\ emitted' = [emitted EXCEPT ![o] = @ + 1]
  /\ UNCHANGED <<mergedUpTo, acceptCount>> /\ UNCHANGED rxVars

Next ==
  \/ Emit
  \/ \E e \in Pool : HandleEvent(e)
  \/ ClearPending
  \/ \E r \in RemoteVVs : RemoteVVPossible(r) /\ MergeVV(r)
  \/ \E n \in Origins : AddNeighbor(n) \/ RemoveNeighbor(n)
  \/ \E o \in Origins : OriginEmit(o)

Spec == Init /\ [][Next]_vars

----------------------------------------------------------------------------
Accepted == {e \in Event : acceptCount[e] > 0}

TypeOK ==
  /\ DOMAIN vv \subseteq Ids /\ Cardinality(DOMAIN vv) <= VV_MAX_ENTRIES
  /\ \A m \in DOMAIN vv : vv[m] \in 0..MaxSeq
  /\ localSeq \in 1..MaxSeq + 1 /\ pending \in 0..PENDING_MAX
  /\ buffered \in Seq(Event) /\ Len(buffered) <= GAP_BUFFER
  /\ nbrs \in Seq(Origins) /\ Len(nbrs) <= NEIGHBOR_MAX
  /\ acceptCount \in [Event -> 0..2]

(* However the network duplicates and reorders, and whatever version       *)
(* vectors are merged in, no event is accepted twice: handle_event returns *)
(* Ok (or applies it from the gap buffer) once per event.                  *)
NoDoubleAccept ==
  \A e \in Event : acceptCount[e] <= 1

(* The version vector counts exactly what was accepted or merged in:     *)
(* events 1..vv[o] of every origin were accepted, apart from those a      *)
(* merge_vv skipped, and no event above vv[o] was.                         *)
AcceptedMatchesVV ==
  \A o \in Ids :
    {e.seq : e \in {x \in Accepted : x.origin = o}} \cup 1..mergedUpTo[o]
      = 1..VVGet(vv, o)

(* Once every event an origin emitted has been delivered, the version      *)
(* vector has caught up with it (the buffered ones were applied).          *)
CaughtUpWhenAllDelivered ==
  \A o \in Origins :
    (\A s \in 1..emitted[o] :
        \E e \in Accepted \cup ToSet(buffered) : e.origin = o /\ e.seq = s)
      => VVGet(vv, o) = emitted[o]

(* Reference: the causal order of two version vectors over every id,     *)
(* with an id missing from a vector read as 0 events.                      *)
CausalOrder(a, b) ==
  LET le(x, y) == \A m \in Ids : VVGet(x, m) <= VVGet(y, m)
  IN  CASE le(a, b) /\ le(b, a) -> "Equal"  [] le(b, a) -> "After"
        [] le(a, b) -> "Before"             [] OTHER -> "Concurrent"

\* The remote vectors merge_vv may be handed, as VersionVectors.
RemoteVectors == {Merged([m \in {} |-> 0], r) : r \in RemoteVVs}

(* VersionVector::compare of the context's vector, in every state it      *)
(* reaches, against each remote vector merge_vv may be handed returns the *)
(* causal order of the two, including ids only one of them has an entry   *)
(* for and entries that are 0.                                             *)
CompareMatchesCausalOrder ==
  \A rv \in RemoteVectors : VVCompare(vv, rv) = CausalOrder(vv, rv)


\* The LWW timestamps, at times 0..1, of events of the ids vv has entries for.
Stamps == {LwwTimestamp(ts, e) : ts \in 0..1, e \in {x \in Event : x.origin \in DOMAIN vv /\ x.seq = 1}}

(* is_newer and the Ord of LWWTimestamp, written separately in the code,  *)
(* agree: a is newer than b exactly when a > b, and that is a strict      *)
(* total order on distinct timestamps, so last-writer-wins picks the same *)
(* winner whichever of the two a caller uses.                              *)
LwwOrdersAgree ==
  \A a, b \in Stamps :
    /\ IsNewer(a, b) <=> LwwCmp(a, b) = "Greater"
    /\ a # b => (IsNewer(a, b) # IsNewer(b, a))
=============================================================================
