-------------------------------- MODULE Spsc --------------------------------
(***************************************************************************)
(* The single-producer single-consumer ring buffer (src/rust/src/spsc.rs). *)
(*                                                                         *)
(* The producer and the consumer run concurrently.  Every atomic access    *)
(* and every buffer access is a step of its own, so the model interleaves  *)
(* them exactly where the threads can: push checks for room, writes the    *)
(* slot, then publishes head; pop checks for an item, reads the slot, then *)
(* publishes tail.  The Release stores of head and tail are paired with    *)
(* the Acquire loads of the other side, so a side that sees an index also  *)
(* sees the buffer writes made before it: the steps are sequentially       *)
(* consistent.  Each index has one writer, so the side that owns it reads  *)
(* it without synchronisation (Relaxed) and that read is local.            *)
(*                                                                         *)
(* The producer pushes the items 1, 2, 3, ... in order and retries an item *)
(* push refused (Err(item) hands it back).  Buffer slots start as Uninit.  *)
(***************************************************************************)
EXTENDS Naturals, Sequences

CONSTANTS
  N,         \* capacity, a power of two; N - 1 slots are usable
  MaxItems   \* how many items the producer pushes

ASSUME N \in {2, 4, 8, 16} /\ MaxItems \in Nat

MASK == N - 1
Uninit == 0     \* MaybeUninit content never written
NoRef == N      \* the consumer holds no reference from peek

VARIABLES
  buf,         \* buffer
  head,        \* head (written by the producer)
  tail,        \* tail (written by the consumer)
  pPc,         \* producer: "idle" | "write" | "publish"
  nextItem,    \* the item the producer is pushing
  pushResult,  \* the last Result push returned
  cPc,         \* consumer: "idle" | "read" | "release"
  cItem,       \* the item pop has read from the slot
  popResult,   \* the last Option pop returned
  ref,         \* the slot a reference returned by peek points to
  refVal,      \* the value that reference showed when peek returned it
  pSaid,       \* what the producer's last is_full/available told it
  cSaid,       \* what the consumer's last is_empty/len told it
  sent,        \* history: the items whose push returned Ok, in order
  received     \* history: the items pop returned, in order

\* The fields of struct Spsc (buffer, head, tail) and the two threads' locals.
vars == <<buf, head, tail, pPc, nextItem, pushResult, cPc, cItem, popResult,
          ref, refVal, pSaid, cSaid, sent, received>>

Items == 1..MaxItems

(* len: (head - tail) wrapping, masked.  Both loads are Relaxed; each    *)
(* side owns one index and can see the other only older, which makes len  *)
(* err towards "less to pop" for the consumer and "less room" for the    *)
(* producer, so reading the current values is the weakest case for the  *)
(* properties below.                                                       *)
Len_ == (head - tail) % N

\* available: N - 1 - len.
Available == N - 1 - Len_

(* Mutant: is_full compares head + 1 without masking it.                  *)
IsFull_NoMask == head + 1 = tail

\* is_full: ((head + 1) & MASK) == (tail & MASK).
IsFull == (head + 1) % N = tail

\* is_empty: head == tail.
IsEmpty == head = tail

----------------------------------------------------------------------------
\* Spsc::new
Init ==
  /\ buf = [i \in 0..MASK |-> Uninit]
  /\ head = 0 /\ tail = 0
  /\ pPc = "idle" /\ nextItem = 1 /\ pushResult = "none"
  /\ cPc = "idle" /\ cItem = Uninit /\ popResult = "none"
  /\ ref = NoRef /\ refVal = Uninit
  /\ pSaid = "none" /\ cSaid = "none"
  /\ sent = <<>> /\ received = <<>>

(* The state of the thread holding the Producer handle, and of the one   *)
(* holding the Consumer handle: one thread each, as split() intends.     *)
pVars == <<pPc, nextItem, pushResult, pSaid>>
cVars == <<cPc, cItem, popResult, ref, refVal, cSaid>>

(* Mutant: push does not check for room.                                  *)
PushCheck_NoFullCheck ==
  /\ pPc = "idle" /\ nextItem \in Items
  /\ pPc' = "write" /\ pSaid' = "none" /\ UNCHANGED pushResult
  /\ UNCHANGED <<buf, head, tail, nextItem, sent, received>> /\ UNCHANGED cVars

(* push, first step: load head (own), compute next_head, Acquire-load      *)
(* tail; a full queue returns Err(item).                                   *)
PushCheck ==
  /\ pPc = "idle" /\ nextItem \in Items
  /\ IF (head + 1) % N = tail
     THEN /\ pushResult' = "Err" /\ UNCHANGED pPc
     ELSE /\ pPc' = "write" /\ UNCHANGED pushResult
  /\ pSaid' = "none"
  /\ UNCHANGED <<buf, head, tail, nextItem, sent, received>> /\ UNCHANGED cVars

(* push: buffer[head].write(item).                                        *)
PushWrite ==
  /\ pPc = "write"
  /\ buf' = [buf EXCEPT ![head] = nextItem]
  /\ pPc' = "publish"
  /\ UNCHANGED <<head, tail, nextItem, pushResult, pSaid, sent, received>>
  /\ UNCHANGED cVars

(* Mutant: next_head is not masked.                                       *)
PushPublish_NoMask ==
  /\ pPc = "publish"
  /\ head' = head + 1
  /\ pPc' = "idle" /\ pushResult' = "Ok"
  /\ nextItem' = nextItem + 1 /\ sent' = Append(sent, nextItem)
  /\ UNCHANGED <<buf, tail, pSaid, received>> /\ UNCHANGED cVars

(* push: head.store(next_head, Release); Ok(()).                          *)
PushPublish ==
  /\ pPc = "publish"
  /\ head' = (head + 1) % N
  /\ pPc' = "idle" /\ pushResult' = "Ok"
  /\ nextItem' = nextItem + 1 /\ sent' = Append(sent, nextItem)
  /\ UNCHANGED <<buf, tail, pSaid, received>> /\ UNCHANGED cVars

(* pop, first step: load tail (own), Acquire-load head; equal is None.     *)
PopCheck ==
  /\ cPc = "idle"
  /\ IF tail = head
     THEN /\ popResult' = "None" /\ UNCHANGED cPc
     ELSE /\ cPc' = "read" /\ UNCHANGED popResult
  /\ cSaid' = "none"
  /\ UNCHANGED <<cItem, ref, refVal>>
  /\ UNCHANGED <<buf, head, tail, sent, received>> /\ UNCHANGED pVars

(* pop: buffer[tail].assume_init_read().                                  *)
PopRead ==
  /\ cPc = "read"
  /\ cItem' = buf[tail]
  /\ cPc' = "release"
  /\ UNCHANGED <<popResult, ref, refVal, cSaid>>
  /\ UNCHANGED <<buf, head, tail, sent, received>> /\ UNCHANGED pVars

(* pop: tail.store(next_tail, Release); Some(item).                       *)
PopRelease ==
  /\ cPc = "release"
  /\ tail' = (tail + 1) % N
  /\ received' = Append(received, cItem)
  /\ cPc' = "idle" /\ popResult' = "Some"
  /\ UNCHANGED <<cItem, ref, refVal, cSaid>>
  /\ UNCHANGED <<buf, head, sent>> /\ UNCHANGED pVars

(* peek: the same emptiness check, then Some(&buffer[tail]).  The borrow  *)
(* lives as long as the caller keeps it; it does not stop the consumer    *)
(* from calling pop (both take &self).                                     *)
Peek ==
  /\ cPc = "idle" /\ ref = NoRef
  /\ tail # head
  /\ ref' = tail /\ refVal' = buf[tail]
  /\ UNCHANGED <<cPc, cItem, popResult, cSaid>>
  /\ UNCHANGED <<buf, head, tail, sent, received>> /\ UNCHANGED pVars

\* The caller drops the reference peek returned.
DropRef ==
  /\ ref # NoRef
  /\ ref' = NoRef /\ refVal' = Uninit
  /\ UNCHANGED <<cPc, cItem, popResult, cSaid>>
  /\ UNCHANGED <<buf, head, tail, sent, received>> /\ UNCHANGED pVars

(* reset takes &mut self, so no handle and no borrow is alive; whatever    *)
(* was queued is discarded.                                                *)
Reset ==
  /\ pPc = "idle" /\ cPc = "idle" /\ ref = NoRef
  /\ head' = 0 /\ tail' = 0
  /\ sent' = received
  /\ pSaid' = "none" /\ cSaid' = "none"
  /\ UNCHANGED <<buf, received>> /\ UNCHANGED <<pPc, nextItem, pushResult>>
  /\ UNCHANGED <<cPc, cItem, popResult, ref, refVal>>

(* Producer::is_full or Producer::available: the producer asks whether   *)
(* there is room before it pushes.                                          *)
ProducerQuery ==
  /\ pPc = "idle" /\ nextItem \in Items
  /\ \E q \in {"is_full", "available"} :
       pSaid' = IF (q = "is_full" /\ ~IsFull) \/ (q = "available" /\ Available > 0)
                THEN "room" ELSE "none"
  /\ UNCHANGED <<pPc, nextItem, pushResult>>
  /\ UNCHANGED <<buf, head, tail, sent, received>> /\ UNCHANGED cVars

(* Consumer::is_empty or Consumer::len: the consumer asks whether there  *)
(* is an item before it pops.                                               *)
ConsumerQuery ==
  /\ cPc = "idle"
  /\ \E q \in {"is_empty", "len"} :
       cSaid' = IF (q = "is_empty" /\ ~IsEmpty) \/ (q = "len" /\ Len_ > 0)
                THEN "item" ELSE "none"
  /\ UNCHANGED <<cPc, cItem, popResult, ref, refVal>>
  /\ UNCHANGED <<buf, head, tail, sent, received>> /\ UNCHANGED pVars

Next ==
  \/ ProducerQuery \/ ConsumerQuery
  \/ PushCheck \/ PushWrite \/ PushPublish
  \/ PopCheck \/ PopRead \/ PopRelease
  \/ Peek \/ DropRef
  \/ Reset

Spec == Init /\ [][Next]_vars

----------------------------------------------------------------------------
TypeOK ==
  /\ buf \in [0..MASK -> {Uninit} \cup Items]
  /\ head \in 0..MASK /\ tail \in 0..MASK
  /\ pPc \in {"idle", "write", "publish"} /\ nextItem \in 1..MaxItems + 1
  /\ cPc \in {"idle", "read", "release"} /\ cItem \in {Uninit} \cup Items
  /\ ref \in 0..MASK \cup {NoRef}

(* The items between tail and head, oldest first: the queue the ring       *)
(* buffer holds for its user.                                              *)
Queued == [i \in 1..((head - tail) % N) |-> buf[(tail + i - 1) % N]]

Abstract == INSTANCE Fifo WITH Msgs <- Items, q <- Queued, in <- sent,
                               out <- received

(* Whatever interleaving of push and pop steps, the ring buffer is a FIFO *)
(* queue: every step of push, pop and reset is a step of Fifo or leaves   *)
(* the queue as it was, so pop returns exactly the items push accepted,   *)
(* in push order, each once, never an uninitialised or overwritten slot,  *)
(* and reset discards exactly what was not popped.                         *)
ImplementsFifo == Abstract!Spec

(* What a side was told by its own query stays true until it acts on it:  *)
(* after is_full() is false or available() > 0, the producer's next push  *)
(* finds room; after is_empty() is false or len() > 0, the consumer's     *)
(* next pop finds an item -- whatever the other side does in between.     *)
QueryStaysTrue ==
  /\ pSaid = "room" => (head + 1) % N # tail
  /\ cSaid = "item" => tail # head

(* A reference returned by peek keeps showing the value it showed: the    *)
(* slot is not overwritten while the borrow is alive (spsc.rs: "No UB").   *)
PeekedValueStable ==
  ref # NoRef => buf[ref] = refVal
=============================================================================
