------------------------------ MODULE PosixHal ------------------------------
(***************************************************************************)
(* The desktop HAL (PosixHal in src/ek-kor-public/rust/src/hal.rs): its   *)
(* message queue, its receive callback and its mock clock, shared by      *)
(* several threads through &self.                                          *)
(*                                                                         *)
(* Each Mutex section the code holds for one statement is one atomic step. *)
(* Two calls span more than one: send pushes under the queue lock, then   *)
(* takes the callback lock and runs the callback while holding it; and    *)
(* delay_us tests mock_time under one lock, releases it, and advances the *)
(* clock under a second one.  Between those steps other threads run.      *)
(*                                                                         *)
(* Data abstraction: a message is its id, sender and destination; its     *)
(* type and payload are copied, never inspected, and drive no control.    *)
(* send of more than MSG_MAX_LEN bytes returns InvalidArg before touching *)
(* any state, so it is no step.  Debug printing is left out.  The         *)
(* callback is one that returns without calling back into the HAL.        *)
(***************************************************************************)
EXTENDS Naturals, Sequences, SequencesExt, FiniteSetsExt

CONSTANTS
  Self,           \* module_id of this HAL
  Others,         \* ids of other modules
  BROADCAST_ID,   \* BROADCAST_ID (0xFF)
  Threads,        \* the threads calling into the HAL
  MaxMsgs,        \* messages sent or injected in one behaviour
  DelayUs,        \* the arguments delay_us and advance_mock_time are given
  MockTimes,      \* the values set_mock_time(Some(_)) is given
  MaxTime         \* bound on the real and the mock clock

NoThread == 0
None == -1      \* mock_time = None

ASSUME NoThread \notin Threads /\ None \notin MockTimes

Dests == {Self, BROADCAST_ID} \cup Others
Msgs == 1..MaxMsgs

VARIABLES
  queue,     \* queue: the messages, oldest first
  cbSet,     \* recv_callback is Some
  cbLock,    \* the thread holding the recv_callback mutex across a call
  pc,        \* pc[t]: "idle", or where t is inside send or delay_us
  cur,       \* cur[t]: the message t's send pushed
  dl,        \* dl[t]: the us t's delay_us was given
  mock,      \* mock_time
  real,      \* microseconds elapsed since start
  nextId,    \* the id of the next message
  inHist,    \* history: ids queued for this module since the last clear
  outHist,   \* history: ids recv returned since the last clear
  cbSeen,    \* history: ids the callback was called with
  dlFrom     \* history: dlFrom[t] is time_us when t's delay_us found mock time
             \* on, None when it has not or set_mock_time was called since

\* struct PosixHal: queue, mock_time, recv_callback and its lock; start is
\* the real clock; debug_enabled only gates printing and is left out.
vars == <<queue, cbSet, cbLock, pc, cur, dl, mock, real, nextId, inHist,
          outHist, cbSeen, dlFrom>>
timeVars == <<mock, real, dlFrom>>

----------------------------------------------------------------------------
(* Mutant: sender and destination are passed in the wrong order.        *)
NewMsg_Swapped(sender, dest) == [id |-> nextId, sender |-> dest, dest |-> sender]

(* QueuedMessage::new (the payload and its length are abstracted).        *)
NewMsg(sender, dest) == [id |-> nextId, sender |-> sender, dest |-> dest]

\* recv and send: addressed to this module or broadcast.
ForMe(m) == m.dest = Self \/ m.dest = BROADCAST_ID

\* The room the bounded clock has for a delay to start.
TimeRoom(us) ==
  mock + us + MapThenSumSet(LAMBDA t : IF pc[t] = "delay" THEN dl[t] ELSE 0,
                            Threads) <= MaxTime

----------------------------------------------------------------------------
\* PosixHal::new
Init ==
  /\ queue = <<>> /\ cbSet = FALSE /\ cbLock = NoThread
  /\ pc = [t \in Threads |-> "idle"]
  /\ cur = [t \in Threads |-> 0] /\ dl = [t \in Threads |-> 0]
  /\ mock = None /\ real = 0 /\ nextId = 1
  /\ inHist = <<>> /\ outHist = <<>> /\ cbSeen = <<>>
  /\ dlFrom = [t \in Threads |-> None]

(* send, first part: the message is pushed under the queue lock; a       *)
(* message to this module or broadcast goes on to the callback.          *)
Send(t, dest) ==
  LET m == NewMsg(Self, dest) IN
  /\ pc[t] = "idle" /\ nextId \in Msgs
  /\ queue' = Append(queue, m)
  /\ nextId' = nextId + 1
  /\ inHist' = IF ForMe(m) THEN Append(inHist, m.id) ELSE inHist
  /\ pc' = [pc EXCEPT ![t] = IF ForMe(m) THEN "callback" ELSE "idle"]
  /\ cur' = [cur EXCEPT ![t] = m.id]
  /\ UNCHANGED <<cbSet, cbLock, dl, outHist, cbSeen>> /\ UNCHANGED timeVars

\* broadcast: send to BROADCAST_ID.
Broadcast(t) == Send(t, BROADCAST_ID)

(* send, second part: lock recv_callback (waiting while another thread    *)
(* holds it); with no callback the lock is dropped and send returns Ok.   *)
LockCallback(t) ==
  /\ pc[t] = "callback" /\ cbLock = NoThread
  /\ IF cbSet THEN /\ cbLock' = t /\ pc' = [pc EXCEPT ![t] = "running"]
              ELSE /\ pc' = [pc EXCEPT ![t] = "idle"] /\ UNCHANGED cbLock
  /\ UNCHANGED <<queue, cbSet, cur, dl, nextId, inHist, outHist, cbSeen>>
  /\ UNCHANGED timeVars

(* send, last part: the callback runs with the lock held and returns; the  *)
(* guard is dropped and send returns Ok.                                   *)
RunCallback(t) ==
  /\ pc[t] = "running"
  /\ cbSeen' = Append(cbSeen, cur[t])
  /\ cbLock' = NoThread /\ pc' = [pc EXCEPT ![t] = "idle"]
  /\ UNCHANGED <<queue, cbSet, cur, dl, nextId, inHist, outHist>>
  /\ UNCHANGED timeVars

(* inject_message: a message from sender, addressed to this module.      *)
InjectMessage(t, sender) ==
  LET m == NewMsg(sender, Self) IN
  /\ pc[t] = "idle" /\ nextId \in Msgs
  /\ queue' = Append(queue, m) /\ nextId' = nextId + 1
  /\ inHist' = Append(inHist, m.id)
  /\ UNCHANGED <<cbSet, cbLock, pc, cur, dl, outHist, cbSeen>>
  /\ UNCHANGED timeVars

(* Mutant: recv takes the last matching message (rposition).             *)
Recv_TakesLast(t) ==
  /\ pc[t] = "idle"
  /\ \E i \in DOMAIN queue : ForMe(queue[i])
  /\ LET idx == Max({i \in DOMAIN queue : ForMe(queue[i])}) IN
       /\ queue' = RemoveAt(queue, idx)
       /\ outHist' = Append(outHist, queue[idx].id)
  /\ UNCHANGED <<cbSet, cbLock, pc, cur, dl, nextId, inHist, cbSeen>>
  /\ UNCHANGED timeVars

(* recv: under the queue lock, the first message addressed to this module *)
(* or broadcast is removed and returned; None if there is none.           *)
Recv(t) ==
  /\ pc[t] = "idle"
  /\ \E i \in DOMAIN queue : ForMe(queue[i])
  /\ LET idx == Min({i \in DOMAIN queue : ForMe(queue[i])}) IN
       /\ queue' = RemoveAt(queue, idx)
       /\ outHist' = Append(outHist, queue[idx].id)
  /\ UNCHANGED <<cbSet, cbLock, pc, cur, dl, nextId, inHist, cbSeen>>
  /\ UNCHANGED timeVars

\* clear_queue
ClearQueue(t) ==
  /\ pc[t] = "idle"
  /\ queue' = <<>> /\ inHist' = outHist
  /\ UNCHANGED <<cbSet, cbLock, pc, cur, dl, nextId, outHist, cbSeen>>
  /\ UNCHANGED timeVars

(* set_recv_callback / clear_recv_callback: store under the callback lock, *)
(* waiting while a send runs the callback.                                  *)
SetRecvCallback(t, on) ==
  /\ pc[t] = "idle" /\ cbLock = NoThread
  /\ cbSet' = on
  /\ UNCHANGED <<queue, cbLock, pc, cur, dl, nextId, inHist, outHist, cbSeen>>
  /\ UNCHANGED timeVars

\* set_mock_time(v), v = None returning to the real clock
SetMockTime(t, v) ==
  /\ pc[t] = "idle"
  /\ mock' = v
  /\ dlFrom' = [u \in Threads |-> None]
  /\ UNCHANGED <<queue, cbSet, cbLock, pc, cur, dl, nextId, inHist, outHist,
                 cbSeen, real>>

(* Mutant: advance_mock_time stores us instead of adding it.             *)
AdvanceMock_Assign(us) == IF mock # None THEN us ELSE mock

\* advance_mock_time: adds us if mock time is on, else does nothing.
AdvanceMock(us) == IF mock # None THEN mock + us ELSE mock

AdvanceMockTime(t, us) ==
  /\ pc[t] = "idle" /\ TimeRoom(us)
  /\ mock' = AdvanceMock(us)
  /\ UNCHANGED <<queue, cbSet, cbLock, pc, cur, dl, nextId, inHist, outHist,
                 cbSeen, real, dlFrom>>

(* delay_us, first part: mock_time is tested under its lock, which is      *)
(* released; without mock time the thread sleeps us on the real clock.     *)
DelayCheck(t, us) ==
  /\ pc[t] = "idle"
  /\ IF mock # None
     THEN /\ TimeRoom(us)
          /\ pc' = [pc EXCEPT ![t] = "delay"] /\ dl' = [dl EXCEPT ![t] = us]
          /\ dlFrom' = [dlFrom EXCEPT ![t] = mock]
          /\ UNCHANGED real
     ELSE /\ real + us <= MaxTime /\ real' = real + us
          /\ UNCHANGED <<pc, dl, dlFrom>>
  /\ UNCHANGED <<queue, cbSet, cbLock, cur, nextId, inHist, outHist, cbSeen,
                 mock>>

(* delay_us, second part: advance_mock_time(us), which locks mock_time     *)
(* again and finds it as the other threads left it.                        *)
DelayAdvance(t) ==
  /\ pc[t] = "delay"
  /\ mock' = AdvanceMock(dl[t])
  /\ pc' = [pc EXCEPT ![t] = "idle"] /\ dl' = [dl EXCEPT ![t] = 0]
  /\ dlFrom' = [dlFrom EXCEPT ![t] = None]
  /\ UNCHANGED <<queue, cbSet, cbLock, cur, nextId, inHist, outHist, cbSeen,
                 real>>

\* Real time passes.
Tick ==
  /\ real < MaxTime /\ real' = real + 1
  /\ UNCHANGED <<queue, cbSet, cbLock, pc, cur, dl, nextId, inHist, outHist,
                 cbSeen, mock, dlFrom>>

Next ==
  \/ \E t \in Threads :
       \/ \E d \in {Self} \cup Others : Send(t, d)
       \/ Broadcast(t)
       \/ LockCallback(t) \/ RunCallback(t)
       \/ \E s \in Others : InjectMessage(t, s)
       \/ Recv(t) \/ ClearQueue(t)
       \/ \E on \in BOOLEAN : SetRecvCallback(t, on)
       \/ \E v \in MockTimes \cup {None} : SetMockTime(t, v)
       \/ \E us \in DelayUs : AdvanceMockTime(t, us) \/ DelayCheck(t, us)
       \/ DelayAdvance(t)
  \/ Tick

Spec == Init /\ [][Next]_vars

----------------------------------------------------------------------------
TypeOK ==
  /\ queue \in Seq([id : Msgs, sender : {Self} \cup Others, dest : Dests])
  /\ cbSet \in BOOLEAN /\ cbLock \in Threads \cup {NoThread}
  /\ pc \in [Threads -> {"idle", "callback", "running", "delay"}]
  /\ cur \in [Threads -> Msgs \cup {0}] /\ dl \in [Threads -> DelayUs \cup {0}]
  /\ mock \in {None} \cup Nat /\ real \in 0..MaxTime
  /\ nextId \in 1..MaxMsgs + 1
  /\ dlFrom \in [Threads -> {None} \cup Nat]

\* The ids of the messages recv can return, oldest first.
Mailbox == [i \in 1..Len(SelectSeq(queue, ForMe)) |-> SelectSeq(queue, ForMe)[i].id]

Abstract == INSTANCE Fifo WITH q <- Mailbox, in <- inHist, out <- outHist

(* Whatever the threads interleave, this module's mailbox is a FIFO queue: *)
(* recv returns the messages sent to this module, broadcast or injected,  *)
(* in the order they were queued, each once, and clear_queue discards     *)
(* exactly those not yet received; messages for other modules never come  *)
(* out of recv and never disturb that order.                               *)
ImplementsFifo == Abstract!Spec

(* delay_us keeps its contract with mock time on (the Hal trait's        *)
(* time_us "must be monotonically increasing", and test_mock_time expects *)
(* delay_us(100) to add 100): when a delay_us that found mock time on     *)
(* returns, time_us is at least us past the value it found, whatever      *)
(* advance_mock_time and delay_us calls of other threads came in between. *)
(* Only a set_mock_time call in between releases it.                       *)
DelayAdvancesClock ==
  [][\A t \in Threads :
       (pc[t] = "delay" /\ pc'[t] = "idle" /\ dlFrom[t] # None)
         => mock' # None /\ mock' >= dlFrom[t] + dl[t]]_vars
=============================================================================
