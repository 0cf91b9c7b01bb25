------------------------- MODULE FolderSyncMail_proofs -------------------------
(***************************************************************************)
(* What a folder sync takes up and what it leaves: mail that arrives after *)
(* the set-up is never lost behind the cursor, mail from before it is left *)
(* alone; for any number of pollers.                                       *)
(***************************************************************************)
EXTENDS FolderSyncPoller_proofs

-----------------------------------------------------------------------------
(***************************************************************************)
(* A mailbox that was not rebuilt.                                         *)
(***************************************************************************)
Original(f) == uidvalidity[f] = 1

\* Its cursor and queue are those of its first UIDVALIDITY, and the cursor is not
\* ahead of the UIDs it has handed out.
FolderInOrder(f) ==
    /\ ~folder_state[f].known => folder_state[f].last_uid = 0
    /\ Original(f) =>
         /\ folder_state[f].known => folder_state[f].uidvalidity = 1
         /\ folder_state[f].last_uid < uidnext[f]
         /\ \A u \in Uid : Queued(f, u) => retry_queue[f][u].uidvalidity = 1

\* So is what a poll has read of it.
PollInOrder(w) ==
    pc[w] # "idle" =>
        /\ ~job[w].state.known => job[w].state.last_uid = 0
        /\ Original(FolderOf[w]) =>
             /\ job[w].state.known => job[w].state.uidvalidity = 1
             /\ job[w].state.last_uid < uidnext[FolderOf[w]]
             /\ job[w].top < uidnext[FolderOf[w]]
             /\ \A u \in job[w].todo : u < uidnext[FolderOf[w]]
             /\ pc[w] \in Handling => job[w].cur < uidnext[FolderOf[w]]
             /\ pc[w] \in Handling => \A u \in job[w].todo : u > job[w].cur

\* The mail of before the service starts is there; what is fresh in a folder that
\* has no past with an older version arrived after its first poll.
MailInOrder ==
    /\ \A m \in Initial : where[m] # "pending"
    /\ \A m \in fresh : HomeOf[m] \notin LegacyFolders =>
          m \notin Initial /\ folder_state[HomeOf[m]].known

OrderInv == /\ Validity /\ MailInOrder
            /\ \A f \in Folder : FolderInOrder(f)
            /\ \A w \in Worker : PollInOrder(w) /\ Phase(w)

\* The installation starts in order.
LEMMA OrderInit == Init => OrderInv
<1> SUFFICES ASSUME Init PROVE OrderInv
  OBVIOUS
<1> USE ConstantsAssumption
<1>1. PICK old \in SUBSET LegacyFolders, first \in [Folder -> 1..MaxUid + 1],
           last \in [Folder -> 0..MaxUid] :
         /\ \A f \in Folder :
              IF f \in old
              THEN /\ first[f] - 1 <= last[f] /\ last[f] < uidnext[f]
                   /\ \A m \in Early : HomeOf[m] = f => uid[m] < first[f]
              ELSE first[f] = MaxUid + 1 /\ last[f] = 0
         /\ fresh = {m \in Initial : uid[m] >= first[HomeOf[m]]}
         /\ folder_state = [f \in Folder |->
               IF f \in old
               THEN [known |-> TRUE, uidvalidity |-> 1, last_uid |-> last[f],
                     watch_from_uid |-> NoFloor, sweep_due |-> TRUE]
               ELSE NoState]
  BY Zenon DEF Init
<1>2. TypeOK
  BY InitType
<1>3. MailInOrder
  <2>1. \A m \in Initial : where[m] # "pending" /\ uid[m] \in Nat /\ uid[m] <= MaxUid
    BY DEF Init, Uid
  <2>2. ASSUME NEW m \in fresh, HomeOf[m] \notin LegacyFolders PROVE FALSE
    <3>1. first[HomeOf[m]] = MaxUid + 1 /\ m \in Initial
      BY <1>1, <2>2
    <3> QED BY <1>1, <2>1, <3>1
  <2> QED BY <2>1, <2>2 DEF MailInOrder
<1>4. ASSUME NEW f \in Folder PROVE FolderInOrder(f)
  <2>1. folder_state[f].known => folder_state[f].uidvalidity = 1
    BY <1>1 DEF NoState
  <2>2. /\ ~folder_state[f].known => folder_state[f].last_uid = 0
        /\ folder_state[f].last_uid < uidnext[f]
    <3>1. CASE f \in old
      BY <1>1, <3>1
    <3>2. CASE f \notin old
      BY <1>1, <1>2, <3>2 DEF NoState, TypeOK
    <3> QED BY <3>1, <3>2
  <2>3. \A u \in Uid : ~Queued(f, u)
    BY DEF Init, Queued, NoEntry
  <2> QED BY <2>1, <2>2, <2>3 DEF FolderInOrder
<1>5. \A w \in Worker : PollInOrder(w)
  BY DEF Init, PollInOrder
<1>6. Validity /\ \A w \in Worker : Phase(w)
  BY CursorInit DEF CursorInv
<1> QED BY <1>3, <1>4, <1>5, <1>6 DEF OrderInv

\* What a poll finds to import has a UID of its folder.
LEMMA FoundIsHere ==
    ASSUME NEW w \in Worker, NEW uids \in NewUids(w)
    PROVE  uids \subseteq UidsOf(Here(FolderOf[w]))
BY DEF NewUids, BackfillWindow

\* A poll stays in order.
LEMMA OwnOrder ==
    ASSUME TypeOK, UidsUnique, NEW w \in Worker, FolderInOrder(FolderOf[w]),
           PollInOrder(w), Poll(w) \/ Fail(w)
    PROVE  PollInOrder(w)'
<1> DEFINE f == FolderOf[w]
<1>0. /\ f \in Folder /\ UNCHANGED <<uidnext, uidvalidity>> /\ uidnext[f] \in Nat
      /\ \A m \in Mail : where[m] = "here" /\ HomeOf[m] = f => uid[m] < uidnext[f]
      /\ job[w] \in Job
  BY OnlyItsOwn, ConstantsAssumption DEF TypeOK, UidsUnique
<1>1. CASE Starts(w)
  <2>1. /\ job'[w].top = uidnext[f] - 1
        /\ job'[w].state = folder_state[f] /\ job'[w].todo = {}
        /\ pc'[w] = "sweep"
    BY <1>1, StartsFrame
  <2> QED BY <1>0, <2>1 DEF FolderInOrder, PollInOrder, Original, Handling, Holding
<1>2. CASE Progress(w)
  <2>1. /\ pc[w] # "idle"
        /\ pc'[w] \in Handling => pc[w] \in Handling
    BY <1>2, ProgressLeads DEF AfterMessage, Handling, Holding
  <2>2. SameWork(w)
    BY <1>2, ProgressKeepsWork
  <2> QED BY <1>0, <2>1, <2>2 DEF SameWork, PollInOrder, Original
<1>3. CASE StartRetries(w)
  <2>1. /\ job'[w].todo = {u \in DueRetries(f) : MailAt(f, u) # {}}
        /\ job'[w].top = job[w].top /\ job'[w].state = job[w].state
        /\ pc[w] = "due" /\ pc'[w] = "retry"
    BY <1>3, StartRetriesFrame
  <2>2. \A u \in job'[w].todo : u < uidnext[f]
    BY <1>0, <2>1 DEF MailAt, Here
  <2> QED BY <1>0, <2>1, <2>2 DEF PollInOrder, Original, Handling, Holding
<1>4. CASE Search(w)
  <2>1. /\ job'[w].todo \in NewUids(w)
        /\ job'[w].top = job[w].top /\ job'[w].state = job[w].state
        /\ pc[w] = "search" /\ pc'[w] = "new"
    BY <1>4, SearchFrame
  <2>2. \A u \in job'[w].todo : u < uidnext[f]
    BY <1>0, <2>1, FoundIsHere DEF UidsOf, Here
  <2> QED BY <1>0, <2>1, <2>2 DEF PollInOrder, Original, Handling, Holding
<1>5. CASE SkipOversize(w) \/ TakeDuplicate(w) \/ TakeMessage(w)
  <2>1. PICK m \in Mail :
             /\ uid[m] \in job[w].todo
             /\ \A u \in job[w].todo : uid[m] <= u
             /\ job'[w].cur = uid[m]
             /\ job'[w].todo = job[w].todo \ {uid[m]}
             /\ job'[w].top = job[w].top /\ job'[w].state = job[w].state
             /\ pc[w] \in {"retry", "new"}
    BY <1>5, TakeFrame
  <2>2. \A u \in job'[w].todo : u > uid[m]
    BY <1>0, <2>1 DEF Job, Uid
  <2> QED BY <1>0, <2>1, <2>2 DEF PollInOrder, Original
<1>6. CASE Finish(w) /\ ~EndPoll(w) /\ SameWork(w) /\ pc'[w] = "pin"
  <2>1. pc[w] = "finish"
    BY <1>6 DEF Finish
  <2> QED BY <1>0, <1>6, <2>1 DEF SameWork, PollInOrder, Original, Handling, Holding
<1>7. CASE SameWork(w) /\ UNCHANGED pc
  BY <1>0, <1>7 DEF SameWork, PollInOrder, Original
<1>8. CASE pc'[w] = "idle"
  BY <1>8 DEF PollInOrder
<1> QED BY <1>1, <1>2, <1>3, <1>4, <1>5, <1>6, <1>7, <1>8, OtherSteps

\* Nobody else renumbers a mailbox that stays as it was; new mail gets the next UID.
LEMMA OthersMail ==
    ASSUME TypeOK, Validity, Environment
    PROVE  /\ UNCHANGED <<copies, imported, pc, job>>
           /\ \A f \in Folder : Original(f)' => Original(f) /\ uidnext'[f] >= uidnext[f]
           /\ \A m \in Mail :
                \/ /\ where[m] = "pending" /\ where'[m] = "here"
                   /\ uid'[m] = uidnext[HomeOf[m]]
                   /\ m \in fresh' <=> m \in fresh \/ folder_state[HomeOf[m]].known
                \/ /\ where'[m] = where[m] \/ (where[m] = "here" /\ where'[m] = "deleted")
                   /\ m \in fresh' <=> m \in fresh
                   /\ Original(HomeOf[m])' => uid'[m] = uid[m]
<1> DEFINE Calm(f) == Original(f)' => Original(f) /\ uidnext'[f] >= uidnext[f]
           Arrives(m) == /\ where[m] = "pending" /\ where'[m] = "here"
                         /\ uid'[m] = uidnext[HomeOf[m]]
                         /\ m \in fresh' <=> m \in fresh \/ folder_state[HomeOf[m]].known
           Stays(m) == /\ where'[m] = where[m] \/ (where[m] = "here" /\ where'[m] = "deleted")
                       /\ m \in fresh' <=> m \in fresh
                       /\ Original(HomeOf[m])' => uid'[m] = uid[m]
<1>0. /\ uidnext \in [Folder -> Nat] /\ uidvalidity \in [Folder -> Nat]
      /\ where \in [Mail -> {"pending", "here", "expunged", "deleted"}]
      /\ uid \in [Mail -> 0..MaxUid] /\ \A f \in Folder : uidvalidity[f] >= 1
      /\ HomeOf \in [Mail -> Folder] /\ fresh \subseteq Mail
  BY ConstantsAssumption DEF TypeOK, Validity
<1>1. UNCHANGED <<copies, imported, pc, job>>
  BY DEF Environment, Arrive, UserDeletes, UserFlags, Rebuild, SweepInterval, Requeue,
     RetryDelay, HandQueue, db
<1>2. ASSUME NEW m \in Mail, Arrive(m)
      PROVE  (\A f \in Folder : Calm(f)) /\ \A n \in Mail : Arrives(n) \/ Stays(n)
  <2>1. /\ where[m] = "pending" /\ HomeOf[m] \in Folder /\ UNCHANGED uidvalidity
        /\ where' = [where EXCEPT ![m] = "here"]
        /\ uid' = [uid EXCEPT ![m] = uidnext[HomeOf[m]]]
        /\ uidnext' = [uidnext EXCEPT ![HomeOf[m]] = uidnext[HomeOf[m]] + 1]
        /\ fresh' = IF folder_state[HomeOf[m]].known THEN fresh \cup {m} ELSE fresh
    BY <1>0, <1>2 DEF Arrive
  <2>2. \A f \in Folder : Calm(f)
    BY <1>0, <2>1 DEF Original
  <2>3. ASSUME NEW n \in Mail PROVE Arrives(n) \/ Stays(n)
    <3>1. CASE n = m
      <4>1. Arrives(m)
        BY <1>0, <2>1
      <4> QED BY <3>1, <4>1
    <3>2. CASE n # m
      <4>1. Stays(n)
        BY <1>0, <2>1, <3>2
      <4> QED BY <4>1
    <3> QED BY <3>1, <3>2
  <2> QED BY <2>2, <2>3
<1>3. ASSUME NEW m \in Mail, UserDeletes(m)
      PROVE  (\A f \in Folder : Calm(f)) /\ \A n \in Mail : Arrives(n) \/ Stays(n)
  <2>1. \A f \in Folder : Calm(f)
    BY <1>0, <1>3 DEF UserDeletes, Original
  <2>2. ASSUME NEW n \in Mail PROVE Stays(n)
    BY <1>0, <1>3 DEF UserDeletes
  <2> QED BY <2>1, <2>2
<1>4. ASSUME NEW g \in Folder, Rebuild(g)
      PROVE  (\A f \in Folder : Calm(f)) /\ \A n \in Mail : Arrives(n) \/ Stays(n)
  <2>1. PICK u \in [Here(g) -> Uid], top \in 0..MaxUid :
          /\ uid' = [m \in Mail |-> IF m \in Here(g) THEN u[m] ELSE uid[m]]
          /\ uidnext' = [uidnext EXCEPT ![g] = top + 1]
    BY <1>4 DEF Rebuild
  <2>2. /\ uidvalidity' = [uidvalidity EXCEPT ![g] = uidvalidity[g] + 1]
        /\ UNCHANGED <<where, fresh>>
    BY <1>4 DEF Rebuild
  <2>3. ~Original(g)'
    BY <1>0, <2>2 DEF Original
  <2>4. \A f \in Folder : Calm(f)
    BY <1>0, <2>1, <2>2, <2>3 DEF Original
  <2>5. ASSUME NEW n \in Mail PROVE Stays(n)
    <3>1. HomeOf[n] # g => uid'[n] = uid[n]
      BY <1>0, <2>1 DEF Here
    <3> QED BY <1>0, <2>2, <2>3, <3>1
  <2> QED BY <2>4, <2>5
<1>5. CASE UNCHANGED <<where, uid, uidnext, uidvalidity, fresh>>
  <2>1. \A f \in Folder : Calm(f)
    BY <1>0, <1>5 DEF Original
  <2>2. ASSUME NEW n \in Mail PROVE Stays(n)
    BY <1>5
  <2> QED BY <1>1, <2>1, <2>2
<1>6. \/ \E m \in Mail : Arrive(m) \/ UserDeletes(m)
      \/ \E f \in Folder : Rebuild(f)
      \/ UNCHANGED <<where, uid, uidnext, uidvalidity, fresh>>
  BY DEF Environment, UserFlags, SweepInterval, Requeue, RetryDelay, HandQueue, server
<1> QED BY <1>1, <1>2, <1>3, <1>4, <1>5, <1>6

\* A step of a poll keeps its folder in order.
LEMMA OwnFolder ==
    ASSUME IInv, Validity, NEW w \in Worker, PollInOrder(w), FolderInOrder(FolderOf[w]),
           Poll(w) \/ Fail(w)
    PROVE  FolderInOrder(FolderOf[w])'
<1> DEFINE f == FolderOf[w]
<1>0. /\ TypeOK /\ Held /\ f \in Folder /\ UNCHANGED <<uidnext, uidvalidity>>
      /\ pc[w] # "idle" => job[w].uidvalidity = uidvalidity[f]
  BY OnlyItsOwn, ConstantsAssumption DEF IInv, Validity
<1>1. /\ ~folder_state'[f].known => folder_state'[f].last_uid = 0
      /\ Original(f) =>
           /\ folder_state'[f].known => folder_state'[f].uidvalidity = 1
           /\ folder_state'[f].last_uid < uidnext[f]
  <2>1. CASE SameCursor(f)
    BY <2>1 DEF FolderInOrder, SameCursor
  <2>2. CASE Advance(w) /\ CursorMovesTo(w, job[w].cur)
    <3>1. pc[w] = "advance"
      BY <2>2 DEF Advance, Goto
    <3> QED BY <1>0, <2>2, <3>1 DEF CursorMovesTo, PollInOrder, Original, Handling
  <2>3. CASE Pin(w) /\ CursorMovesTo(w, IF job[w].state.last_uid > job[w].top
                                        THEN job[w].state.last_uid ELSE job[w].top)
    <3>1. pc[w] = "pin"
      BY <2>3 DEF Pin
    <3> QED BY <1>0, <2>3, <3>1 DEF CursorMovesTo, PollInOrder, Original
  <2> QED BY <1>0, <2>1, <2>2, <2>3, CursorMoves
<1>2. ASSUME Original(f), NEW u \in Uid, Queued(f, u)'
      PROVE  retry_queue'[f][u].uidvalidity = 1
  <2>1. CASE retry_queue'[f][u] = retry_queue[f][u]
    BY <1>2, <2>1 DEF FolderInOrder, Queued
  <2>2. CASE retry_queue'[f][u].uidvalidity = job[w].uidvalidity /\ pc[w] # "idle"
    BY <1>0, <1>2, <2>2 DEF Original
  <2> QED BY <1>0, <1>2, <2>1, <2>2, RowMoves
          DEF Queued, QueuedBy, CountedBy, Sweep, Park, Defer, Goto
<1> QED BY <1>0, <1>1, <1>2 DEF FolderInOrder, Original

\* The order is inductive, for any number of pollers.
LEMMA OrderStep ==
    ASSUME IInv, OrderInv, [Next]_vars
    PROVE  OrderInv'
<1>0. /\ TypeOK /\ Held /\ Validity /\ UidsUnique
      /\ FolderOf \in [Worker -> Folder] /\ HomeOf \in [Mail -> Folder]
      /\ Initial \subseteq Mail /\ fresh \subseteq Mail
  BY ConstantsAssumption DEF IInv, OrderInv, TypeOK
<1>1. Validity'
  BY <1>0, ValidityStep
<1>2. \A w \in Worker : Phase(w)'
  BY <1>0, PhaseStep DEF OrderInv
<1>3. ASSUME NEW w \in Worker, Poll(w) \/ Fail(w) PROVE OrderInv'
  <2>0. /\ UNCHANGED <<uid, uidnext, uidvalidity, fresh>> /\ Shrinks
    BY <1>0, <1>3, OnlyItsOwn, PollShrinks
  <2>1. ASSUME NEW f \in Folder PROVE FolderInOrder(f)'
    <3>1. CASE f = FolderOf[w]
      BY <1>0, <1>3, <3>1, OwnFolder DEF OrderInv
    <3>2. CASE f # FolderOf[w]
      <4>1. folder_state'[f] = folder_state[f] /\ retry_queue'[f] = retry_queue[f]
        BY <1>0, <1>3, <3>2, OnlyItsOwn
      <4> QED BY <2>0, <4>1 DEF OrderInv, FolderInOrder, Original, Queued
    <3> QED BY <3>1, <3>2
  <2>2. ASSUME NEW v \in Worker PROVE PollInOrder(v)'
    <3>1. CASE v = w
      BY <1>0, <1>3, <3>1, OwnOrder DEF OrderInv
    <3>2. CASE v # w
      <4>1. pc'[v] = pc[v] /\ job'[v] = job[v]
        BY <1>0, <1>3, <3>2, OnlyItsOwn
      <4> QED BY <2>0, <4>1 DEF OrderInv, PollInOrder, Original
    <3> QED BY <3>1, <3>2
  <2>3. \A f \in Folder : folder_state[f].known => folder_state'[f].known
    <3>1. folder_state[FolderOf[w]].known => folder_state'[FolderOf[w]].known
      BY <1>0, <1>3, CursorMoves DEF SameCursor, CursorMovesTo
    <3> QED BY <1>0, <1>3, <3>1, OnlyItsOwn
  <2>4. MailInOrder'
    BY <1>0, <2>0, <2>3 DEF OrderInv, MailInOrder, Shrinks
  <2> QED BY <1>1, <1>2, <2>1, <2>2, <2>4 DEF OrderInv
<1>4. CASE Environment
  <2>0. /\ UNCHANGED <<copies, imported, pc, job>>
        /\ \A f \in Folder : Original(f)' => Original(f) /\ uidnext'[f] >= uidnext[f]
        /\ \A f \in Folder : SameCursor(f) /\ uidnext[f] \in Nat /\ uidnext'[f] \in Nat
    <3>1. TypeOK'
      BY <1>0, <1>4, EnvironmentType
    <3> QED BY <1>0, <1>4, <3>1, OthersMail, EnvironmentKeepsCursor DEF TypeOK
  <2>1. ASSUME NEW f \in Folder PROVE FolderInOrder(f)'
    <3>1. folder_state[f].last_uid \in Nat
      BY <1>0 DEF TypeOK, FolderState
    <3>2. ASSUME Original(f), NEW u \in Uid, Queued(f, u)'
          PROVE  retry_queue'[f][u].uidvalidity = 1
      BY <1>0, <1>4, <3>2, EnvironmentRows
         DEF OrderInv, FolderInOrder, Queued, HandQueue
    <3> QED BY <2>0, <3>1, <3>2 DEF OrderInv, FolderInOrder, SameCursor
  <2>2. ASSUME NEW w \in Worker PROVE PollInOrder(w)'
    <3>1. /\ job[w] \in Job /\ job[w].state \in FolderState
      BY <1>0 DEF TypeOK, Job
    <3> QED BY <1>0, <2>0, <3>1 DEF OrderInv, PollInOrder, Job, FolderState, Uid
  <2>3. ASSUME NEW m \in Initial PROVE where'[m] # "pending"
    <3>1. m \in Mail /\ where[m] # "pending"
      BY <1>0 DEF OrderInv, MailInOrder
    <3> QED BY <1>0, <1>4, <3>1, OthersMail
  <2>4. ASSUME NEW m \in fresh', HomeOf[m] \notin LegacyFolders
        PROVE  m \notin Initial /\ folder_state'[HomeOf[m]].known
    <3>0. m \in Mail /\ HomeOf[m] \in Folder
      <4>1. TypeOK'
        BY <1>0, <1>4, EnvironmentType
      <4> QED BY <1>0, <4>1 DEF TypeOK
    <3>1. CASE m \in fresh
      BY <1>0, <2>0, <2>4, <3>0, <3>1 DEF OrderInv, MailInOrder, SameCursor
    <3>2. CASE m \notin fresh
      <4>1. where[m] = "pending" /\ folder_state[HomeOf[m]].known
        BY <1>0, <1>4, <2>4, <3>0, <3>2, OthersMail
      <4> QED BY <2>0, <3>0, <4>1 DEF OrderInv, MailInOrder, SameCursor
    <3> QED BY <3>1, <3>2
  <2>5. MailInOrder'
    BY <2>3, <2>4 DEF MailInOrder
  <2> QED BY <1>1, <1>2, <2>1, <2>2, <2>5 DEF OrderInv
<1>5. CASE UNCHANGED vars
  <2>1. /\ \A f \in Folder : FolderInOrder(f)'
        /\ \A w \in Worker : PollInOrder(w)'
        /\ MailInOrder'
    BY <1>5 DEF vars, OrderInv, FolderInOrder, PollInOrder, MailInOrder, Original, Queued
  <2> QED BY <1>1, <1>2, <2>1 DEF OrderInv
<1> QED BY <1>3, <1>4, <1>5 DEF Next

-----------------------------------------------------------------------------
(***************************************************************************)
(* Nothing is skipped.                                                     *)
(***************************************************************************)
Accounted(m) == DeliveredMail(m) \/ Queued(HomeOf[m], uid[m]) \/ m \in Oversize

\* The messages NothingSkipped is about that still have to be taken up.
Waits(m) == /\ m \in fresh /\ where[m] = "here"
            /\ HomeOf[m] \notin LegacyFolders /\ Original(HomeOf[m])
            /\ ~Accounted(m)

\* A poll will not move the cursor past such a message before it took it up: it
\* lies above all the poll read when it started, or on its list, or in its hand,
\* or it arrived after the list was made.
Remembers(w, m) ==
    /\ pc[w] # "idle" =>
         /\ uid[m] > job[w].state.last_uid
         /\ ~job[w].state.known => uid[m] > job[w].top
    /\ pc[w] = "new" => uid[m] \in job[w].todo \/ \A u \in job[w].todo : u < uid[m]
    /\ pc[w] \in {"new", "finish", "pin"} /\ ~job[w].found => uid[m] > job[w].top
    /\ pc[w] \in Handling /\ ~job[w].retrying =>
         \/ uid[m] \in job[w].todo
         \/ uid[m] = job[w].cur /\ pc[w] \in {"import", "park"}
         \/ uid[m] > job[w].cur /\ \A u \in job[w].todo : u < uid[m]

SkipInv == \A m \in Mail : Waits(m) =>
    /\ uid[m] > folder_state[HomeOf[m]].last_uid
    /\ \A w \in Worker : FolderOf[w] = HomeOf[m] => Remembers(w, m)

\* No poll makes a message wait that did not.
LEMMA WaitsBeforePoll ==
    ASSUME IInv, OrderInv, NEW w \in Worker, Poll(w) \/ Fail(w),
           NEW m \in Mail, Waits(m)'
    PROVE  Waits(m) /\ uid'[m] = uid[m]
<1> DEFINE f == HomeOf[m]
<1>0. /\ TypeOK /\ Shrinks /\ Keeps /\ f \in Folder
      /\ UNCHANGED <<uid, fresh, uidvalidity>>
  BY OnlyItsOwn, PollShrinks, ConstantsAssumption DEF IInv
<1>1. where[m] = "here" /\ m \in fresh /\ Original(f) /\ uid[m] \in Uid
  BY <1>0 DEF Waits, Shrinks, Original, TypeOK
<1>2. ~DeliveredMail(m)
  BY <1>0, DeliveredStays DEF Waits, Accounted
<1>3. ~Queued(f, uid[m])
  <2>1. SUFFICES ASSUME Queued(f, uid[m]) PROVE FALSE
    OBVIOUS
  <2>2. retry_queue[f][uid[m]].uidvalidity = uidvalidity[f]
    BY <1>0, <1>1, <2>1 DEF OrderInv, FolderInOrder, Original
  <2>3. PICK u \in Uid : u = uid[m]
    BY <1>1
  <2>4. Queued(f, u)' \/ DeliveredMail(m)
    BY <1>0, <1>1, <2>1, <2>2, <2>3, WorkerKeepsQueue
  <2> QED BY <1>0, <1>2, <2>3, <2>4 DEF Waits, Accounted, Queued
<1> QED BY <1>0, <1>1, <1>2, <1>3 DEF Waits, Accounted

\* Somebody else does only by sending it.
LEMMA WaitsBeforeOthers ==
    ASSUME IInv, OrderInv, Environment, NEW m \in Mail, Waits(m)'
    PROVE  /\ Original(HomeOf[m])
           /\ \/ Waits(m) /\ uid'[m] = uid[m]
              \/ uid'[m] = uidnext[HomeOf[m]]
<1> DEFINE f == HomeOf[m]
<1>0. /\ TypeOK /\ Validity /\ f \in Folder /\ UNCHANGED copies
      /\ Original(f)' => Original(f)
  BY OthersMail, ConstantsAssumption DEF IInv, OrderInv
<1>1. Original(f)' /\ where'[m] = "here" /\ m \in fresh'
  BY DEF Waits
<1>2. CASE where[m] = "here" /\ m \in fresh /\ uid'[m] = uid[m]
  <2>1. uid[m] \in Uid
    BY <1>0, <1>2 DEF TypeOK
  <2>2. PICK u \in Uid : u = uid[m]
    BY <2>1
  <2>3. Queued(f, u) => Queued(f, u)'
    BY <1>0, EnvironmentKeepsQueue
  <2>4. ~DeliveredMail(m)
    BY <1>0 DEF Waits, Accounted, DeliveredMail, Delivered
  <2> QED BY <1>0, <1>1, <1>2, <2>2, <2>3, <2>4 DEF Waits, Accounted, Queued
<1> QED BY <1>0, <1>1, <1>2, OthersMail

\* A poll that takes a message off its list still remembers the others.
LEMMA TakeRemembers ==
    ASSUME IInv, NEW w \in Worker, Phase(w), NEW m \in Mail, Waits(m),
           FolderOf[w] = HomeOf[m], Remembers(w, m),
           SkipOversize(w) \/ TakeDuplicate(w) \/ TakeMessage(w)
    PROVE  Remembers(w, m)'
<1>0. /\ TypeOK /\ UidsUnique /\ RecordedOnlyIfDelivered
      /\ where[m] = "here" /\ ~DeliveredMail(m) /\ m \notin Oversize
      /\ OwnerOf[HomeOf[m]] \in User /\ KeyOf[m] \in Key
  BY ConstantsAssumption DEF IInv, Waits, Accounted
<1>1. PICK n \in Mail :
         /\ n \in MailAt(FolderOf[w], uid[n]) /\ uid[n] \in job[w].todo
         /\ \A u \in job[w].todo : uid[n] <= u
         /\ job'[w].cur = uid[n]
         /\ job'[w].todo = job[w].todo \ {uid[n]}
         /\ job'[w].top = job[w].top /\ job'[w].state = job[w].state
         /\ job'[w].retrying = job[w].retrying
         /\ pc[w] \in {"retry", "new"}
         /\ \/ n \in Oversize
               /\ pc'[w] = IF job[w].retrying THEN "park" ELSE "advance"
            \/ pc'[w] = "clear" /\ IsImported(OwnerOf[FolderOf[w]], KeyOf[n])
            \/ pc'[w] = "import"
         /\ UNCHANGED uid
  BY <1>0, TakeFrame DEF server
<1>2. /\ uid'[m] > job'[w].state.last_uid
      /\ ~job'[w].state.known => uid'[m] > job'[w].top
  BY <1>1 DEF Remembers
<1>3. pc'[w] \notin {"new", "finish", "pin"} /\ pc'[w] # "idle"
  BY <1>1
<1>4. ASSUME ~job[w].retrying
      PROVE  \/ uid[m] \in job'[w].todo
             \/ uid[m] = job'[w].cur /\ pc'[w] \in {"import", "park"}
             \/ uid[m] > job'[w].cur /\ \A u \in job'[w].todo : u < uid[m]
  <2>1. uid[m] \in job[w].todo \/ \A u \in job[w].todo : u < uid[m]
    BY <1>1, <1>4 DEF Phase, Remembers
  <2>2. CASE uid[m] = uid[n]
    <3>1. n = m
      BY <1>0, <1>1, <2>2 DEF UidsUnique, MailAt, Here
    <3>2. ~IsImported(OwnerOf[FolderOf[w]], KeyOf[n])
      BY <1>0, <3>1 DEF IsImported, RecordedOnlyIfDelivered, DeliveredMail
    <3> QED BY <1>0, <1>1, <2>2, <3>1, <3>2
  <2>3. CASE uid[m] # uid[n]
    BY <1>1, <2>1, <2>3
  <2> QED BY <2>2, <2>3
<1> QED BY <1>1, <1>2, <1>3, <1>4 DEF Remembers

\* So does one that lists what is new ...
LEMMA SearchRemembers ==
    ASSUME IInv, OrderInv, NEW w \in Worker, NEW m \in Mail, Waits(m),
           FolderOf[w] = HomeOf[m], Remembers(w, m), Search(w)
    PROVE  Remembers(w, m)'
<1> DEFINE f == FolderOf[w]
<1>0. /\ TypeOK /\ where[m] = "here" /\ m \in fresh /\ f \notin LegacyFolders
      /\ uidvalidity[f] = 1 /\ uid[m] \in Uid /\ Early \subseteq Initial
      /\ m \notin Early /\ uid[m] \in UidsOf(Here(f)) /\ m \in Here(f) \ Early
  BY ConstantsAssumption
     DEF IInv, Waits, Original, TypeOK, OrderInv, MailInOrder, UidsOf, Here
<1>1. /\ job'[w].todo \in NewUids(w) /\ ~job'[w].retrying
      /\ job'[w].found = (job'[w].todo # {})
      /\ job'[w].top = job[w].top /\ job'[w].state = job[w].state
      /\ pc[w] = "search" /\ pc'[w] = "new" /\ UNCHANGED uid
  BY <1>0, SearchFrame DEF server
<1>2. /\ uid[m] > job[w].state.last_uid
      /\ ~job[w].state.known => uid[m] > job[w].top
      /\ job[w].state.known => job[w].state.uidvalidity = job[w].uidvalidity
  BY <1>0, <1>1 DEF Remembers, OrderInv, PollInOrder, Original, Validity
<1>3. uid[m] \in job'[w].todo \/ (job'[w].todo = {} /\ ~job[w].state.known)
  <2>1. CASE job[w].state.known
    <3>1. job'[w].todo = {u \in UidsOf(Here(f)) : u > job[w].state.last_uid}
      BY <1>1, <1>2, <2>1 DEF NewUids
    <3> QED BY <1>0, <1>2, <3>1
  <2>2. CASE ~job[w].state.known /\ f \in BackfillFolders
    <3>1. job'[w].todo \in BackfillWindow(f, TRUE)
      BY <1>1, <2>2 DEF NewUids
    <3>2. PICK lo \in 1..MaxUid + 1 :
             /\ \A n \in Here(f) \ Early : uid[n] >= lo
             /\ job'[w].todo = {u \in UidsOf(Here(f)) : u >= lo}
      BY <3>1 DEF BackfillWindow
    <3> QED BY <1>0, <3>2
  <2>3. CASE ~job[w].state.known /\ f \notin BackfillFolders
    BY <1>1, <2>3 DEF NewUids
  <2> QED BY <2>1, <2>2, <2>3
<1> QED BY <1>1, <1>2, <1>3 DEF Remembers, Handling, Holding

\* ... and one that handles a message, until it is imported, queued or passed.
LEMMA ProgressRemembers ==
    ASSUME IInv, OrderInv, NEW w \in Worker, NEW m \in Mail, Waits(m), Waits(m)',
           FolderOf[w] = HomeOf[m], Remembers(w, m), Progress(w)
    PROVE  Remembers(w, m)'
<1> DEFINE f == FolderOf[w]
<1>0. /\ TypeOK /\ where[m] = "here" /\ UNCHANGED uid
      /\ Phase(w) /\ HeldBy(w) /\ SecuredBy(w)' /\ uid[m] \in Uid
  <2>1. Poll(w)
    BY DEF Progress, Poll
  <2>2. SecuredBy(w)'
    BY <2>1, StepKeepsInvariant DEF Next, IInv, Secured
  <2> QED BY <2>1, <2>2, OnlyItsOwn DEF IInv, Held, Waits, OrderInv, TypeOK
<1>1. SameWork(w)
  BY <1>0, ProgressKeepsWork
<1>2. ASSUME pc[w] \in {"import", "park"}, uid[m] = job[w].cur
      PROVE  pc'[w] = "park"
  <2>1. m = job[w].hand
    BY <1>0, <1>2 DEF HeldBy, Holding, MailAt, Here
  <2>2. CASE Import(w)
    <3>1. pc'[w] = "record" /\ job'[w].hand = m
      BY <1>0, <1>1, <2>1, <2>2 DEF Import, Goto, SameWork, TypeOK
    <3>2. DeliveredMail(m)'
      <4>1. DeliveredMail(job[w].hand)'
        BY <1>0, <3>1 DEF SecuredBy
      <4> QED BY <3>1, <4>1 DEF DeliveredMail, Delivered
    <3> QED BY <3>2 DEF Waits, Accounted
  <2>3. CASE Park(w)
    <3>1. Queued(f, uid[m])'
      BY <1>0, <1>2, <2>3, ConstantsAssumption DEF Park, QueueRetry, Queued, TypeOK
    <3> QED BY <3>1 DEF Waits, Accounted
  <2>4. CASE ImportRejected(w)
    BY <1>0, <2>4 DEF ImportRejected, Goto, TypeOK
  <2>5. Import(w) \/ Park(w) \/ ImportRejected(w)
    BY <1>2 DEF Progress, DeriveFloor, Sweep, SkipSweep, EndRetries, EndNew, CountAttempts,
       Defer, RecordImport, RecordFails, ClearRetry, MarkDeleted, Expunge, Advance, Goto
  <2> QED BY <2>2, <2>3, <2>4, <2>5
<1>3. \/ pc[w] = "sweep" /\ pc'[w] \in {"sweep", "due"}
      \/ pc[w] = "retry" /\ pc'[w] = "search"
      \/ pc[w] = "new" /\ pc'[w] = "finish"
      \/ pc[w] = "advance" /\ pc'[w] = "new"
      \/ pc[w] \in Holding
         /\ pc'[w] \in Holding \cup {IF job[w].retrying THEN "retry" ELSE "advance"}
  BY <1>0, ProgressLeads DEF AfterMessage
<1> QED BY <1>0, <1>1, <1>2, <1>3 DEF SameWork, Remembers, Phase, Handling, Holding

\* Every step of a poll does.
LEMMA PollRemembers ==
    ASSUME IInv, OrderInv, NEW w \in Worker, NEW m \in Mail, Waits(m), Waits(m)',
           FolderOf[w] = HomeOf[m], uid[m] > folder_state[HomeOf[m]].last_uid,
           Remembers(w, m), Poll(w) \/ Fail(w)
    PROVE  Remembers(w, m)'
<1>0. TypeOK /\ Phase(w) /\ UNCHANGED uid
  BY OnlyItsOwn DEF IInv, OrderInv
<1>1. CASE Progress(w)
  BY <1>1, ProgressRemembers
<1>2. CASE Starts(w)
  <2>1. folder_state[FolderOf[w]].known
    BY DEF OrderInv, MailInOrder, Waits
  <2> QED BY <1>0, <1>2, <2>1, StartsFrame DEF Remembers, Handling, Holding
<1>3. CASE StartRetries(w)
  BY <1>0, <1>3, StartRetriesFrame DEF Remembers, Handling, Holding
<1>4. CASE Search(w)
  BY <1>4, SearchRemembers
<1>5. CASE SkipOversize(w) \/ TakeDuplicate(w) \/ TakeMessage(w)
  BY <1>0, <1>5, TakeRemembers
<1>6. CASE Finish(w) /\ SameWork(w) /\ pc'[w] = "pin"
  BY <1>0, <1>6 DEF Finish, SameWork, Remembers, Handling, Holding
<1>7. CASE SameWork(w) /\ UNCHANGED pc
  BY <1>0, <1>7 DEF SameWork, Remembers
<1>8. CASE pc'[w] = "idle"
  BY <1>8 DEF Remembers, Handling, Holding
<1> QED BY <1>0, <1>1, <1>2, <1>3, <1>4, <1>5, <1>6, <1>7, <1>8, OtherSteps

\* And none moves the cursor past a message that waits.
LEMMA CursorPassesNone ==
    ASSUME IInv, OrderInv, NEW w \in Worker, NEW m \in Mail, Waits(m),
           FolderOf[w] = HomeOf[m], uid[m] > folder_state[HomeOf[m]].last_uid,
           Remembers(w, m), Poll(w) \/ Fail(w)
    PROVE  uid[m] > folder_state'[HomeOf[m]].last_uid
<1> DEFINE f == FolderOf[w]
<1>0. TypeOK /\ Phase(w) /\ PollInOrder(w) /\ Original(f)
  BY DEF IInv, OrderInv, Waits
<1>1. CASE SameCursor(f)
  BY <1>1 DEF SameCursor
<1>2. CASE Advance(w) /\ CursorMovesTo(w, job[w].cur)
  <2>1. pc[w] = "advance"
    BY <1>2 DEF Advance, Goto
  <2>2. uid[m] > job[w].cur
    BY <1>0, <2>1 DEF Phase, PollInOrder, Remembers, Handling
  <2> QED BY <1>2, <2>2 DEF CursorMovesTo
<1>3. CASE Pin(w) /\ CursorMovesTo(w, IF job[w].state.last_uid > job[w].top
                                      THEN job[w].state.last_uid ELSE job[w].top)
  <2>1. pc[w] = "pin" /\ ~job[w].found
    BY <1>0, <1>3 DEF Pin, Phase
  <2> QED BY <1>3, <2>1 DEF CursorMovesTo, Remembers
<1> QED BY <1>0, <1>1, <1>2, <1>3, CursorMoves

\* When the service starts, no message is fresh.
LEMMA SkipInit == Init => SkipInv
<1>1. Init => MailInOrder
  BY OrderInit DEF OrderInv
<1>2. Init => \A m \in Mail : where[m] = "here" => m \in Initial
  BY DEF Init
<1> QED BY <1>1, <1>2 DEF SkipInv, Waits, MailInOrder

\* The invariant is inductive, for any number of pollers.
LEMMA SkipStep ==
    ASSUME IInv, OrderInv, SkipInv, [Next]_vars
    PROVE  SkipInv'
<1> SUFFICES ASSUME NEW m \in Mail, Waits(m)'
             PROVE  /\ uid'[m] > folder_state'[HomeOf[m]].last_uid
                    /\ \A w \in Worker : FolderOf[w] = HomeOf[m] => Remembers(w, m)'
  BY DEF SkipInv
<1> DEFINE f == HomeOf[m]
<1>0. /\ TypeOK /\ Validity /\ f \in Folder /\ FolderOf \in [Worker -> Folder]
  BY ConstantsAssumption DEF IInv, OrderInv
<1>1. ASSUME NEW w \in Worker, Poll(w) \/ Fail(w)
      PROVE  /\ uid'[m] > folder_state'[f].last_uid
             /\ \A v \in Worker : FolderOf[v] = f => Remembers(v, m)'
  <2>1. Waits(m) /\ uid'[m] = uid[m]
    BY <1>1, WaitsBeforePoll
  <2>2. /\ uid[m] > folder_state[f].last_uid
        /\ \A v \in Worker : FolderOf[v] = f => Remembers(v, m)
    BY <2>1 DEF SkipInv
  <2>3. uid'[m] > folder_state'[f].last_uid
    <3>1. CASE FolderOf[w] = f
      BY <1>1, <2>1, <2>2, <3>1, CursorPassesNone
    <3>2. CASE FolderOf[w] # f
      BY <1>0, <1>1, <2>1, <2>2, <3>2, OnlyItsOwn
    <3> QED BY <3>1, <3>2
  <2>4. ASSUME NEW v \in Worker, FolderOf[v] = f PROVE Remembers(v, m)'
    <3>1. CASE v = w
      BY <1>1, <2>1, <2>2, <2>4, <3>1, PollRemembers
    <3>2. CASE v # w
      <4>1. pc'[v] = pc[v] /\ job'[v] = job[v]
        BY <1>0, <1>1, <3>2, OnlyItsOwn
      <4> QED BY <2>1, <2>2, <2>4, <4>1 DEF Remembers
    <3> QED BY <3>1, <3>2
  <2> QED BY <2>3, <2>4
<1>2. CASE Environment
  <2>1. SameCursor(f) /\ UNCHANGED <<pc, job>>
    BY <1>0, <1>2, EnvironmentKeepsCursor
  <2>2. CASE Waits(m) /\ uid'[m] = uid[m]
    BY <2>1, <2>2 DEF SkipInv, SameCursor, Remembers
  <2>3. CASE Original(f) /\ uid'[m] = uidnext[f]
    <3>1. uid'[m] > folder_state'[f].last_uid
      <4>1. folder_state[f].last_uid \in Nat /\ uidnext[f] \in Nat
        BY <1>0 DEF TypeOK, FolderState
      <4> QED BY <1>0, <2>1, <2>3, <4>1 DEF OrderInv, FolderInOrder, SameCursor
    <3>2. ASSUME NEW w \in Worker, FolderOf[w] = f PROVE Remembers(w, m)'
      <4>1. PollInOrder(w) /\ job[w] \in Job /\ uidnext[f] \in Nat
        BY <1>0 DEF OrderInv, TypeOK
      <4>2. /\ job[w].state.last_uid \in Nat /\ job[w].top \in Nat /\ job[w].cur \in Nat
            /\ \A u \in job[w].todo : u \in Nat
        BY <4>1 DEF Job, FolderState, Uid
      <4> QED BY <2>1, <2>3, <3>2, <4>1, <4>2
              DEF PollInOrder, Remembers, Handling, Holding
    <3> QED BY <3>1, <3>2
  <2> QED BY <1>2, <2>2, <2>3, WaitsBeforeOthers
<1>3. CASE UNCHANGED vars
  <2>1. Waits(m)
    BY <1>3 DEF vars, Waits, Original, Accounted, DeliveredMail, Delivered, Queued
  <2> QED BY <1>3, <2>1 DEF vars, SkipInv, Remembers
<1> QED BY <1>1, <1>2, <1>3 DEF Next

\* The cursor, _sync_folder's search and its retry queue: a message that arrives
\* after the set-up, in a mailbox that is not rebuilt, is never lost behind the
\* cursor, however many pollers work on its folder and wherever they fail.
THEOREM NothingIsSkipped == Spec => []NothingSkipped
<1>1. Init => OrderInv /\ SkipInv
  BY OrderInit, SkipInit
<1>2. IInv /\ (OrderInv /\ SkipInv) /\ [Next]_vars => (OrderInv /\ SkipInv)'
  BY OrderStep, SkipStep
<1>3. IInv /\ SkipInv => NothingSkipped
  <2> SUFFICES ASSUME IInv, SkipInv, NEW m \in fresh, HomeOf[m] \notin LegacyFolders,
                      uidvalidity[HomeOf[m]] = 1, where[m] = "here",
                      uid[m] <= folder_state[HomeOf[m]].last_uid
               PROVE  DeliveredMail(m) \/ Queued(HomeOf[m], uid[m]) \/ m \in Oversize
    BY DEF NothingSkipped
  <2>1. /\ m \in Mail /\ uid[m] \in Nat /\ HomeOf[m] \in Folder
        /\ folder_state[HomeOf[m]].last_uid \in Nat
    BY ConstantsAssumption DEF IInv, TypeOK, FolderState, Uid
  <2>2. ~Waits(m)
    BY <2>1 DEF SkipInv
  <2> QED BY <2>2 DEF Waits, Original, Accounted
<1> QED BY <1>1, <1>2, <1>3, Invariant, PTL DEF Spec

-----------------------------------------------------------------------------
(***************************************************************************)
(* Older mail is left alone.                                               *)
(***************************************************************************)
\* The messages OldMailUntouched is about.
Old(m) == m \in Initial \ fresh /\ Original(HomeOf[m]) /\ ~AskedFor(m)

\* A row of folder_state that spares the message: it is at or below the cursor,
\* and not above the floor of the sweep unless SEARCH SINCE leaves it out.
Spares(state, m) ==
    /\ state.known => uid[m] <= state.last_uid
    /\ state.watch_from_uid # NoFloor => m \in Early \/ uid[m] <= state.watch_from_uid

\* A poll that passes it by.
Passes(w, m) ==
    /\ pc[w] \in Holding => job[w].hand # m
    /\ pc[w] # "idle" /\ where[m] = "here" =>
         /\ Spares(job[w].state, m)
         /\ uid[m] <= job[w].top
         /\ uid[m] \notin job[w].todo
         /\ ~job[w].retrying /\ pc[w] \in Handling \cup {"new"} =>
               \A u \in job[w].todo : u > uid[m]
         /\ ~job[w].retrying /\ pc[w] \in Handling => job[w].cur > uid[m]

Unharmed(m) == LeftAlone(m) /\ (m \in flagged => m \in user_flagged)

OldInv == \A m \in Mail : Old(m) =>
    /\ Unharmed(m)
    /\ where[m] = "here" =>
         Spares(folder_state[HomeOf[m]], m) /\ ~Queued(HomeOf[m], uid[m])
    /\ \A w \in Worker : FolderOf[w] = HomeOf[m] => Passes(w, m)

\* The service starts with cursors past the mail that is there.
LEMMA OldInit == Init => OldInv
<1> SUFFICES ASSUME Init, NEW m \in Mail, Old(m)
             PROVE  /\ Unharmed(m)
                    /\ Spares(folder_state[HomeOf[m]], m) /\ ~Queued(HomeOf[m], uid[m])
                    /\ \A w \in Worker : Passes(w, m)
  BY DEF OldInv
<1> DEFINE f == HomeOf[m]
<1>0. /\ TypeOK /\ f \in Folder /\ m \in Initial /\ m \notin fresh
      /\ where[m] = "here" /\ uid[m] \in Uid
  BY InitType, ConstantsAssumption DEF Old, Init, TypeOK
<1>1. PICK old \in SUBSET LegacyFolders, first \in [Folder -> 1..MaxUid + 1],
           last \in [Folder -> 0..MaxUid] :
         /\ \A g \in Folder :
              IF g \in old
              THEN /\ first[g] - 1 <= last[g] /\ last[g] < uidnext[g]
                   /\ \A n \in Early : HomeOf[n] = g => uid[n] < first[g]
              ELSE first[g] = MaxUid + 1 /\ last[g] = 0
         /\ fresh = {n \in Initial : uid[n] >= first[HomeOf[n]]}
         /\ folder_state = [g \in Folder |->
               IF g \in old
               THEN [known |-> TRUE, uidvalidity |-> 1, last_uid |-> last[g],
                     watch_from_uid |-> NoFloor, sweep_due |-> TRUE]
               ELSE NoState]
  BY Zenon DEF Init
<1>2. Unharmed(m)
  BY <1>0 DEF Init, Unharmed, LeftAlone
<1>3. Spares(folder_state[f], m)
  <2>1. CASE f \in old
    <3>1. uid[m] < first[f] /\ uid[m] \in Nat /\ first[f] \in Nat /\ last[f] \in Nat
      BY <1>0, <1>1, ConstantsAssumption DEF Uid
    <3> QED BY <1>0, <1>1, <2>1, <3>1 DEF Spares
  <2>2. CASE f \notin old
    BY <1>0, <1>1, <2>2 DEF Spares, NoState
  <2> QED BY <2>1, <2>2
<1>4. ~Queued(f, uid[m])
  BY <1>0 DEF Init, Queued, NoEntry
<1>5. \A w \in Worker : Passes(w, m)
  BY DEF Init, Passes, Holding
<1> QED BY <1>2, <1>3, <1>4, <1>5

\* A poll changes what it read of the row only to derive its floor.
LEMMA StateStays ==
    ASSUME TypeOK, NEW w \in Worker, Poll(w) \/ Fail(w), pc'[w] # "idle"
    PROVE  Starts(w) \/ DeriveFloor(w) \/ job'[w].state = job[w].state
<1>0. job \in [Worker -> Job] /\ job[w] \in Job
  BY DEF TypeOK
<1>1. CASE \/ Sweep(w) \/ SkipSweep(w) \/ EndRetries(w) \/ EndNew(w) \/ Park(w)
           \/ RecordImport(w) \/ RecordFails(w) \/ ClearRetry(w) \/ MarkDeleted(w) \/ Advance(w)
  BY <1>1 DEF Sweep, SkipSweep, EndRetries, EndNew, Park, RecordImport, RecordFails, ClearRetry,
     MarkDeleted, Advance
<1>2. CASE Import(w) \/ ImportRejected(w) \/ CountAttempts(w) \/ Defer(w) \/ Expunge(w)
  BY <1>0, <1>2 DEF Import, ImportRejected, CountAttempts, Defer, Expunge, Job
<1>3. CASE StartRetries(w) \/ Search(w)
  BY <1>3, StartRetriesFrame, SearchFrame
<1>4. CASE SkipOversize(w) \/ TakeDuplicate(w) \/ TakeMessage(w)
  BY <1>4, TakeFrame
<1>5. CASE Finish(w) \/ ImportTransient(w)
  <2>1. ~EndPoll(w)
    BY DEF EndPoll, TypeOK
  <2> QED BY <1>0, <1>5, <2>1 DEF Finish, ImportTransient, Job
<1>6. CASE EndPoll(w)
  BY <1>6 DEF EndPoll, TypeOK
<1> QED BY <1>1, <1>2, <1>3, <1>4, <1>5, <1>6
        DEF Poll, Fail, FetchGone, NothingToCount, Pin, Abort

\* The floor derived from arrival times spares the message.
LEMMA FloorSpares ==
    ASSUME TypeOK, NEW w \in Worker, DeriveFloor(w), NEW m \in Mail, m \notin fresh,
           where[m] = "here", HomeOf[m] = FolderOf[w], Spares(job[w].state, m)
    PROVE  \E floor :
             /\ m \in Early \/ uid[m] <= floor
             /\ job'[w].state = [job[w].state EXCEPT !.watch_from_uid = floor]
             /\ folder_state' = [folder_state EXCEPT ![FolderOf[w]].watch_from_uid = floor]
             /\ pc[w] = "sweep" /\ UNCHANGED <<server, copies, imported, retry_queue, pc>>
<1> DEFINE f == FolderOf[w]
           state == job[w].state
           candidates == ReceivedSince(f, 1, state.last_uid)
           older == {u \in candidates : \E n \in MailAt(f, u) : n \notin fresh}
           floor == IF candidates # {} /\ older = {} THEN Least(candidates) - 1
                                                     ELSE GreatestOr0(older)
<1>0. /\ job \in [Worker -> Job] /\ job[w] \in Job /\ state \in FolderState
      /\ state.last_uid \in 0..MaxUid /\ uid[m] \in Uid /\ MaxUid \in Nat
  BY ConstantsAssumption DEF TypeOK, Job, FolderState
<1>1. /\ job' = [job EXCEPT ![w].state.watch_from_uid = floor]
      /\ folder_state' = [folder_state EXCEPT ![f].watch_from_uid = floor]
      /\ pc[w] = "sweep" /\ UNCHANGED <<server, copies, imported, retry_queue, pc>>
  BY Zenon DEF DeriveFloor
<1>2. ASSUME m \notin Early PROVE uid[m] <= floor
  <2>1. state.known
    BY DEF DeriveFloor, SweepDue
  <2>2. uid[m] \in 1..state.last_uid
    BY <1>0, <2>1 DEF Spares, Uid
  <2>3. m \in MailAt(f, uid[m])
    BY DEF MailAt, Here
  <2>4. uid[m] \in older
    BY <1>2, <2>2, <2>3 DEF ReceivedSince
  <2>5. older \in SUBSET (0..MaxUid)
    BY <1>0 DEF ReceivedSince
  <2>6. floor = GreatestOr0(older)
    BY <2>4
  <2> HIDE DEF floor, older
  <2> QED BY <1>0, <2>4, <2>5, <2>6, GreatestIsGreatest
<1> HIDE DEF floor
<1>3. job'[w].state = [state EXCEPT !.watch_from_uid = floor]
  BY <1>0, <1>1 DEF Job
<1> QED BY <1>1, <1>2, <1>3

\* No poll imports, flags or removes a message it does not handle, unless its owner
\* flagged it.
LEMMA HarmsNone ==
    ASSUME IInv, NEW w \in Worker, Poll(w) \/ Fail(w), NEW m \in Mail, Unharmed(m),
           pc[w] \in Holding => job[w].hand # m
    PROVE  Unharmed(m)'
<1>0. TypeOK /\ HeldBy(w) /\ UNCHANGED user_flagged
  BY OnlyItsOwn DEF IInv, Held
<1>1. copies'[m] = copies[m]
  <2>1. CASE Import(w) \/ ImportTransient(w) \/ ImportRejected(w)
    <3>1. pc[w] = "import" /\ (UNCHANGED copies \/ Store(job[w].hand))
      BY <2>1 DEF Import, ImportTransient, ImportRejected, Goto
    <3> QED BY <1>0, <3>1 DEF Store, TypeOK, Holding
  <2>2. CASE ~(Import(w) \/ ImportTransient(w) \/ ImportRejected(w))
    BY <2>2 DEF Poll, Fail, Starts, Begin, DeriveFloor, Sweep,
       SkipSweep, StartRetries, EndRetries, Search, EndNew, FetchGone, SkipOversize,
       TakeDuplicate, TakeMessage, Park, CountAttempts, NothingToCount, Defer,
       RecordImport, RecordFails, ClearRetry, MarkDeleted, Expunge, Advance,
       Finish, Pin, Abort
  <2> QED BY <2>1, <2>2
<1>2. CASE MarkDeleted(w)
  <2>1. /\ pc[w] = "flag" /\ UNCHANGED where
        /\ flagged' = flagged \cup MailAt(FolderOf[w], job[w].cur)
    BY <1>2 DEF MarkDeleted, Goto
  <2>2. m \notin MailAt(FolderOf[w], job[w].cur)
    BY <1>0, <2>1 DEF HeldBy, Holding
  <2> QED BY <1>0, <1>1, <2>1, <2>2 DEF Unharmed, LeftAlone
<1>3. CASE Expunge(w) \/ Finish(w)
  <2>1. UNCHANGED flagged /\ \E S : UNCHANGED where \/ Remove(flagged \cap S)
    BY <1>3 DEF Expunge, Finish
  <2>2. where'[m] = "expunged" => where[m] = "expunged" \/ m \in flagged
    BY <2>1 DEF Remove
  <2> QED BY <1>0, <1>1, <2>1, <2>2 DEF Unharmed, LeftAlone
<1>4. CASE Abort(w)
  <2>1. UNCHANGED where /\ flagged' \subseteq flagged
    BY <1>4 DEF Abort
  <2> QED BY <1>0, <1>1, <2>1 DEF Unharmed, LeftAlone
<1>5. CASE ~(MarkDeleted(w) \/ Expunge(w) \/ Finish(w) \/ Abort(w))
  <2>1. UNCHANGED <<where, flagged>>
    BY <1>5 DEF Poll, Fail, Starts, Begin, DeriveFloor, Sweep,
       SkipSweep, StartRetries, EndRetries, Search, EndNew, FetchGone, SkipOversize,
       TakeDuplicate, TakeMessage, Import, ImportRejected, Park, CountAttempts,
       NothingToCount, Defer, RecordImport, RecordFails, ClearRetry, Advance, Pin, ImportTransient,
       server
  <2> QED BY <1>0, <1>1, <2>1 DEF Unharmed, LeftAlone
<1> QED BY <1>2, <1>3, <1>4, <1>5

\* The row a poll writes spares what the poll passes by ...
LEMMA RowSpares ==
    ASSUME IInv, OrderInv, NEW w \in Worker, Poll(w) \/ Fail(w), NEW m \in Mail, Old(m),
           where[m] = "here", HomeOf[m] = FolderOf[w], Passes(w, m),
           Spares(folder_state[HomeOf[m]], m)
    PROVE  Spares(folder_state'[HomeOf[m]], m)
<1> DEFINE f == HomeOf[m]
<1>0. /\ TypeOK /\ Phase(w) /\ f \in Folder /\ m \notin fresh
      /\ folder_state \in [Folder -> FolderState] /\ folder_state[f] \in FolderState
      /\ uid[m] \in Nat /\ job[w].cur \in Nat /\ job[w].top \in Nat
      /\ job[w].state.last_uid \in Nat
  <2>1. TypeOK /\ Phase(w) /\ f \in Folder /\ m \notin fresh
    BY ConstantsAssumption DEF IInv, OrderInv, Old
  <2>2. /\ job[w] \in Job /\ uid[m] \in Uid /\ MaxUid \in Nat
        /\ folder_state \in [Folder -> FolderState]
    BY <2>1, ConstantsAssumption DEF TypeOK
  <2>3. /\ job[w].cur \in 0..MaxUid /\ job[w].top \in 0..MaxUid
        /\ job[w].state.last_uid \in 0..MaxUid
    BY <2>2 DEF Job, FolderState
  <2> QED BY <2>1, <2>2, <2>3 DEF Uid
<1>1. ASSUME NEW uv, NEW u \in Nat, u >= uid[m], SetFolderState(f, uv, u)
      PROVE  Spares(folder_state'[f], m)
  <2> DEFINE known == [folder_state[f] EXCEPT !.uidvalidity = uv, !.last_uid = u]
             new == [known |-> TRUE, uidvalidity |-> uv, last_uid |-> u,
                     watch_from_uid |-> u, sweep_due |-> TRUE]
  <2>1. folder_state'[f] = IF folder_state[f].known THEN known ELSE new
    BY <1>0, <1>1, Zenon DEF SetFolderState
  <2>2. known.last_uid = u /\ known.watch_from_uid = folder_state[f].watch_from_uid
    BY <1>0 DEF FolderState
  <2>3. new.last_uid = u /\ new.watch_from_uid = u
    OBVIOUS
  <2> HIDE DEF known, new
  <2> QED BY <1>1, <2>1, <2>2, <2>3 DEF Spares
<1>2. CASE Advance(w)
  <2>1. pc[w] = "advance" /\ SetFolderState(f, job[w].uidvalidity, job[w].cur)
    BY <1>2 DEF Advance, Goto
  <2>2. job[w].cur > uid[m]
    BY <1>0, <2>1 DEF Phase, Passes, Handling
  <2> QED BY <1>0, <1>1, <2>1, <2>2
<1>3. CASE Pin(w)
  <2> DEFINE top == IF job[w].state.last_uid > job[w].top
                    THEN job[w].state.last_uid ELSE job[w].top
  <2>1. pc[w] = "pin" /\ SetFolderState(f, job[w].uidvalidity, top)
    BY <1>3 DEF Pin
  <2>2. top \in Nat /\ top >= uid[m]
    BY <1>0, <2>1 DEF Passes
  <2> HIDE DEF top
  <2> QED BY <1>1, <2>1, <2>2
<1>4. CASE DeriveFloor(w)
  <2>1. Spares(job[w].state, m)
    BY <1>4 DEF Passes, DeriveFloor
  <2>2. PICK floor :
          /\ m \in Early \/ uid[m] <= floor
          /\ job'[w].state = [job[w].state EXCEPT !.watch_from_uid = floor]
          /\ folder_state' = [folder_state EXCEPT ![FolderOf[w]].watch_from_uid = floor]
          /\ pc[w] = "sweep" /\ UNCHANGED <<server, copies, imported, retry_queue, pc>>
    <3>1. TypeOK /\ m \notin fresh
      BY <1>0
    <3> QED BY <1>4, <2>1, <3>1, FloorSpares
  <2>3. /\ folder_state'[f].known = folder_state[f].known
        /\ folder_state'[f].last_uid = folder_state[f].last_uid
        /\ folder_state'[f].watch_from_uid = floor
    BY <1>0, <2>2 DEF FolderState
  <2> QED BY <2>2, <2>3 DEF Spares
<1>5. CASE Sweep(w)
  <2>1. folder_state' = [folder_state EXCEPT ![f].sweep_due = FALSE]
    BY <1>5 DEF Sweep
  <2>2. /\ folder_state'[f].known = folder_state[f].known
        /\ folder_state'[f].last_uid = folder_state[f].last_uid
        /\ folder_state'[f].watch_from_uid = folder_state[f].watch_from_uid
    BY <1>0, <2>1 DEF FolderState
  <2> QED BY <2>2 DEF Spares
<1>6. CASE ~(Advance(w) \/ Pin(w) \/ DeriveFloor(w) \/ Sweep(w))
  <2>1. UNCHANGED folder_state
    BY <1>6 DEF Poll, Fail, Starts, Begin, SkipSweep, StartRetries, EndRetries, Search,
       EndNew, FetchGone, SkipOversize, TakeDuplicate, TakeMessage, Import,
       ImportRejected, Park, CountAttempts, NothingToCount, Defer, RecordImport, RecordFails,
       ClearRetry, MarkDeleted, Expunge, Finish, ImportTransient, Abort, db
  <2> QED BY <2>1
<1> QED BY <1>2, <1>3, <1>4, <1>5, <1>6

\* ... and so does its queue: neither the sweep nor a failure adds the message.
LEMMA QueueSpares ==
    ASSUME IInv, NEW w \in Worker, Poll(w) \/ Fail(w), NEW m \in Mail,
           where[m] = "here", HomeOf[m] = FolderOf[w], Passes(w, m),
           ~Queued(HomeOf[m], uid[m])
    PROVE  retry_queue'[HomeOf[m]][uid[m]].next = "none"
<1> DEFINE f == HomeOf[m]
<1>0. /\ TypeOK /\ Held /\ HeldBy(w) /\ UidsUnique /\ uid[m] \in Uid
      /\ m \in MailAt(f, uid[m]) /\ job[w] \in Job
  BY DEF IInv, Held, TypeOK, MailAt, Here
<1>1. PICK u \in Uid : u = uid[m]
  BY <1>0
<1>2. ~(Park(w) /\ u = job[w].cur)
  BY <1>0, <1>1 DEF Park, Goto, Passes, HeldBy, Holding
<1>3. ASSUME Sweep(w), u \in ReceivedSince(f, job[w].state.watch_from_uid + 1,
                                           job[w].state.last_uid)
      PROVE  FALSE
  <2>1. PICK n \in MailAt(f, u) : n \notin Early
    BY <1>3 DEF ReceivedSince
  <2>2. n = m
    BY <1>0, <1>1, <2>1 DEF UidsUnique, MailAt, Here
  <2>3. Spares(job[w].state, m) /\ job[w].state.watch_from_uid # NoFloor
    BY <1>3 DEF Sweep, Goto, Passes
  <2>4. job[w].state.watch_from_uid \in Nat
    BY <1>0, <2>3 DEF Job, FolderState
  <2> QED BY <1>1, <1>3, <2>1, <2>2, <2>3, <2>4 DEF Spares, ReceivedSince, Uid
<1>4. ~QueuedBy(w, u)
  BY <1>2, <1>3 DEF QueuedBy
<1> QED BY <1>0, <1>1, <1>4, RowMoves DEF Queued

\* A poll that passes a message by goes on doing so.
LEMMA PollPasses ==
    ASSUME IInv, OrderInv, NEW w \in Worker, Poll(w) \/ Fail(w), NEW m \in Mail, Old(m),
           HomeOf[m] = FolderOf[w], Passes(w, m),
           where[m] = "here" =>
               Spares(folder_state[HomeOf[m]], m) /\ ~Queued(HomeOf[m], uid[m])
    PROVE  Passes(w, m)'
<1> DEFINE f == FolderOf[w]
<1>0. /\ TypeOK /\ Phase(w) /\ PollInOrder(w) /\ UidsUnique /\ f \in Folder
      /\ m \notin fresh /\ f \notin BackfillFolders /\ Original(f)
      /\ UNCHANGED uid /\ Shrinks /\ uid[m] \in Nat
  <2>1. TypeOK /\ f \in Folder
    BY ConstantsAssumption DEF IInv
  <2>2. uid[m] \in Nat
    BY <2>1 DEF TypeOK
  <2> QED BY <2>1, <2>2, OnlyItsOwn, PollShrinks DEF IInv, OrderInv, Old, AskedFor
<1>1. CASE Starts(w)
  <2>1. /\ job'[w].state = folder_state[f] /\ job'[w].top = uidnext[f] - 1
        /\ job'[w].todo = {} /\ pc'[w] = "sweep"
    BY <1>0, <1>1, StartsFrame
  <2>2. where[m] = "here" => uid[m] <= job'[w].top
    <3>1. uidnext[f] \in Nat
      BY <1>0 DEF TypeOK
    <3> QED BY <1>0, <2>1, <3>1 DEF UidsUnique
  <2> QED BY <1>0, <2>1, <2>2 DEF Passes, Spares, Shrinks, Handling, Holding
<1>2. CASE DeriveFloor(w)
  <2>1. pc[w] = "sweep" /\ pc'[w] = "sweep" /\ UNCHANGED where
    BY <1>2 DEF DeriveFloor, server
  <2>2. SameWork(w)
    BY <1>0, <1>2, ProgressKeepsWork DEF Progress
  <2>3. ASSUME where[m] = "here" PROVE Spares(job[w].state, m)'
    <3>1. Spares(job[w].state, m)
      BY <2>1, <2>3 DEF Passes
    <3>2. PICK floor :
            /\ m \in Early \/ uid[m] <= floor
            /\ job'[w].state = [job[w].state EXCEPT !.watch_from_uid = floor]
            /\ folder_state' = [folder_state EXCEPT ![FolderOf[w]].watch_from_uid = floor]
            /\ pc[w] = "sweep" /\ UNCHANGED <<server, copies, imported, retry_queue, pc>>
      <4>1. TypeOK /\ m \notin fresh
        BY <1>0
      <4> QED BY <1>2, <2>3, <3>1, <4>1, FloorSpares
    <3>3. job[w].state \in FolderState
      BY <1>0 DEF TypeOK, Job
    <3>4. /\ job'[w].state.known = job[w].state.known
          /\ job'[w].state.last_uid = job[w].state.last_uid
          /\ job'[w].state.watch_from_uid = floor
      BY <3>2, <3>3 DEF FolderState
    <3> QED BY <1>0, <3>1, <3>2, <3>4 DEF Spares
  <2> QED BY <1>0, <2>1, <2>2, <2>3 DEF SameWork, Passes, Handling, Holding
<1>3. CASE StartRetries(w)
  <2>1. /\ job'[w].todo = {u \in DueRetries(f) : MailAt(f, u) # {}}
        /\ job'[w].retrying
        /\ job'[w].top = job[w].top /\ job'[w].state = job[w].state
        /\ pc[w] = "due" /\ pc'[w] = "retry"
    BY <1>0, <1>3, StartRetriesFrame
  <2>2. where[m] = "here" => uid[m] \notin job'[w].todo
    BY <2>1 DEF DueRetries, Queued
  <2> QED BY <1>0, <2>1, <2>2 DEF Passes, Spares, Shrinks, Handling, Holding
<1>4. CASE Search(w)
  <2>1. /\ job'[w].todo \in NewUids(w)
        /\ job'[w].top = job[w].top /\ job'[w].state = job[w].state
        /\ pc[w] = "search" /\ pc'[w] = "new"
    BY <1>0, <1>4, SearchFrame
  <2>2. job[w].state.known => job[w].state.uidvalidity = job[w].uidvalidity
    BY <1>0, <2>1 DEF OrderInv, PollInOrder, Original, Validity
  <2>3. job'[w].todo = IF job[w].state.known
                       THEN {u \in UidsOf(Here(f)) : u > job[w].state.last_uid} ELSE {}
    BY <1>0, <2>1, <2>2 DEF NewUids
  <2>4. where[m] = "here" => /\ uid[m] \notin job'[w].todo
                             /\ \A u \in job'[w].todo : u > uid[m]
    <3>1. SUFFICES ASSUME where[m] = "here", NEW u \in job'[w].todo PROVE u > uid[m]
      BY <1>0
    <3>2. job[w].state.known /\ u > job[w].state.last_uid /\ u \in UidsOf(Here(f))
      BY <2>3
    <3>3. uid[m] <= job[w].state.last_uid
      BY <2>1, <3>1, <3>2 DEF Passes, Spares
    <3>4. u \in Nat /\ job[w].state.last_uid \in Nat
      BY <1>0, <3>2 DEF TypeOK, Job, FolderState, UidsOf, Here
    <3> QED BY <1>0, <3>2, <3>3, <3>4
  <2> QED BY <1>0, <2>1, <2>4 DEF Passes, Spares, Shrinks, Handling, Holding
<1>5. CASE SkipOversize(w) \/ TakeDuplicate(w) \/ TakeMessage(w)
  <2>1. PICK n \in Mail :
             /\ n \in MailAt(f, uid[n]) /\ uid[n] \in job[w].todo
             /\ job'[w].hand = n /\ job'[w].cur = uid[n]
             /\ job'[w].todo = job[w].todo \ {uid[n]}
             /\ job'[w].top = job[w].top /\ job'[w].state = job[w].state
             /\ job'[w].retrying = job[w].retrying
             /\ pc[w] \in {"retry", "new"}
             /\ pc'[w] \in Handling
    <3>1. TypeOK
      BY <1>0
    <3> QED BY <1>5, <3>1, TakeFrame DEF Handling, Holding
  <2>2. n # m
    BY <2>1 DEF Passes, MailAt, Here
  <2>3. ~job[w].retrying => pc[w] = "new"
    BY <1>0, <2>1 DEF Phase
  <2> QED BY <1>0, <2>1, <2>2, <2>3 DEF Passes, Spares, Shrinks
<1>6. CASE /\ SameWork(w) /\ job'[w].state = job[w].state /\ pc[w] # "idle"
           /\ pc'[w] \in Holding => pc[w] \in Holding
           /\ pc'[w] \in Handling => pc[w] \in Handling
           /\ pc'[w] = "new" => pc[w] \in Handling \cup {"new"}
  BY <1>0, <1>6 DEF SameWork, Passes, Spares, Shrinks
<1>7. CASE pc'[w] = "idle"
  BY <1>7 DEF Passes, Holding
<1>8. ASSUME pc'[w] # "idle",
             ~(\/ Starts(w) \/ DeriveFloor(w) \/ StartRetries(w) \/ Search(w)
               \/ SkipOversize(w) \/ TakeDuplicate(w) \/ TakeMessage(w))
      PROVE  /\ SameWork(w) /\ job'[w].state = job[w].state /\ pc[w] # "idle"
             /\ pc'[w] \in Holding => pc[w] \in Holding
             /\ pc'[w] \in Handling => pc[w] \in Handling
             /\ pc'[w] = "new" => pc[w] \in Handling \cup {"new"}
  <2>1. job'[w].state = job[w].state
    BY <1>0, <1>8, StateStays
  <2>2. CASE Progress(w)
    BY <1>0, <2>1, <2>2, ProgressLeads, ProgressKeepsWork DEF AfterMessage, Handling, Holding
  <2>3. CASE Finish(w) /\ SameWork(w) /\ pc'[w] = "pin"
    BY <2>1, <2>3 DEF Finish, Handling, Holding
  <2>4. CASE ImportTransient(w) /\ SameWork(w) /\ UNCHANGED pc
    BY <2>1, <2>4 DEF ImportTransient, Handling, Holding
  <2> QED BY <1>0, <1>8, <2>2, <2>3, <2>4, OtherSteps
<1> QED BY <1>1, <1>2, <1>3, <1>4, <1>5, <1>6, <1>7, <1>8

\* Nobody else puts older mail in danger.
LEMMA OthersSpare ==
    ASSUME IInv, OrderInv, Environment, NEW m \in Mail, Old(m), Old(m)', Unharmed(m),
           where[m] = "here" =>
               Spares(folder_state[HomeOf[m]], m) /\ ~Queued(HomeOf[m], uid[m])
    PROVE  /\ Unharmed(m)' /\ uid'[m] = uid[m] /\ UNCHANGED <<pc, job>>
           /\ where'[m] = "here" =>
               /\ where[m] = "here"
               /\ Spares(folder_state'[HomeOf[m]], m)
               /\ retry_queue'[HomeOf[m]][uid[m]].next = "none"
<1> DEFINE f == HomeOf[m]
<1>0. /\ TypeOK /\ Validity /\ f \in Folder /\ m \in Initial /\ where[m] # "pending"
      /\ Original(f)' /\ uid[m] \notin Manual
  BY ConstantsAssumption DEF IInv, OrderInv, MailInOrder, Old, AskedFor
<1>1. /\ UNCHANGED <<copies, pc, job>>
      /\ where'[m] = where[m] \/ (where[m] = "here" /\ where'[m] = "deleted")
      /\ uid'[m] = uid[m]
  BY <1>0, OthersMail
<1>2. m \in flagged' => m \in user_flagged' \/ m \in flagged
  BY DEF Environment, Arrive, UserDeletes, UserFlags, Rebuild, SweepInterval, Requeue,
     RetryDelay, HandQueue, server
<1>3. m \in user_flagged => m \in user_flagged'
  BY DEF Environment, Arrive, UserDeletes, UserFlags, Rebuild, SweepInterval, Requeue,
     RetryDelay, HandQueue, server
<1>4. Unharmed(m)'
  BY <1>1, <1>2, <1>3 DEF Unharmed, LeftAlone
<1>5. ASSUME Spares(folder_state[f], m) PROVE Spares(folder_state'[f], m)
  <2>1. ASSUME NEW g \in Folder, SweepInterval(g)
        PROVE  folder_state'[f].watch_from_uid = folder_state[f].watch_from_uid
    <3>1. folder_state \in [Folder -> FolderState] /\ folder_state[f] \in FolderState
      BY <1>0 DEF TypeOK
    <3> QED BY <2>1, <3>1 DEF SweepInterval, FolderState
  <2>2. ASSUME ~\E g \in Folder : SweepInterval(g)
        PROVE  folder_state'[f].watch_from_uid = folder_state[f].watch_from_uid
    BY <2>2 DEF Environment, Arrive, UserDeletes, UserFlags, Rebuild, Requeue,
       RetryDelay, HandQueue, db
  <2>3. SameCursor(f)
    BY <1>0, EnvironmentKeepsCursor
  <2> QED BY <1>5, <2>1, <2>2, <2>3 DEF SameCursor, Spares
<1>6. ASSUME where[m] = "here" PROVE retry_queue'[f][uid[m]].next = "none"
  <2>1. PICK u \in Uid : u = uid[m]
    BY <1>0, <1>6 DEF TypeOK
  <2>2. ~Queued(f, u) /\ ~HandQueue(f, u)
    BY <1>0, <1>6, <2>1 DEF HandQueue
  <2> QED BY <1>0, <2>1, <2>2, EnvironmentRows DEF Queued
<1> QED BY <1>1, <1>4, <1>5, <1>6

\* What is older now was so before.
LEMMA OldBefore ==
    ASSUME IInv, OrderInv, [Next]_vars, NEW m \in Mail, Old(m)'
    PROVE  Old(m) /\ uid'[m] = uid[m]
<1>0. /\ TypeOK /\ Validity /\ m \in Initial /\ where[m] # "pending"
      /\ HomeOf[m] \in Folder
  BY ConstantsAssumption DEF IInv, OrderInv, MailInOrder, Old
<1>1. ASSUME NEW w \in Worker, Poll(w) \/ Fail(w) PROVE Old(m) /\ uid'[m] = uid[m]
  BY <1>0, <1>1, OnlyItsOwn DEF Old, Original, AskedFor
<1>2. CASE Environment
  <2>1. Original(HomeOf[m]) /\ uid'[m] = uid[m] /\ (m \in fresh' <=> m \in fresh)
    BY <1>0, <1>2, OthersMail DEF Old
  <2> QED BY <1>0, <2>1 DEF Old, AskedFor
<1>3. CASE UNCHANGED vars
  BY <1>3 DEF vars, Old, Original, AskedFor
<1> QED BY <1>1, <1>2, <1>3 DEF Next

\* The invariant is inductive, for any number of pollers.
LEMMA OldStep ==
    ASSUME IInv, OrderInv, OldInv, [Next]_vars
    PROVE  OldInv'
<1> SUFFICES ASSUME NEW m \in Mail, Old(m)'
             PROVE  /\ Unharmed(m)'
                    /\ where'[m] = "here" =>
                         Spares(folder_state[HomeOf[m]], m)' /\ ~Queued(HomeOf[m], uid[m])'
                    /\ \A w \in Worker : FolderOf[w] = HomeOf[m] => Passes(w, m)'
  BY DEF OldInv
<1> DEFINE f == HomeOf[m]
<1>0. TypeOK /\ Held /\ f \in Folder
  BY ConstantsAssumption DEF IInv
<1>1. Old(m) /\ uid'[m] = uid[m]
  BY OldBefore
<1>2. /\ Unharmed(m)
      /\ where[m] = "here" => Spares(folder_state[f], m) /\ ~Queued(f, uid[m])
      /\ \A w \in Worker : FolderOf[w] = f => Passes(w, m)
  BY <1>1 DEF OldInv
<1>3. ASSUME NEW w \in Worker, Poll(w) \/ Fail(w)
      PROVE  /\ Unharmed(m)'
             /\ where'[m] = "here" =>
                  Spares(folder_state[f], m)' /\ ~Queued(f, uid[m])'
             /\ \A v \in Worker : FolderOf[v] = f => Passes(v, m)'
  <2>0. where'[m] = "here" => where[m] = "here"
    BY <1>3, PollShrinks DEF Shrinks
  <2>1. Unharmed(m)'
    <3>1. pc[w] \in Holding => job[w].hand # m
      BY <1>0, <1>2 DEF Held, HeldBy, Passes
    <3> QED BY <1>2, <1>3, <3>1, HarmsNone
  <2>2. ASSUME where'[m] = "here"
        PROVE  Spares(folder_state'[f], m) /\ retry_queue'[f][uid[m]].next = "none"
    <3>1. CASE FolderOf[w] = f
      BY <1>1, <1>2, <1>3, <2>0, <2>2, <3>1, RowSpares, QueueSpares
    <3>2. CASE FolderOf[w] # f
      <4>1. folder_state'[f] = folder_state[f] /\ retry_queue'[f] = retry_queue[f]
        BY <1>0, <1>3, <3>2, OnlyItsOwn
      <4> QED BY <1>2, <2>0, <2>2, <4>1 DEF Queued
    <3> QED BY <3>1, <3>2
  <2>3. ASSUME NEW v \in Worker, FolderOf[v] = f PROVE Passes(v, m)'
    <3>1. CASE v = w
      BY <1>1, <1>2, <1>3, <2>3, <3>1, PollPasses
    <3>2. CASE v # w
      <4>1. pc'[v] = pc[v] /\ job'[v] = job[v]
        BY <1>0, <1>3, <3>2, OnlyItsOwn
      <4> QED BY <1>1, <1>2, <2>0, <2>3, <4>1 DEF Passes, Spares
    <3> QED BY <3>1, <3>2
  <2> QED BY <1>1, <2>1, <2>2, <2>3 DEF Spares, Queued
<1>4. CASE Environment
  <2>1. /\ Unharmed(m)' /\ UNCHANGED <<pc, job>>
        /\ where'[m] = "here" =>
             /\ where[m] = "here"
             /\ Spares(folder_state'[f], m)
             /\ retry_queue'[f][uid[m]].next = "none"
    BY <1>1, <1>2, <1>4, OthersSpare
  <2> QED BY <1>1, <1>2, <2>1 DEF Passes, Spares, Queued
<1>5. CASE UNCHANGED vars
  BY <1>2, <1>5 DEF vars, Unharmed, LeftAlone, Spares, Queued, Passes
<1> QED BY <1>3, <1>4, <1>5 DEF Next

\* _sync_folder's cursor, derive_watch_floor and the sweep: in a mailbox that is not
\* rebuilt, mail from before the set-up is neither imported nor removed, unless a
\* backfill or an administrator asked for it, for any number of pollers.
THEOREM OldMailIsLeftAlone == Spec => []OldMailUntouched
<1>1. Init => OrderInv /\ OldInv
  BY OrderInit, OldInit
<1>2. IInv /\ (OrderInv /\ OldInv) /\ [Next]_vars => (OrderInv /\ OldInv)'
  BY OrderStep, OldStep
<1>3. OldInv => OldMailUntouched
  BY ConstantsAssumption DEF OldInv, OldMailUntouched, Old, Original, Unharmed
<1> QED BY <1>1, <1>2, <1>3, Invariant, PTL DEF Spec
-----------------------------------------------------------------------------
(***************************************************************************)
(* What the runs `pin' and `rescan' refute holds while no mailbox is       *)
(* rebuilt: the rebuild is all that breaks it.                             *)
(***************************************************************************)
NoneRebuilt == \A f \in Folder : Original(f)

\* sync.py:209: where no mailbox is rebuilt, a cursor never points past the UIDs
\* its mailbox has handed out.
THEOREM CursorStaysWithin == Spec /\ []NoneRebuilt => []CursorWithinFolder
<1>1. Init => OrderInv
  BY OrderInit
<1>2. IInv /\ OrderInv /\ [Next]_vars => OrderInv'
  BY OrderStep
<1>3. OrderInv /\ NoneRebuilt => CursorWithinFolder
  BY DEF OrderInv, NoneRebuilt, FolderInOrder, CursorWithinFolder
<1> QED BY <1>1, <1>2, <1>3, Invariant, PTL DEF Spec

\* README "Self-healing": where no mailbox is rebuilt, older mail is never touched.
THEOREM OlderMailStays == Spec /\ []NoneRebuilt => []OlderMailNeverTouched
<1>1. OldMailUntouched /\ NoneRebuilt => OlderMailNeverTouched
  BY ConstantsAssumption
     DEF OldMailUntouched, NoneRebuilt, Original, OlderMailNeverTouched
<1> QED BY <1>1, OldMailIsLeftAlone, PTL
=============================================================================
