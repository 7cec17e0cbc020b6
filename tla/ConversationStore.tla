-------------------------- MODULE ConversationStore --------------------------
(***************************************************************************)
(* The store that keeps a Cursor conversation across the turns of a Claude *)
(* session (src/src/providers/cursor/conversation.rs): a map of bindings,  *)
(* pins held by live drivers, and one snapshot file per session.           *)
(*                                                                         *)
(* An action is one hold of the STORE mutex, or one file operation under   *)
(* PERSIST_WRITE_LOCK; a snapshot is taken, written and answered in three  *)
(* steps, with the map free to change between them.  A caller is a request *)
(* that builds a continuation, pins it and drives a Run, or an error path  *)
(* that resets a binding or clears its checkpoint.                         *)
(*                                                                         *)
(* Left out: corrupt and oversized files, the values of blobs (a blob is   *)
(* its content address), and get, save_checkpoint and merge_blobs, which   *)
(* only tests call.  A call reads its clock when it is entered, before the *)
(* locks: by the time it holds them others may have come with a later one. *)
(***************************************************************************)
EXTENDS Integers, Sequences, FiniteSets

CONSTANTS
  Sessions,         \* session keys
  Callers,          \* requests and error paths
  Blobs,            \* content addresses of KV blobs
  NoEntry,          \* no binding, no file
  Nobody,           \* PERSIST_WRITE_LOCK is free
  IdleTTL,          \* IDLE_TTL_MS
  MaxConversations, \* MAX_CONVERSATIONS
  SoftMaxBlobs,     \* CURSOR_KV_SOFT_MAX_BLOBS
  DiskFaults,       \* may a write fail?
  MaxIds,           \* bound on fresh conversation ids
  MaxSaves,         \* bound on checkpoints
  MaxTime,          \* bound on the clock
  MaxRestarts       \* bound on process restarts

ASSUME ConversationStoreAssumption ==
  /\ IsFiniteSet(Sessions) /\ IsFiniteSet(Callers) /\ IsFiniteSet(Blobs)
  /\ Nobody \notin Callers
  /\ {IdleTTL, MaxIds, MaxSaves, MaxTime, MaxRestarts} \subseteq Nat
  /\ {MaxConversations, SoftMaxBlobs} \subseteq Nat \ {0}
  /\ DiskFaults \in BOOLEAN

VARIABLES
  map,      \* Store.map: session -> its binding
  order,    \* Store.order: sessions, oldest first
  pins,     \* Store.pins: session -> number of leases
  pending,  \* PENDING_PERSIST_DELETES
  lock,     \* holder of PERSIST_WRITE_LOCK
  disk,     \* session -> its snapshot file
  now,      \* now_millis()
  nextId,   \* conversation ids handed out so far
  nextSave, \* checkpoints Cursor sent so far
  restarts, \* process restarts so far
  caller,   \* what each caller is doing
  saved,    \* history: session -> the checkpoint its driver was told is Saved
  rebound,  \* history: ids a reset replaced
  expired   \* history: ids that were dropped after the idle TTL

store == <<map, order, pins, pending>>
history == <<saved, rebound, expired>>
vars == <<store, lock, disk, now, nextId, nextSave, restarts, caller, history>>

Ids == 1..MaxIds

\* A checkpoint carries the binding of the Run that received it.
NoCheckpoint == [of |-> 0, n |-> 0]
Checkpoint == {NoCheckpoint} \cup [of: Ids, n: 1..MaxSaves]

Entry == [id: Ids, checkpoint: Checkpoint, blobs: SUBSET Blobs, seen: 0..MaxTime]

ASSUME NoEntryAssumption == NoEntry \notin Entry

\* PendingPersistDelete; id 0 is an expired file that had no owner in memory.
Delete == [session: Sessions, id: 0..MaxIds]

Fresh(id, t) == [id |-> id, checkpoint |-> NoCheckpoint, blobs |-> {}, seen |-> t]

Unconditional == {"create", "rotate", "reset", "discard"}
Conditional == {"save", "final", "clear", "merge"}
Saves == {"save", "final"}
Flushes == {"start", "found"}
Places == {"idle", "flush", "flushing", "lookup", "normalize", "reread",
           "pin", "driving", "ending", "merging", "leaving",
           "persist", "locked", "writing", "rollback"}

\* id is the binding the caller expects, checkpoint the last one it stored,
\* previous and added what its write replaced, snap the snapshot it writes,
\* since the clock get_or_create read, or when the last call returned.
Caller == [at: Places, op: Unconditional \cup Conditional \cup Flushes \cup {"none"},
           session: Sessions \cup {NoEntry}, id: 0..MaxIds, checkpoint: Checkpoint,
           previous: Checkpoint, added: SUBSET Blobs, snap: Entry \cup {NoEntry},
           todo: SUBSET Delete, again: BOOLEAN, leased: BOOLEAN, since: 0..MaxTime]

Idle(t) == [at |-> "idle", op |-> "none", session |-> NoEntry, id |-> 0,
            checkpoint |-> NoCheckpoint, previous |-> NoCheckpoint, added |-> {},
            snap |-> NoEntry, todo |-> {}, again |-> FALSE, leased |-> FALSE, since |-> t]

TypeOK ==
  /\ map \in [Sessions -> Entry \cup {NoEntry}]
  /\ order \in Seq(Sessions)
  /\ pins \in [Sessions -> 0..Cardinality(Callers)]
  /\ pending \subseteq Delete
  /\ lock \in Callers \cup {Nobody}
  /\ disk \in [Sessions -> Entry \cup {NoEntry}]
  /\ now \in 0..MaxTime
  /\ nextId \in 0..MaxIds
  /\ nextSave \in 0..MaxSaves
  /\ restarts \in 0..MaxRestarts
  /\ caller \in [Callers -> Caller]
  /\ saved \in [Sessions -> Checkpoint]
  /\ rebound \subseteq Ids
  /\ expired \subseteq Ids

Init ==
  /\ map = [s \in Sessions |-> NoEntry]
  /\ order = <<>>
  /\ pins = [s \in Sessions |-> 0]
  /\ pending = {}
  /\ lock = Nobody
  /\ disk = [s \in Sessions |-> NoEntry]
  /\ now = 0
  /\ nextId = 0
  /\ nextSave = 0
  /\ restarts = 0
  /\ caller = [c \in Callers |-> Idle(0)]
  /\ saved = [s \in Sessions |-> NoCheckpoint]
  /\ rebound = {}
  /\ expired = {}

-----------------------------------------------------------------------------
(* The map.                                                                 *)

Resident(m) == {s \in Sessions : m[s] # NoEntry}
Pinned(s) == pins[s] > 0
IsIdle(entry, t) == t - entry.seen > IdleTTL
\* The sessions of o that are in S, in order.
Kept(o, S) ==
  LET kept[n \in 0..Len(o)] ==
        IF n = 0 THEN <<>>
        ELSE IF o[n] \in S THEN Append(kept[n - 1], o[n]) ELSE kept[n - 1]
  IN kept[Len(o)]

Without(o, S) == Kept(o, Sessions \ S)

\* The capacity loop of touch_and_evict pops sessions from the front until
\* the map fits: unpinned ones are evicted, pinned ones go to the back.  It
\* pops once more while fewer have been evicted than the map is over its limit.
Excess(m) == Cardinality(Resident(m)) - MaxConversations
Popped(m, o) ==
  Cardinality({j \in 1..Len(o) : Cardinality({i \in 1..(j - 1) : ~Pinned(o[i])}) < Excess(m)})
Overflow(m, o) == {s \in Sessions : ~Pinned(s) /\ \E i \in 1..Popped(m, o) : o[i] = s}

\* Mutant of Rotated: a pinned session is pushed back without being popped.
RotatedTwice(m, o) == o \o Kept(SubSeq(o, 1, Popped(m, o)), {s \in Sessions : Pinned(s)})

\* The order after the loop.
Rotated(m, o) ==
  LET k == Popped(m, o)
  IN SubSeq(o, k + 1, Len(o)) \o Kept(SubSeq(o, 1, k), {s \in Sessions : Pinned(s)})

\* Idle entries other than the session itself are dropped as well.
Stale(m, s, t) == {r \in Resident(m) \ {s} : ~Pinned(r) /\ IsIdle(m[r], t)}

\* Mutant of Evicted: pins do not protect a binding.
EvictedPinned(m, o, s, t) ==
  {r \in Resident(m) : \E i \in 1..Len(o) : i <= Excess(m) /\ o[i] = r} \cup Stale(m, s, t)

\* The sessions touch_and_evict removes.
Evicted(m, o, s, t) ==
  LET full == Overflow(m, o)
  IN full \cup Stale([r \in Sessions |-> IF r \in full THEN NoEntry ELSE m[r]], s, t)

\* touch_and_evict(session, now) with the clock t, on map m and order o; the
\* removed bindings queue the deletes of their files.
TouchAndEvict(m, o, s, queued, dead, t) ==
  LET touched == [m EXCEPT ![s] = [@ EXCEPT !.seen = t]]
      gone == Evicted(touched, o, s, t)
      lapsed == {touched[r].id : r \in Stale(touched, s, t) \ Overflow(touched, o)}
  IN /\ map' = [r \in Sessions |-> IF r \in gone THEN NoEntry ELSE touched[r]]
     /\ order' = Without(Rotated(touched, o), gone)
     /\ pending' = queued \cup {[session |-> r, id |-> touched[r].id] : r \in gone}
     /\ expired' = dead \cup lapsed

\* The claim that a checkpoint was saved ends when its binding leaves the map
\* of the process, or its checkpoint or its file is given up.
ClaimsWithout(given) ==
  saved' = [s \in Sessions |->
    IF \/ s \in given
       \/ map[s] # NoEntry /\ (map'[s] = NoEntry \/ map'[s].id # map[s].id)
    THEN NoCheckpoint ELSE saved[s]]

Moves(c, r) == caller' = [caller EXCEPT ![c] = r]

\* The clocks the present call of the caller may have read when it was entered.
Clock(c) == caller[c].since..now

\* The caller goes on, its write behind it; the next call comes later.
Answered(c, at) ==
  Moves(c, IF at = "idle" THEN Idle(now)
           ELSE [caller[c] EXCEPT !.at = at, !.op = "none", !.snap = NoEntry, !.added = {},
                   !.previous = NoCheckpoint, !.since = IF at = "lookup" THEN @ ELSE now,
                   !.checkpoint = IF at \in {"driving", "ending"} THEN @ ELSE NoCheckpoint])

\* Mutant of Return: an error path releases a lease nobody took.
ReturnDriving(c) == "driving"

\* A driver goes on with its Run, an error path is done.
Return(c) == IF caller[c].leased THEN "driving" ELSE "idle"

-----------------------------------------------------------------------------
(* PERSIST_WRITE_LOCK: deferred deletes, snapshots and writes.              *)

\* get_or_create has returned: to normalize_kv_store, but only once.
Got(c) == IF caller[c].again THEN "pin" ELSE "normalize"
AfterFlush(c) == IF caller[c].op = "start" THEN "lookup" ELSE Got(c)

\* Nothing is queued, or another caller has drained the queue.
SkipFlush(c) ==
  /\ caller[c].at = "flush"
  /\ pending = {}
  /\ Answered(c, AfterFlush(c))
  /\ UNCHANGED <<store, lock, disk, now, nextId, nextSave, restarts, history>>

\* flush_pending_persisted_deletes, or the head of persist_conversation:
\* the queue is taken as a whole.
TakeLock(c) ==
  /\ \/ caller[c].at = "flush" /\ pending # {}
     \/ caller[c].at = "persist"
  /\ lock = Nobody
  /\ lock' = c
  /\ pending' = {}
  /\ Moves(c, [caller[c] EXCEPT !.todo = pending,
                               !.at = IF @ = "flush" THEN "flushing" ELSE "locked"])
  /\ UNCHANGED <<map, order, pins, disk, now, nextId, nextSave, restarts, history>>

\* The delete d is still owed: its session is not pinned, its binding was not
\* loaded again, and the file is the one the delete was queued for.
MayUnlink(d) ==
  LET m == map[d.session]
      f == disk[d.session]
  IN /\ f # NoEntry
     /\ ~Pinned(d.session)
     /\ IF d.id # 0 THEN f.id = d.id /\ (m = NoEntry \/ m.id # d.id)
        ELSE m = NoEntry \/ f.id # m.id

FlushOne(c, d) ==
  /\ caller[c].at \in {"flushing", "locked"}
  /\ d \in caller[c].todo
  /\ disk' = IF MayUnlink(d) THEN [disk EXCEPT ![d.session] = NoEntry] ELSE disk
  /\ Moves(c, [caller[c] EXCEPT !.todo = @ \ {d}])
  /\ UNCHANGED <<store, lock, now, nextId, nextSave, restarts, history>>

EndFlush(c) ==
  /\ caller[c].at = "flushing"
  /\ caller[c].todo = {}
  /\ lock' = Nobody
  /\ Answered(c, AfterFlush(c))
  /\ UNCHANGED <<store, disk, now, nextId, nextSave, restarts, history>>

\* Where a caller goes when its persist ends, and whether the answer was Saved.
After(c, ok) ==
  CASE caller[c].op = "create" -> Got(c)
    [] caller[c].op = "rotate" -> "reread"
    [] caller[c].op \in {"reset", "discard"} -> Return(c)
    [] caller[c].op = "save" -> IF ok THEN "driving" ELSE "ending"
    [] caller[c].op \in {"final", "clear"} -> IF ok THEN "merging" ELSE "leaving"
    [] caller[c].op = "merge" -> "leaving"

\* Mutant of Expected: any binding of the session will do.
ExpectedAny(c) == map[caller[c].session] # NoEntry

\* A conditional write finds the binding of its Run.
Expected(c) ==
  LET m == map[caller[c].session] IN m # NoEntry /\ m.id = caller[c].id

\* A write finds a binding to store, a conditional one the binding it expects.
Current(c) ==
  map[caller[c].session] # NoEntry /\ (caller[c].op \in Conditional => Expected(c))

\* The map is read again under the write lock, so that the latest state wins.
Snapshot(c) ==
  /\ caller[c].at = "locked"
  /\ caller[c].todo = {}
  /\ Current(c)
  /\ Moves(c, [caller[c] EXCEPT !.at = "writing", !.snap = map[caller[c].session]])
  /\ UNCHANGED <<store, lock, disk, now, nextId, nextSave, restarts, history>>

\* The binding has gone or was replaced: nothing is written.
NothingToWrite(c) ==
  /\ caller[c].at = "locked"
  /\ caller[c].todo = {}
  /\ ~Current(c)
  /\ lock' = Nobody
  /\ Answered(c, After(c, FALSE))
  /\ UNCHANGED <<store, disk, now, nextId, nextSave, restarts, history>>

\* The snapshot replaces the file by a rename; Saved is answered.
WriteSucceeds(c) ==
  /\ caller[c].at = "writing"
  /\ disk' = [disk EXCEPT ![caller[c].session] = caller[c].snap]
  /\ lock' = Nobody
  /\ Answered(c, After(c, TRUE))
  /\ LET s == caller[c].session IN
       saved' = IF /\ caller[c].op \in Saves /\ Expected(c)
                   /\ {map[s].checkpoint, caller[c].snap.checkpoint} = {caller[c].checkpoint}
                THEN [saved EXCEPT ![s] = caller[c].checkpoint] ELSE saved
  /\ UNCHANGED <<store, now, nextId, nextSave, restarts, rebound, expired>>

\* An I/O error, before the rename or (syncing the directory) after it.
WriteFails(c) ==
  /\ DiskFaults
  /\ caller[c].at = "writing"
  /\ \E f \in {disk[caller[c].session], caller[c].snap} :
       disk' = [disk EXCEPT ![caller[c].session] = f]
  /\ lock' = Nobody
  /\ IF caller[c].op \in Conditional
     THEN Moves(c, [caller[c] EXCEPT !.snap = NoEntry, !.at = "rollback"])
     ELSE Answered(c, After(c, FALSE))
  /\ UNCHANGED <<store, now, nextId, nextSave, restarts, history>>

\* Mutant of RolledBack: the value is restored whatever is in place.
RolledBackBlindly(c, m) ==
  [m EXCEPT !.checkpoint = IF caller[c].op = "merge" THEN @ ELSE caller[c].previous,
            !.blobs = @ \ caller[c].added]

\* roll_back_checkpoint and roll_back_blobs: what the failed write replaced is
\* restored while the written value is still in place.
RolledBack(c, m) ==
  LET written == IF caller[c].op \in Saves THEN caller[c].checkpoint ELSE NoCheckpoint
  IN [m EXCEPT
       !.checkpoint = IF caller[c].op # "merge" /\ @ = written
                      THEN caller[c].previous ELSE @,
       !.blobs = @ \ caller[c].added]

Rollback(c) ==
  /\ caller[c].at = "rollback"
  /\ LET s == caller[c].session IN
       map' = IF Current(c) THEN [map EXCEPT ![s] = RolledBack(c, @)] ELSE map
  /\ Answered(c, After(c, FALSE))
  /\ UNCHANGED <<order, pins, pending, lock, disk, now, nextId, nextSave, restarts, history>>

-----------------------------------------------------------------------------
(* continuation_for: get_or_create, normalize_kv_store, pin.                *)

Begin(c, s) ==
  /\ caller[c].at = "idle"
  /\ Moves(c, [Idle(now) EXCEPT !.at = "flush", !.op = "start", !.session = s])
  /\ UNCHANGED <<store, lock, disk, now, nextId, nextSave, restarts, history>>

\* expire_abandoned_persisted, one file: read, checked and removed under both
\* locks, before the lookup and with its clock.  The sweep runs at most once a
\* minute, so it may be skipped.
SweepFile(c, t) ==
  /\ caller[c].at = "lookup"
  /\ lock = Nobody
  /\ disk[t] # NoEntry /\ IsIdle(disk[t], caller[c].since)
  /\ ~Pinned(t)
  /\ map[t] # NoEntry => IsIdle(map[t], caller[c].since)
  /\ disk' = [disk EXCEPT ![t] = NoEntry]
  /\ saved' = [saved EXCEPT ![t] = NoCheckpoint]
  /\ UNCHANGED <<store, lock, now, nextId, nextSave, restarts, caller, rebound, expired>>

InMemory(s, t) == map[s] # NoEntry /\ (Pinned(s) \/ ~IsIdle(map[s], t))
Lapsed(s, t) == map[s] # NoEntry /\ ~InMemory(s, t)

\* load_persisted, under STORE alone; a binding that lapsed in memory is not
\* looked up on disk.
OnDisk(s, t) == map[s] = NoEntry /\ disk[s] # NoEntry /\ ~IsIdle(disk[s], t)

\* get_or_create found the binding and drains what its eviction queued.
Found(c, id) == Moves(c, [caller[c] EXCEPT !.at = "flush", !.op = "found", !.id = id])

LookupHit(c) ==
  LET s == caller[c].session
      t == caller[c].since
  IN
  /\ caller[c].at = "lookup"
  /\ InMemory(s, t)
  /\ TouchAndEvict(map, order, s, pending, expired, t)
  /\ ClaimsWithout({})
  /\ Found(c, map[s].id)
  /\ UNCHANGED <<pins, lock, disk, now, nextId, nextSave, restarts, rebound>>

LookupLoads(c) ==
  LET s == caller[c].session
      t == caller[c].since
  IN
  /\ caller[c].at = "lookup"
  /\ OnDisk(s, t)
  /\ TouchAndEvict([map EXCEPT ![s] = disk[s]], Append(order, s), s, pending, expired, t)
  /\ ClaimsWithout({s} \ Resident(map'))
  /\ Found(c, disk[s].id)
  /\ UNCHANGED <<pins, lock, disk, now, nextId, nextSave, restarts, rebound>>

\* A fresh binding; the delete of a lapsed binding, or of an idle file without
\* an owner, is queued first.  (The flush before persist_conversation, which
\* flushes again, is left out.)
LookupCreates(c) ==
  LET s == caller[c].session
      t == caller[c].since
      queued == IF Lapsed(s, t) THEN {[session |-> s, id |-> map[s].id]}
                ELSE IF disk[s] # NoEntry THEN {[session |-> s, id |-> 0]} ELSE {}
      dead == IF Lapsed(s, t) THEN {map[s].id} ELSE {}
  IN
  /\ caller[c].at = "lookup"
  /\ ~InMemory(s, t) /\ ~OnDisk(s, t)
  /\ nextId < MaxIds
  /\ nextId' = nextId + 1
  /\ TouchAndEvict([map EXCEPT ![s] = Fresh(nextId', t)], Append(Without(order, {s}), s), s,
                   pending \cup queued, expired \cup dead, t)
  /\ ClaimsWithout({s})
  /\ Moves(c, [caller[c] EXCEPT !.at = "persist", !.op = "create", !.id = nextId'])
  /\ UNCHANGED <<pins, lock, disk, now, nextSave, restarts, rebound>>

\* The binding was evicted or lapsed meanwhile: get_or_create once more.
GetAgain(c) ==
  Moves(c, [caller[c] EXCEPT !.at = "flush", !.op = "start", !.id = 0, !.again = TRUE,
                             !.since = now])

\* normalize_kv_store rotates the binding it was given when its KV store is
\* near the limit and no driver holds it.
MayRotate(s, id) ==
  /\ map[s] # NoEntry /\ map[s].id = id
  /\ ~Pinned(s)
  /\ Cardinality(map[s].blobs) >= SoftMaxBlobs

Normalize(c) ==
  LET s == caller[c].session IN
  /\ caller[c].at = "normalize"
  /\ ~MayRotate(s, caller[c].id)
  /\ IF map[s] = NoEntry THEN GetAgain(c)
     ELSE Moves(c, [caller[c] EXCEPT !.at = "pin", !.id = map[s].id, !.since = now])
  /\ UNCHANGED <<store, lock, disk, now, nextId, nextSave, restarts, history>>

Rotate(c) ==
  LET s == caller[c].session IN
  /\ caller[c].at = "normalize"
  /\ MayRotate(s, caller[c].id)
  /\ nextId < MaxIds
  /\ nextId' = nextId + 1
  /\ \E t \in Clock(c) : map' = [map EXCEPT ![s] = Fresh(nextId', t)]
  /\ ClaimsWithout({})
  /\ Moves(c, [caller[c] EXCEPT !.at = "persist", !.op = "rotate"])
  /\ UNCHANGED <<order, pins, pending, lock, disk, now, nextSave, restarts, rebound, expired>>

\* The binding is read again after the write: a reset may have won.
Reread(c) ==
  LET s == caller[c].session IN
  /\ caller[c].at = "reread"
  /\ IF map[s] = NoEntry THEN GetAgain(c)
     ELSE Moves(c, [caller[c] EXCEPT !.at = "pin", !.id = map[s].id, !.since = now])
  /\ UNCHANGED <<store, lock, disk, now, nextId, nextSave, restarts, history>>

\* pin(session, expected id): a changed binding fails the start.
Pin(c) ==
  LET s == caller[c].session IN
  /\ caller[c].at = "pin"
  /\ IF map[s] # NoEntry /\ map[s].id = caller[c].id
     THEN /\ \E t \in Clock(c) : map' = [map EXCEPT ![s].seen = t]
          /\ pins' = [pins EXCEPT ![s] = @ + 1]
          /\ Moves(c, [caller[c] EXCEPT !.at = "driving", !.op = "none", !.again = FALSE,
                                        !.leased = TRUE, !.since = now])
     ELSE /\ Moves(c, Idle(now))
          /\ UNCHANGED <<map, pins>>
  /\ UNCHANGED <<order, pending, lock, disk, now, nextId, nextSave, restarts, history>>

-----------------------------------------------------------------------------
(* The driver of a Run, and error paths.                                    *)

\* Where StaleBinding takes the driver.
GiveUp(c, op) ==
  /\ ~Expected(c)
  /\ Answered(c, IF op = "save" THEN "ending" ELSE "leaving")
  /\ UNCHANGED <<store, lock, disk, now, nextId, nextSave, restarts, history>>

\* save_checkpoint_if_current, for a checkpoint of this Run: a new one, or at
\* the end the last one again.
Save(c, op) ==
  LET s == caller[c].session
      last == op = "final" /\ caller[c].checkpoint # NoCheckpoint
      checkpoint == IF last THEN caller[c].checkpoint
                    ELSE [of |-> caller[c].id, n |-> nextSave + 1]
  IN
  /\ caller[c].at \in IF op = "save" THEN {"driving"} ELSE {"driving", "ending"}
  /\ last \/ nextSave < MaxSaves
  /\ \/ GiveUp(c, op)
     \/ /\ Expected(c)
        /\ nextSave' = IF last THEN nextSave ELSE nextSave + 1
        /\ \E t \in Clock(c) :
             TouchAndEvict([map EXCEPT ![s].checkpoint = checkpoint], order, s, pending, expired, t)
        /\ ClaimsWithout({t \in {s} : saved[t].n > checkpoint.n})
        /\ Moves(c, [caller[c] EXCEPT !.at = "persist", !.op = op, !.checkpoint = checkpoint,
                                      !.previous = map[s].checkpoint])
        /\ UNCHANGED <<pins, lock, disk, now, nextId, restarts, rebound>>

\* clear_checkpoint_if_current, when client-only tools tear the Run down.
Clear(c) ==
  LET s == caller[c].session IN
  /\ caller[c].at \in {"driving", "ending"}
  /\ \/ GiveUp(c, "clear")
     \/ /\ Expected(c)
        /\ \E t \in Clock(c) :
             TouchAndEvict([map EXCEPT ![s].checkpoint = NoCheckpoint], order, s, pending, expired, t)
        /\ ClaimsWithout({s})
        /\ Moves(c, [caller[c] EXCEPT !.at = "persist", !.op = "clear",
                                      !.previous = map[s].checkpoint])
        /\ UNCHANGED <<pins, lock, disk, now, nextId, nextSave, restarts, rebound>>

\* merge_blobs_if_current, after the checkpoint.
Merge(c, blobs) ==
  LET s == caller[c].session IN
  /\ caller[c].at \in {"driving", "ending", "merging"}
  /\ \/ GiveUp(c, "merge")
     \/ /\ Expected(c)
        /\ \E t \in Clock(c) :
             TouchAndEvict([map EXCEPT ![s].blobs = @ \cup blobs], order, s, pending, expired, t)
        /\ ClaimsWithout({})
        /\ Moves(c, [caller[c] EXCEPT !.at = "persist", !.op = "merge",
                                      !.added = blobs \ map[s].blobs])
        /\ UNCHANGED <<pins, lock, disk, now, nextId, nextSave, restarts, rebound>>

\* Drop of ConversationLease, at the end of a Run, with or without a
\* continuation to persist.
Unpin(c) ==
  /\ caller[c].at \in {"driving", "ending", "merging", "leaving"}
  /\ pins' = [pins EXCEPT ![caller[c].session] = @ - 1]
  /\ Moves(c, Idle(now))
  /\ UNCHANGED <<map, order, pending, lock, disk, now, nextId, nextSave, restarts, history>>

\* reset: an unrecoverable binding is replaced, pinned or not.
Reset(c, s) ==
  /\ caller[c].at = "idle" \/ (caller[c].at = "driving" /\ caller[c].session = s)
  /\ nextId < MaxIds
  /\ nextId' = nextId + 1
  /\ \E t \in Clock(c) : map' = [map EXCEPT ![s] = Fresh(nextId', t)]
  /\ order' = IF \E i \in 1..Len(order) : order[i] = s THEN order ELSE Append(order, s)
  /\ rebound' = IF map[s] = NoEntry THEN rebound ELSE rebound \cup {map[s].id}
  /\ ClaimsWithout({s})
  /\ Moves(c, [caller[c] EXCEPT !.at = "persist", !.op = "reset", !.session = s,
                                !.checkpoint = NoCheckpoint])
  /\ UNCHANGED <<pins, pending, lock, disk, now, nextSave, restarts, expired>>

\* clear_checkpoint, for an image Cursor no longer has.
Discard(c, s) ==
  /\ caller[c].at = "idle" \/ (caller[c].at = "driving" /\ caller[c].session = s)
  /\ map[s] # NoEntry
  /\ \E t \in Clock(c) :
       TouchAndEvict([map EXCEPT ![s].checkpoint = NoCheckpoint], order, s, pending, expired, t)
  /\ ClaimsWithout({s})
  /\ Moves(c, [caller[c] EXCEPT !.at = "persist", !.op = "discard", !.session = s,
                                !.checkpoint = NoCheckpoint])
  /\ UNCHANGED <<pins, lock, disk, now, nextId, nextSave, restarts, rebound>>

-----------------------------------------------------------------------------
Tick ==
  /\ now < MaxTime
  /\ now' = now + 1
  /\ UNCHANGED <<store, lock, disk, nextId, nextSave, restarts, caller, history>>

\* The process dies and another starts: only the files are left.
Crash ==
  /\ restarts < MaxRestarts
  /\ restarts' = restarts + 1
  /\ map' = [s \in Sessions |-> NoEntry]
  /\ order' = <<>>
  /\ pins' = [s \in Sessions |-> 0]
  /\ pending' = {}
  /\ lock' = Nobody
  /\ caller' = [c \in Callers |-> Idle(now)]
  /\ UNCHANGED <<disk, now, nextId, nextSave, history>>

Persist(c) ==
  \/ SkipFlush(c)
  \/ TakeLock(c)
  \/ \E d \in caller[c].todo : FlushOne(c, d)
  \/ EndFlush(c)
  \/ Snapshot(c)
  \/ NothingToWrite(c)
  \/ WriteSucceeds(c)
  \/ WriteFails(c)
  \/ Rollback(c)

Continue(c) ==
  \/ \E t \in Sessions : SweepFile(c, t)
  \/ LookupHit(c)
  \/ LookupLoads(c)
  \/ LookupCreates(c)
  \/ Normalize(c)
  \/ Rotate(c)
  \/ Reread(c)
  \/ Pin(c)

Drive(c) ==
  \/ \E op \in Saves : Save(c, op)
  \/ Clear(c)
  \/ \E blobs \in SUBSET Blobs \ {{}} : Merge(c, blobs)
  \/ Unpin(c)

Next ==
  \/ \E c \in Callers :
       \/ Persist(c)
       \/ Continue(c)
       \/ Drive(c)
       \/ \E s \in Sessions : Begin(c, s) \/ Reset(c, s) \/ Discard(c, s)
  \/ Tick
  \/ Crash

Spec == Init /\ [][Next]_vars

-----------------------------------------------------------------------------
\* A checkpoint is never attached to another conversation than the one whose
\* Run received it, in memory, on disk or in a snapshot under way ("an old
\* driver must not attach its checkpoint to a replacement conversation").
CheckpointsBelong ==
  \A e \in {map[s] : s \in Sessions} \cup {disk[s] : s \in Sessions}
          \cup {caller[c].snap : c \in Callers} :
    e # NoEntry => e.checkpoint.of \in {0, e.id}

\* A live driver keeps its binding: evictions, lapses and rotations pass it
\* by, and only a reset replaces it (ConversationLease).
PinnedStays ==
  \A c \in Callers : caller[c].leased =>
    /\ map[caller[c].session] # NoEntry
    /\ \/ map[caller[c].session].id = caller[c].id
       \/ caller[c].id \in rebound

\* A checkpoint whose save was answered Saved is on disk, itself or a newer
\* one of the same conversation, through deferred deletes, sweeps, slower
\* writers and restarts, until it is cleared, replaced or evicted.
SavedSurvives ==
  \A s \in Sessions : saved[s] # NoCheckpoint =>
    /\ disk[s] # NoEntry
    /\ disk[s].id = saved[s].of
    /\ disk[s].checkpoint.n >= saved[s].n

\* A binding that crossed its idle TTL "must not be resurrected from the older
\* JSON snapshot" (get_or_create, conversation.rs:658-662).  It fails when
\* another caller dropped the binding: get_or_create reads the file by the
\* clock of its entry (655), before the queued delete is flushed.
LapsedStaysDead ==
  \A s \in Sessions : map[s] # NoEntry => map[s].id \notin expired

\* The eviction order lists the resident bindings, each once: a session that
\* is missing from it could never be evicted.
OrderIsResidents ==
  /\ {order[i] : i \in 1..Len(order)} = Resident(map)
  /\ Len(order) = Cardinality(Resident(map))

\* Eviction passes pinned bindings over and loses sight of no other.
EvictionKeepsPinned == PinnedStays /\ OrderIsResidents
=============================================================================
