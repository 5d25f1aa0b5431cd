# BlingMUD in TLA+

BlingMUD is a Telnet MUD in plain Python: one selector thread does all socket I/O, every
logged-in character has a gameplay thread of its own, every active NPC has an actor thread,
two threads authenticate, and three writer threads save characters, the village and the NPCs
to one SQLite file.  Most of what could go wrong is between those threads, and the
repository's tests drive them one at a time.  This directory models the parts where they
meet, checks them with TLC on small instances and proves, with TLAPS, what holds for every
instance.

## Inventory

| Component | State | Operations | Talks to |
|---|---|---|---|
| **Persistence writer** `persistence_runtime.py:42` | ordered queue of pending keys, newest snapshot and waiters of each, in-flight flag, closing flag, thread | `start`, `submit`, `_run`, `flush`, `shutdown` | sessions and coordinators (receipts, completion callbacks), SQLite |
| **Session saving** `blingmud.py:1476-1651, 2618` | `persisted_state_json`, `last_submitted_state_json`, `last_save_receipt`, under `save_lock`; the player under `state_lock` | `save_if_changed`, `_save_completed`, `disconnect`, `decay_online_status`, `damage_player` | writer; autosave on the selector thread; administrators' threads |
| **World and NPC save coordinators** `persistence_runtime.py:314`, `npc_state.py:102` | the same bookkeeping for the village row and for each NPC | `save_if_changed`, `_save_completed`, `tick` | two more writers; the village's lock; main thread at shutdown |
| **Pre-login controller, session registry** `blingmud.py:2912`, `SESSIONS` | the login dialogue's state, the loaded account, the map of online accounts | one handler per dialogue state and one per pool result | worker pool, rate limiter, database, connection |
| **Authentication pool, rate limiter** `server_runtime.py:59, 156` | capacity semaphore, work and result queues; time stamps per address and account | `submit`, worker loop, `drain`, `shutdown`; claims and failures | controller; selector's wake-up |
| **Selector server, connections** `server_runtime.py:298-1045` | connection set, input and output queues, close flags and deadlines | accept, read, write, close, idle and maintenance passes, graceful stop | every session thread |
| **NPC actors, manager** `core.py:1341-1780` | mailbox, in-flight job, unresponsive and closing flags; the ticker | `submit`, `wait`, `_run`, `stop`; `tick` | gameplay threads holding `state_lock`; rooms |
| **Rooms, players, items** `core.py`, `rooms/`, `items/` | who is where, health, coins, inventories; village supplies | `enter`, `leave`, `broadcast`, commands | NPC actors, sessions |
| **Advisory AI** `npc_ai_runtime.py`, `llm_fsm.py`, `openrouter_provider.py` | request queue, pending speech, fallback deadlines, daily budget | admission, dispatch, observation, disable, reserve and reconcile | NPC actors, HTTP |
| **GMCP** `gmcp.py`, `blingmud.py:1665-1821` | negotiated or not, subscriptions; `gmcp_cache` | negotiation, `Core.Supports`, `flush_gmcp` | the client; every thread that changes a player |
| **Documents** `player_state.py`, `world_state.py`, `npc_state.py` | none | strict JSON validation and restoring | everything that saves |
| **Telnet, log, tools** | parser state; none else | byte-level conversions | connections |

What makes each of them correct:

* writer: a waiter is never dropped, a quiet key's row is its newest accepted snapshot (or
  that write failed), rows never go back, `flush` and `shutdown` keep their word, no lost
  wake-up;
* session saving: what the session believes of its row is the row; a failed or refused
  snapshot is retried; logout leaves the final snapshot; a character that rests is saved;
* login: one session per account, a session starts from the newest row, every claim and
  pool slot is given back, the dialogue never mixes two requests;
* connections: exactly one end marker, nothing after it; limits hold; a close that waits for
  output is bounded in time;
* actors: every job is answered once, a timed-out actor stays inert, ticks coalesce, no
  cyclic wait;
* advisory AI: exactly one of answer and fallback is spoken, nothing after switching off,
  spending stays within the day's budget;
* world: a character is in one room, alive, and in none after leaving; the Wisp Mother is seen
  when the village says so; no player's silence stops the ticker;
* GMCP: the client is shown what is true, and what the cache passes over it has been told.

The hard behaviours, each with its source line and the property that covers it, are the list
`hazards` of `PROJECT.json`.

## Plan

In the order of what would hurt most (lost player state first):

1. `WriteBehindStore` (abstract), `PersistenceWriter`, `SavingProofs` - **done**;
2. `SessionSave`, which composes a session's bookkeeping with `PersistenceWriter` - **done**;
3. `Login`: controller, pool, claims, registry, with the row written behind by a leaving
   session (the stale account record, the final save that ran out of time) - **done**;
4. `CallbackBoard` (abstract: each job is answered once), `NPCActor`: mailbox, time-outs, stop
   and restart - **done**;
5. `Connection`: admission, input queue, output drain, closing, promotion limits - **done**;
6. `Advisory`: withheld speech, fallback, modes; `Provider`: the paid budget, the audit log,
   crashes - **done**;
7. `Village`: rooms and membership, collapse and departure, the Wisp Mother, the ticker - **done**;
8. `Gmcp`: subscriptions, the cache, several threads that flush - **done**;
9. the two coordinators with the shared shutdown deadline, and items: not done, see
   "Not modelled".

Theorems: the type invariant and every safety invariant and action property the runs check,
the writer's refinement of `WriteBehindStore` and the actor's of `CallbackBoard` - **done**.
Liveness stays with TLC throughout.

How the modules meet: `SessionSave` runs over `PersistenceWriter`, `Login` over the abstract
`WriteBehindStore`, which `PersistenceWriter` implements; `NPCActor` implements
`CallbackBoard`.  `Connection` leaves the dialogue to `Login` (a result of the pool only promotes
or refuses there), `Login` the byte queues to `Connection`.  `Village` takes from `NPCActor` only
that a room's wait for its NPCs ends; `Advisory` takes from it that callbacks come one at a time,
and from `Provider` that an answer is good, bad or never there.

## Modules

### `WriteBehindStore`: what a writer promises

Each key has a row and a backlog of accepted requests.  The store may write *any* request of
a backlog; that settles it and all older ones of the key with one verdict.  So a row never
goes back to an older snapshot, a coalesced caller is answered by the write that replaced its
own, and "saved" is never said of a snapshot that neither it nor a newer one reached the row.

### `PersistenceWriter`: `class PersistenceWriter`

| Variable | Code |
|---|---|
| `started`, `closing`, `in_flight` | the attributes |
| `order`, `saveOf` | the `OrderedDict` `pending`: its key order, its values |
| `pc`, `job`, `success` | the writer thread's position and locals in `_run` |
| `receipt` | what each `SaveReceipt` says; `unused` when nobody holds it |
| `durable` | the `users.json_state` column |
| `main` | the main thread inside `flush` or `shutdown` |
| `accepted`, `lost` | history, for the properties only |

`submit` is `Reject`, `Enqueue` or `Coalesce`, one per branch; `_run` is `Sleep`, `Exit`,
`Take`, `Write`, `Finish`, `Answer`, `Callback`, `Answered`, one per critical section or
unlocked step; `flush` is `FlushCall`, `FlushTest`, `FlushExpires`; `shutdown` is
`ShutdownCall`, `Join`.  `Write` may raise; the commit is the save function's last
statement, so a call that raises has not changed the row.  A time-out may come at any moment.  `condition.wait` is the
state `asleep`, left only by a notification.

Two devices keep the state space finite without bounding the number of calls: `Forget`
reuses the identity of an answered receipt, and `CoalesceAgain` is the coalescing `submit` of
a caller that drops its older receipt for the new one.

### `SessionSave`: one character over a real writer

`EXTENDS PersistenceWriter`, so that the writer's lemmas serve here too; each action of the
session that calls `submit` takes the writer's action in the same step, and the writer's
`Callback` runs `_save_completed`.  `save_if_changed` is cut where the code releases its locks: `Call` (the
tests before `state_lock`), `Snapshot` or `NoSnapshot` (under `state_lock`), `DecideUnchanged`,
`DecideSubmit` or `DecideRejected` (under `save_lock`), `Waited`.  `Savers` are the selector (never
waits), administrators (both ways) and the character's own thread, whose final save is part
of `disconnect`.  `Change` is every way the character's snapshot changes: its own commands,
`damage_player`, `/heal`, `decay_online_status`.  `Elsewhere` is the rest of the program:
another session fills the queue, the main thread shuts the writer down.

A session begins in the phase `registered`: `_finish_authenticated` puts it into SESSIONS,
where an administrator's `/save` finds it, before `SetPersistedState` tells it what it was
loaded from.

Four history variables serve the properties: `since` (the states the character has had from
the final serialization on), `overtaken` (at that moment another thread held an older,
unsubmitted snapshot) and `muddled` (a failed request rolled `last_submitted_state_json` back while a
later request was outstanding, after which that later snapshot may be written
although the session compares with the older one) and `early` (somebody saved the session
before `SetPersistedState`, which forgets that save).

### `Login`: from a connection to a session and back

| Variable | Code |
|---|---|
| `link`, `closing`, `authenticated` | `SelectorConnection`: closed or not, `close_after_output`, `authenticated` |
| `dialogue`, `busy`, `account`, `new_name`, `has_password` | the attributes of `PreAuthController`; of the password only whether there is one |
| `work`, `running`, `completed`, `capacity` | `BoundedWorkerPool`: its two queues, what its threads have in hand, its semaphore |
| `stopped` | `server_close()` has closed connections and pool |
| `exists`, `backlog`, `durable`, `verdict` | the users table behind the abstract store `WriteBehindStore` |
| `sessions`, `life`, `player`, `stored`, `receipt` | SESSIONS and, per connection, its session |
| `failures`, `claims` | `AuthRateLimiter`, one address, within one window |
| `newest`, `row_known`, `fresh`, `created` | history, for the properties only |

Each `_handle_*` of the controller is an action of the same name (`NameLine`, `PasswordLine`,
`MatchLine` ...), each result handler another one (`AccountLoaded`, `RightPassword`,
`AccountCreated` ...); all run on the selector thread.  `Fetch` and `Perform` are the pool's
threads, `Drains` is the part of `drain()` every result handler shares: the capacity is
released, `busy` reset, and the result of a closed connection dropped (`Discard`).  A pool
function may always raise.  `FinalSave`, `SaveEnds`, `Unlist` and `DropPlayer` are
`disconnect`; the wait for the final save may end saved, failed or out of time, and the
writer settles the request when it likes (`Settle`).

Autosaves are left out here: they are the subject of `SessionSave`, and the final save writes the same
snapshot.

### `CallbackBoard`: what an actor promises

The callbacks of one NPC run one at a time, each only while its caller waits for it; a job
gets one answer and keeps it; the actions a callback decided on are performed once, and only
when its job was answered with them.

### `NPCActor`: `class NPCActor` and its callers

| Variable | Code |
|---|---|
| `mailbox`, `closing`, `unresponsive`, `tick_job` | the attributes |
| `thread`, `worker`, `held` | the last thread started; where each thread is in `_run`; the job in its hands |
| `answer`, `performed` | of each `NPCActorJob`: its event, result and error; `actions_performed` |
| `caller`, `job` | gameplay threads in `Room._notify_npcs`, the ticker in `NPCManager.tick` |
| `stopper`, `target` | threads in `stop()`: of `NPCManager.unregister` and of `NPCManager.stop` |
| `listed` | the NPC is in its room and the manager's list |
| `ticks`, `overruled`, `revived` | history, for the properties only |

A caller takes a list of NPCs (`Pick`), submits (`Submit`, `SubmitCoalesced`,
`SubmitRejected`), waits, and performs the actions itself (`Receive`) or finds its time out
(`TimesOut`) and, in a second critical section, declares the actor inert (`Mark`), unless the
answer has come meanwhile.  With several NPCs the shared deadline leaves any time, zero
included, to each of them, so one actor whose waits may run out at any moment stands for
all.  `stop()` is `Stop`, `Join`, `GiveUp`, since it releases the lock for the join and takes it
again to declare the actor inert.  A returned thread is still `is_alive()` for a moment
(`ending`).  A callback may never return.

Left out: `stop()` called by the actor's own callback and the actors of NPCs without a room,
which no behaviour of the game does; the ticker's own life.  Besides the ticker, `NPC.tick`
submits ticks; that is the second ticker of the run.

### `Connection`: the selector thread and whoever meets it

| Variable | Code |
|---|---|
| `conn` | `SelectorConnection`: open, closing or closed; its flags and both queues |
| `running`, `worker` | `Session.running`; where the session's gameplay thread is in its loop |
| `kicker` | a thread between the two halves of `request_kick` |
| `closes`, `shutdown` | the control queue: closings, and the graceful stop with its deadline |
| `server` | whether `serve_once` still serves |

The parts of a pass (`DrainControls`, `Accept`, `ReceiveLine`, `Transmit`, `CloseDue`, `Warn`,
`Expel`, `CheckGraceful` ...) are actions that come in any order.  Closing is cut where
`mark_closed` can be met halfway: `Close` stops the session, `Seal` then empties its queue and
puts the end marker.  A full output or input queue asks for the closing, from whichever thread
finds it full; every other thread reaches a connection only through its queues and the control
queue.  `Tell` and `Announce` are sends of other threads, also to a connection being closed.

### `Provider`: `class OpenRouterProvider` under two threads

| Variable | Code |
|---|---|
| `catalogue`, `cooling`, `next_index` | models, `cooldowns`, the rotation |
| `paid_day`, `paid_reserved`, `budget_file` | the day's account, in memory and on disk |
| `log` | the audit log's size and `audit_reserved_bytes` |
| `call` | where each worker is inside `complete()` or `refresh_models()` |
| `today`, `crashes` | the UTC day; how often the process has died |
| `owed`, `forgotten`, `excused` | history, for the properties only: what each day's requests cost or may cost, what `min()` has cut off today's account, whether that account is known to be off |

`complete()` is cut at its lock and at the request: the choice of a model, the reservation
(audit room, account and file together), the request, and one action for each way it comes out.
`Reconcile` settles any cost up to `Dearest` (`MAX_PAID_RESERVATION_USD`), as `complete()` does, also one
above what the request has reserved.
`Crash` and `CrashInSave` stop the process anywhere, also with the budget file cut short and not yet written;
`Restart` loads what is there.

### `Advisory`: the remote voice of an NPC

`actor`, `pending`, `due`, `outputs` are `AdvisoryFSMBehavior`: its callback in progress, the
utterances whose local answer is withheld, those past their deadline, the queue of outputs a tick
releases.  `queue`, `worker`, `enabled`, `closed`, `ready` are `NPCAdvisorRuntime`.  `_dispatch` runs
in the NPC's actor and hands a request over in two steps that do not exclude the runtime's
threads: `Admit` or `Refuse`, then `Queue`, `FindFull`/`Displace` or `QueueRefuses`.  A thread
takes the best job, asks, and stores its hint in the steps of `_store_hint`: the test of the mode
(`StoreDeserted`, `StoreBlocked`, `StoreOpen`) and, in a second critical section, the answer
(`StoreAnswer`, `StoreLate`, `StoreFailure`).  `SetEnabled`, `SetLocalOnly`, `Shutdown` and
`ComeAndGo` (the room empties or fills) may come anywhere.

### `Village`: rooms, bodies and the ticker

Every thread has a `todo`, the steps it still has to do, and each step is an action; a step that
calls others puts them in front.  A player's thread takes `state_lock`, dispatches one line
(`Look`, `Say`, `Emote`, `Go`, the Green's `Protect` and `Attack`, `/admin`'s question) and
returns it; `disconnect` is `Disconnect` (leaves the room under the lock), `Farewell`,
`Detach`.  The ticker aims acorns at who stands in the square (`Aim`) and then, one player after
the other, takes the player's lock and hurts (`Hit`, `Hurt`), which may collapse the player, put
him into the square and heal him (`Revive`).  The Wisp Mother's state (`warded`, `absent`)
belongs to the village, her presence (`wisp_here`) to the room: `Refresh`, `Seek`, `Place` are
`VillageGreenRoom`'s way from one to the other, and `Strike` the attack's.

### `Gmcp`: what the client is told

`enabled` and `subscriptions` are `GmcpProtocol`; `truth` what a snapshot would say, `cache` the
`gmcp_cache`, `shown` what the client was sent last.  `flush_gmcp` renders all packages, then for
each compares with the cache (`Check`), sends (`Gate`, `Send`) and caches (`Write`): the
comparison and the caching are two critical sections.  Threads flush under the session's
`state_lock`, but for two: an administrator's `/heal` returns it first, and the answer to a
Telnet event never takes it.

## What the runs check

| Run | Instance | Distinct question |
|---|---|---|
| `writer` | 3 keys, 2 snapshots, 3 receipts, queue of 2; the third key and receipt are there to be refused | `TypeOK`, `QuietKeyIsSettled`, `ReportsAreTrue` (`FlushedIsSettled` and `JoinedIsDrained`), `LeftAloneIsSettled`, `ClosingEnds`, and `ImplementsStore`: the writer refines the store |
| `session` | the character and one foreign key, queue of 1, the own thread and one that makes the selector's and the administrators' calls | `SessionTypeOK`, `BeliefIsTrue` (`PersistedIsRow` and `CleanMeansSaved`), `FinalSaveStands`, `StableStateIsSaved` |
| `session_logout` | the character, the selector's autosave and the own thread | `LogoutKeepsFinalSnapshot` is **violated**: see below |
| `login` | 2 connections, 1 name that is created and used again, 2 states, 2 pool threads and no queue, room for one player | `LoginTypeOK`, `ResourcesAreAccounted` (the pool's capacity, the players' places, the creation claims, the registry), `AnswerFitsQuestion`, `SessionsBeginRight`, `LineIsAnswered` |
| `login_stale` | a pool of one thread | `LoginContinues` is **violated**: see below |
| `login_retry` | a pool of one thread | `RetryIsPossible` is **violated**: see below |
| `npc_actor` | a gameplay thread, two threads that tick, one stopper, 2 jobs, 2 threads, a mailbox of 1 | `ActorTypeOK`, `OneWorker`, `SleepsOnlyWhenIdle`, `NothingIsLeftBehind` (`OpenJobIsKept`, `TicksCoalesce`, `RemovedIsStopped`), `EveryJobIsAnswered`, and `ImplementsBoard`: the actor refines the board |
| `connection` | 2 connections of one address, one place before login, queues of 1 | `ConnectionTypeOK` with the limits, `NobodyReadsInVain` (the end marker is found), `NoticesAreDrained` (README.md:67), `NoCloseIsLost` |
| `provider` | 2 threads, two paid models and a free one, a budget for three requests that may each cost twice what they reserve, a log that fills, one midnight, one crash | `ProviderTypeOK`, `TodayIsCounted`, `AnswersFitTheLog` (README.md:45) |
| `advisory` | 2 utterances, 2 threads, one place in the queue, for a withheld answer and for an output | `AdvisoryTypeOK`, `OneAnswer`, `NothingLeaks` (README.md:85), `EveryoneIsAnswered` |
| `village` | 2 players in 2 rooms, one knocked out by the first acorn, the other by the second | `VillageTypeOK`, `PlayerIsWhole`, `NobodyLingers`, `WispMatchesState`, `TickerGoesOn` |
| `gmcp` | the gameplay thread and another, 2 packages, 2 values, 3 names to subscribe to and a limit of 2 | `GmcpTypeOK`, `CacheIsShown`, `PictureIsCurrent` |

**Bounds.** Two keys in a queue of two is the smallest instance in which `move_to_end` reorders;
two receipts let one key have two waiters, or one while the other is in the writer's hands.  A third key is
there to be refused by the full queue, with a receipt of its own: the search stops where they
are accepted (`CONSTRAINT ExcessIsRefused`), unless the queue has overrun its limit, since an
accepted key is like the other two.  Two snapshots
suffice to tell old from new, and to come back to an earlier snapshot, which is what the dirty check can
confuse.  In the session runs two receipts give every caller that waits one of its own plus
an older one still in the queue.  An administrator's calls include the selector's (wait or
not), so one thread makes both.  The search of `session` stops where `early` holds
(`CONSTRAINT NotEarly`): every property of it excepts those sessions, and as `early` stays true
the behaviours cut off all satisfy the liveness property; its `VIEW` identifies states that differ only in history variables nothing reads any more.  In the login runs two
connections are what a race for one account needs; one name is enough because nothing relates
two accounts but the pool and the limits, which two connections already fill; a pool with two
places refuses a third task and has two answers due in
either order.  The limits on failures and creations are reached.  An account can be created
only once per name, and a closed connection's identity is used again, so the histories are
unbounded.  The actor has one job in hand and one queued, the queue full; two
thread identities are enough to start a second worker while the first lives.

In `connection` one place before login can be overrun by the second connection, and a queue of
one entry by the second.  The limits in all, per address and of players are two: two connections can
reach them, not exceed them.  A third does not finish in five minutes; that these limits hold
is what `ConnectionTypeCorrect` proves, for any numbers.  `OutputLimit` counts writes, not
bytes.  In `provider` money is small units: the budget is three, the cheap model's
reservation is one, and any request may cost two, so that two threads reach the budget, overrun it by
their costs and spend again; the dear model, at three, is there to be too dear.  The `VIEW` identifies states
that differ only in what nothing reads any more.
`LastDay` and `MaxCrashes` bound the calendar and the crashes, the only bounds on how long
a run goes on; the audit log never shrinks in the code either.  In `advisory` every utterance is said
once, and the limits 16, 4 and 8 of the code are 1, so that displacement, refusal and push-out
all happen; that makes pushing out far easier than in the code, where it takes nine
outputs between two ticks.  In `village` two rooms and two players are what a collapse in the
middle of somebody's move needs; there is no healing but the collapse's, and the Wisp Mother's
darkness (half an hour) ends only when no command that saw it begin is still at work.  In `gmcp` two threads overlap, one
package is changed by others and one only by its player; the limit of subscriptions is below the
number of names.  Nothing else bounds the number of calls.

**Fairness.** The writer thread blocks on nothing but its condition and the database, so its
steps are weakly fair.  Callers, administrators and players are under no obligation.  In
`SessionSave` a thread inside `save_if_changed` goes on (all its waits have time-outs), and
the selector's maintenance pass calls the autosave for ever; a login that has put its session
into SESSIONS goes on to `SetPersistedState`.  In `Login` the pool's threads end
what they have in hand (hashing and one short transaction) and the selector drains results:
`serve_once` does so on every pass, and `_run_worker` wakes it.  After `server_close()` a
task that its threads do not end in time is left behind, so `LineIsAnswered` promises nothing there.  `DropReceipt` is
weakly fair because real receipts are fresh objects: that a small instance runs out of
identities is no behaviour of the program.

In `NPCActor` only callers are fair: a wait ends by its time-out, and then the caller's
critical section is entered.  Nothing is assumed of workers and callbacks.

In `Advisory` the actor and its callers go on, the five seconds of a withheld answer end, and the
ticker ticks while the room is occupied; the provider may never answer.  In `Village` every
thread goes on and a question whose connection has hung up ends.  The ticker gets
a lock that comes free again and again (strong fairness): Python's locks promise no order, but a
player's thread holds `state_lock` only from a line to the end of its command and then waits for
the network, while the ticker does nothing but wait for the lock.  A player who is asked for a
password is under no obligation.
In `SessionSave` a thread that is about to submit is strongly fair for the same reason
`DropReceipt` is weakly fair: a receipt is always to be had.
`Connection`, `Provider` and `Gmcp` are checked for safety alone: no fairness is assumed.

**Deadlock** is checked for the writer, which can always be asked to flush, and the actor, which
can always be called, and for the advisory voice.  In the session
and login runs everybody has left and the server or writer has stopped in the end, so it is not;
nor is it where the server has closed (`connection`), the players have left (`village`, `gmcp`) or the
audit log is full for good (`provider`).

**What the code gets wrong.**  Three runs end in a violation.

`session_logout`: `save_if_changed` releases `state_lock` before it takes `save_lock`, so
snapshots may be submitted in the opposite order of being taken.  In the trace of
`session_logout` the selector takes a snapshot, the character changes back to the state that
was last submitted, the final save of `disconnect` sees nothing new and returns
"unchanged", and the selector then queues its older snapshot.  README.md says "Logout
waits for its final queued snapshot"; here the row ends with another one and nothing is
reported.  `FinalSaveStands` shows that this overtaking, with the named rollback, is the
*only* way: without it the final snapshot or a later one stands.

`login_stale`: the account record, `state_json` included, is read when the *name* is entered
and the character restored from that copy when the password comes.  In the trace a second
connection enters the name, the first one's session then plays, saves and leaves, and the
second enters the password: its session starts from the older record, although the row holds
the newer one, and its next save overwrites it.  `SessionsBeginRight` shows that a record
read while the character was offline, after its final save was confirmed, is always the newest.

`login_retry`: the new password is dropped before the creation is submitted.  When the pool
is full the line "is to be tried again", but there is nothing left to confirm, so the same
line is answered "The passwords did not match."

**What the properties except.**  `OpenJobIsKept` excepts `overruled`:
`stop()` sees its thread alive when the join's time is over, the thread ends, a caller starts another,
and `stop()` then declares the actor inert beside a healthy worker; queued jobs are then
answered by their time-outs only.  `RemovedIsStopped` excepts `revived`: a caller
that had listed the NPC before its removal starts its actor again.

`StableStateIsSaved` and `CleanMeansSaved` exclude `muddled` for the reason given above: a
rollback compares snapshots by content and cannot tell two requests apart.  Both also exclude
`early`: an administrator's `/save` of a session that is just being set up may write a new
snapshot, `set_persisted_state` then says the row is what was loaded (`blingmud.py:1519`), and when the
character comes back to that state every autosave finds it "unchanged", over a row that differs.

Other exceptions name what the newer modules found; TLC shows each of them as soon as the
exception is taken out:

* *The day's budget across midnight* (`TodayIsCounted`, `excused`).  `complete()` takes the
  reservation of a request asked for before midnight UTC from the account of the day after
  (`openrouter_provider.py:493-509`), which then has room for more than a day's money, although
  "a request must never [...] cause the persistent UTC-day total to exceed one US dollar"
  (NEXT_STEP_FOR_CODEX.md:251).  A crash while the file is cut short begins the day anew.
* *The cost above its reservation* (`TodayIsCounted`, `forgotten`).  `complete()` accepts any cost up to
  `MAX_PAID_RESERVATION_USD` (`openrouter_provider.py:499`), whatever the request has reserved.  What
  goes beyond the day's budget `min()` cuts off the account (`:501-508`): with a budget of 3 and three
  reservations of 1, an answer that costs 2 leaves 3 in the account, and 4 are owed.  The
  account has then forgotten 1 for good, and when a cheaper answer gives money back it is spent again;
  the sentence quoted above also says that a request must never exceed its reservation.
  `forgotten` counts exactly what is cut off, and the property says that nothing else gets lost.
  A cost above its reservation that cannot be written to the file is unknown after a restart; such a
  day is excused.
* *The ghost* (`NobodyLingers`, `late`).  `disconnect` takes the player out of the room, returns
  the lock, and drops the player later (`blingmud.py:2651`, `:2661`); an acorn that falls in between
  collapses the player and enters him into the square, where nobody will ever take him out.
* *The wisp that is gone* (`WispMatchesState`, `torn`).  The Green asks the village's state and then
  adds her to the room without a lock that covers both (`rooms/village_green.py:72`); an attack in between
  leaves her visible until the next visit, although the village says she is absent.
* *The silent administrator* (`TickerGoesOn`).  `/admin` reads the password while its command holds
  `state_lock` (`blingmud.py:746`): the ticker that wants to hurt this player stops for all NPCs
  until he answers or his connection is closed.
* *The torn cache* (`CacheIsShown`, `torn`).  Two overlapping flushes may send in one order and
  cache in the other; the client then keeps an old value, and the cache suppresses the true one until
  it changes again (`blingmud.py:1784`).  `PictureIsCurrent` further excepts a flush without the lock
  that met another one or a change (`crossed`).
* *Outputs pushed out* (`EveryoneIsAnswered`, `gone`).  `deque(maxlen=8)` forgets the oldest output
  silently (`llm_fsm.py:52`).

## What is proved

`SavingProofs`, first of the writer, for any sets of keys, snapshots and receipts and any limit:

* `TypeCorrect`: `Spec => []TypeOK`, including the limit and the `OrderedDict`'s coherence;
* `QuietKeysSettled`, `FlushSettles`, `ShutdownDrains` and, of the last two together,
  `ReportsTrue`: properties of the run `writer`;
* `RequestsSound`, and `WriterImplementsStore`: the writer refines `WriteBehindStore`;
* `OpenReceiptsHeld`: an unanswered receipt is always named by some list the thread comes to.

The inductive invariant is `WriterInv`:

* `TypeOK`;
* `NewestIsKept`: the pending save of a key holds the last accepted snapshot, or, when none
  is pending, the job being written does, or the key is settled.  `QuietKeyIsSettled` alone
  is not inductive: it says nothing of what a busy key is about to write;
* `ThreadLife`: how `in_flight`, `started`, `closing` and the thread's position go together,
  so that an empty queue with no job in flight really means that nothing is being written,
  and an exited thread means closing and an empty queue;
* `WaitersAreKept`: an open receipt is named by a pending save or by the part of the job that
  is not answered yet.

`WriterInvariant` proves it action by action; the lemmas before it say what
`Append`, `move_to_end`, `popitem` and replacing the newest waiter do to the queue.  The action
property `FlushedIsSettled` follows from the invariant in the state before the step.

`RequestsSound` adds that the snapshot an entry of the queue, or the job, stands for is the one
of its newest request, and that every request held is in use.  With it,
`WriterImplementsStore` maps each step to a step of the store: `submit` to an accepted request,
`Write` of a coalesced entry to the settlement of the key's whole prefix of requests with one
verdict, everything else to a stutter.  The backlog of a key is the waiters of its pending
save behind those of the job that is not written yet.

`NPCActorProofs`, for any sets of callers, stoppers, jobs and threads and any mailbox limit:

* `ActorTypeCorrect`, `OneWorkerAtMost`, `NoWakeUpIsLost`: `ActorTypeOK`, `OneWorker` and
  `SleepsOnlyWhenIdle` of `npc_actor`;
* `JobInvariant`, `NothingLeftBehind`: `NothingIsLeftBehind`;
* `ActorImplementsBoard`: `ImplementsBoard`.

The inductive invariant `ActorInv` adds one conjunct to the first three, `CallerHasJob`: whoever
waits, or has waited too long, waits for a job; without it `_mark_unresponsive` could fail "no
job".  The argument rests on two lemmas.  `NotifiedWakes`: after `notify_all()` nobody is asleep,
and it neither starts nor ends a thread.  `StartsOneWorker`: `_start_locked` starts a thread only
when the last one has ended, which by `OneWorker` is when all have, and clears `closing` but never
sets it, so a sleeper's condition survives it.  The two properties need each other: a thread that
goes to sleep has seen an empty mailbox and no stop, and, being the only one, is the only sleeper.
`JobInv` follows the jobs: a thread holds one exactly inside a callback (`HandsMatch`); a queued
one is queued once, unanswered, in nobody's hands, and a thread was started for it (`QueueSound`);
only the tick `tick_job` names is without an answer (`TicksKnown`); a stop leaves nothing queued,
and a thread ends only for a stop or for being given up (`StopsHold`).  With these the two claims
of `NothingIsLeftBehind` are inductive, and every step is one of the board or a stutter.

`ProviderProofs`, for any workers, models, prices, budget and size of the log:
`ProviderTypeCorrect`, `AnswersFit`, `TodayCounted`, the last for any cost `complete()` accepts, with
what `min()` cuts off counted in `forgotten` (`CostCovers`).  `TodayIsCounted` speaks of what is owed;
`BookCovers` adds what is *pledged*, by requests that have a reservation and are still out, and says
it of the file too, which is what a restart finds.  What a number of workers has pledged is a sum,
and sums by induction are beyond the prover: the proof counts a set that has one element for each
unit of money (`Units`), so that a worker more or less adds or takes away as many elements as he
pledges.  The room in the audit log is a number of requests times a constant, so a cardinality will do.

`ConnectionProofs`, for any numbers of connections and addresses and any limits:
`ConnectionTypeCorrect`, whose limits (in all, per address, players, before login) are
cardinalities of sets of connections (`CountsHold`); `NoCloseLost` and `NoReadInVain` from `EndsInv`
(with `OpenWhileRunning`: only an open connection's session runs; and `KicksEnd`: what a kick
has begun is going to be closed); `NoticesDrained` from `NoticesInv`.  Most steps only write to a connection, read
from it or ask for its end: `Ordinary` says what they may do, each invariant is shown to survive
that, and the steps that close, seal, accept or promote are taken one by one.

`LoginProofs`, for any connections, names, states, receipts and limits:

* `LoginTypeCorrect` and `ResourcesAccounted`: connections whose tasks are queued, in hand or
  answered are three sets without repetition, whose sizes are what the semaphore lacks; a claim
  to create an account belongs to an account made or to one of the `Claimants`; a session inside is
  the one the registry names.  The pool makes five moves, and the proofs are about the moves;
* `AnswersFitQuestions`: whatever the pool still has to answer for an open connection is what its
  dialogue waits for.  `Fits` says it of pairs of a connection and an operation, so that a move of
  the pool from one of its queues to the next leaves it alone;
* `SessionsBegin`, for `SessionsBeginRight`: `BeginInv` follows a record from the table through tasks,
  results and dialogues (`FreshInv`), and a row through the final save: who waits for a verdict waits
  for the last request of the backlog, which holds his last state (`RowInv`, `Requests`).

The second part of `SavingProofs`, of a session over such a writer: every step of the session is one
of the writer or leaves it alone, so `WriterInv` and `RequestsAreSound` hold here too.

* `SessionTypeCorrect`; `SessionBelief`, for `BeliefIsTrue`: between the write of the session's
  snapshot and its last callback the session cannot know the row, and at every other moment
  `persisted_state_json` is the row (`RowInv`); the newest request outstanding is for
  `last_submitted_state_json`, and without one that is what is persisted (`CleanInv`); a job that
  was written is the row (`JobSound`);
* `FinalSaves`, for `FinalSaveStands`: a request is named by one list only, open until it is answered
  (`OnePlace`, `SeenInUse`); `last_save_receipt` tells the truth of `last_submitted_state_json`
  (`LastInv`); the life of the session (`LifeInv`); and from the final serialization on, every snapshot still
  to be submitted, and every promise a receipt stands for, is of that moment or later (`FinalInv`).

`VillageProofs`, for any number of players: `VillageTypeCorrect`, `PlayersWhole`,
`NobodyLingering`, `WispMatches`.  The argument rests on `TodoInv`: what a thread still has to do is
read off its next step, from a table (`PlayerRest`, `TickerRest`).  From it follows when a
thread holds its player's `state_lock` (`LockInv`), and so that nobody else moves, hurts or
revives him.  `PlayerIsWhole` is about moments when nobody holds the lock, hence not inductive:
the moments between are described by `PlaceInv` (room and player agree), `LeaveInv` (whom a thread is
going to take out of a room is still there), `DepartInv` (who is leaving is being taken out),
`HealthInv` (who has no health is about to wake up), `LifeInv`, `GoneInv` (who has said farewell is
nowhere) and `WispInv`.

`GmcpProofs`, for any number of threads, values, names and any limit: `GmcpTypeCorrect`,
`CacheShown`, `PictureCurrent`.  Here too the steps left are read off the next one.  `CacheInv`: of a
package that is not torn one thread at most has a sending to cache, and it is what the client was
told last.  `FreshInv`: while `crossed` is down one thread flushes at most, and what it has rendered is
true; two that will both return the `state_lock` cannot flush at once (`LockInv`).  `OwedInv` is
`PictureIsCurrent` while threads are at work: what the client does not know somebody has still to render, or
has rendered and not sent.  The case that is hard to see is a player between two rooms, of whom
there is no Room.Info to render: whoever moves him will flush when he has arrived.

`AdvisoryProofs`, for any numbers of utterances and threads and any limits: `AdvisoryTypeCorrect`,
`AnsweredOnce` and `BlockedIsSilent`, for `AdvisoryTypeOK`, `OneAnswer` and `NothingLeaks`.
`OneAnswer` counts what was heard, which is the last of the places an answer passes: in the
actor's hand, withheld or asked for; among the outputs; taken by a tick; decided; heard.  `OnceInv`
says that an answer that counts (any to live speech, the provider's to other speech) is in one of
these at a time, and that nothing was heard of it before it is heard.  It needs `JobsInv`: the frame
of an utterance is in one place only, the actor's hand, the queue or a thread's, and remembers how it
was said.  The provider's late answer to live speech is the case the proof turns on: it may still be
asked for when the withheld one was released, and `_store_hint` drops it because the utterance is no
longer pending.  `LocalInv` says the rest, that other speech is answered locally once.  That a full
queue has a best and a worst job is shown by `GreatestOf` and `LeastOf`.  Since the model keeps what a
tick has taken in sets, where two equal answers would be one, `NoneIsMerged` shows that there are never
two.

**Assumptions.** Each module names its own; TLC evaluates them in every run.

* `WriterAssumption`, `ActorAssumption`, `LoginAssumption`, `ConnectionAssumption`,
  `ProviderAssumption`, `AdvisoryAssumption`, `GmcpAssumption`: limits, prices and budgets are numbers, positive where the
  constructors insist on it; initial values are among the values; "no job", "nobody" and the like are
  none of the jobs and threads (in Python, `None`); tickers are callers.
* `SessionAssumption`: the character has a key, and its own thread is neither the selector nor an
  administrator.
* `VillageAssumption`: "nowhere" is no room and "nobody" no thread; players begin with
  some health.
* `IsFiniteSet` of connections, workers and subscription names.  Only numbers of finite sets can be
  compared with the limits: the server never has more connections at once than descriptors, the runtime
  starts a fixed number of workers, and names are at most `GMCP_MAX_PACKAGE_LENGTH` letters
  (`gmcp.py:45`).  Models, addresses and
  utterances are not empty sets.

**Only model-checked.**  All liveness, which with `ENABLED` and fairness is out of the prover's reach: `LeftAloneIsSettled`,
`ClosingEnds`, `StableStateIsSaved`, `LineIsAnswered`, `EveryJobIsAnswered`, `EveryoneIsAnswered`,
`TickerGoesOn`.  The refinements are proved for the safety part, which is all the two abstract
specifications state.  The three violations are counterexamples, for which an instance is enough.

## Not modelled

In the login: the expiry of time stamps and the limits on the limiter's tables, password
upgrades; the limits per address and before login are `Connection`'s.  The coordinators of the
village's and the NPCs' rows: they follow the scheme of `SessionSave` with fewer callers, and what
can overlap there is what overlaps in it.  The deadline main() shares among its shutdown stages.
Items, their effects, and the NPCs' scripts: texts, dice and arithmetic under one lock, but for the
herb garden, whose one weed two players may harvest at once (`rooms/overgrown_herb_garden.py:28`).
The rows of characters and of the village are saved by independent writers, and nothing relates
them after a crash.
The writer's statistics and logging; argument validation; `save_if_changed` without a writer
(only the blocking compatibility mode of the tests); `last_save_error`, which is only
reported.  A transaction that fails *in* the commit yet reaches the disk is not considered.
The other components marked `not_modelled` in `PROJECT.json` are out of
reach and of little interest here: byte-level Telnet parsing and JSON validation are
pure conversions with good unit tests, HTTP and SQLite are external, texts and NPC
personalities are content.
