# A verification of the POL core

POL is a game server: client threads feed messages into a world of characters
and items, scripts compiled to byte code decide what happens in it, and the
world is saved to text files. This directory models the parts of the core
whose correctness depends on order: which thread or script does what first,
what a queue holds, when the process stops. The models are TLA+ modules that
follow the C++ sources under `src/pol-core`; TLC checks them on small
instances, and TLAPS proves what it can about all of them.

`PROJECT.json` lists the runs, the lines every definition stands for, the
hazards and the theorems. Below: the system's parts, what is modelled of it
and how, what the checks and the proofs show, and what is left.

## 1. The system

### Threads and the lock

One lock, the PolLock (`polsem.cpp`), protects the world. `scripts_thread`,
`tasks_thread`, `reap_thread` (`pol.cpp`), a listener and a thread per client
or one for all of them, aux services, decay sweeps and the web server's two
workers take it for one step of their loops each and sleep without it. A full
save forks a thread that writes and renames files without the lock, and the
SQL service, the log and the web server hand messages to threads of their own.
So nearly every operation is atomic with regard to the others, and what goes
wrong goes wrong between two steps: a script that is killed while it waits, a
client that leaves while its answer is awaited, a save that overlaps changes.

### Components

| component | state | operations | interacts with | what makes it correct |
|---|---|---|---|---|
| script scheduler (`scrsched.cpp`, `osmod.cpp`, `uoexec.h`) | runlist, ranlist, three hold lists, each executor's record of its list, blocking state, run flags, parent and child | start, step, sleep, suspend, wait for an event, run_script, kill, revive, debugger commands, shutdown | every module function that blocks or wakes a script; clients; NPCs | each executor is in one place; records and lists agree; no lost event; no use of a deleted executor; sleepers wake, killed scripts go |
| world save (`uimport.cpp`, `savedata.cpp`, `loaddata.cpp`, `objecthash.cpp`) | the objects, their dirty flags and serials, `.ndt`, `.txt` and `.bak` files, incremental data and index files | full save, incremental save, commit, delete, reap, start | scripts, shutdown, a thread that commits | whenever the server stops, the next start finds one save as a whole, or refuses |
| thread pools (`threadhelp.cpp`), message queue (`message_queue.h`) | messages, a cancel flag, waiting workers | push, pop, cancel, destroy | web server, aux services, SQL, log, stream saver | every message is run once and in order; no wake-up is lost; the destructor ends |
| event queue of a script (`osmod.cpp`) | events, their limit, what the script waits for and its place in the hold lists | signal, wait with a timeout, clear, resize | SysEvents, NPCs, clients, processes, aux services | a mailbox: events are taken in order, a full queue drops as asked, each event is released once |
| aux services (`auxclient.cpp`) | a thread per connection, its script, the script's object for the connection | read a line, signal it, find the script gone, hang up | event queue, scripts | the connection ends with its script or its peer, and the script knows |
| task scheduler (`schedule.cpp`) | a priority queue of tasks, handles, a dirty flag | add, replace, bring forward, cancel, run | spells, criminal flags, invitations, saves | a task runs once, in order, not after its cancellation, not before its time |
| main threads, pulse (`pol.cpp`, `polsem.cpp`) | the lock, the pulse, the exit signal | wait for and send a pulse, end | all | no sleep outlasts what is due; the threads end |
| client requests (`cgdata.cpp`, `target.cpp`, `uomod.cpp`) | who waits for which answer, in the client and in the script | send target, gump, menu, prompt; answer; cancel; kill; disconnect | scripts, clients | every waiting script is woken by one answer, its own, or by the end of the client |
| clients and logins (`client.cpp`, `clientthread.cpp`, `pol.cpp`) | connections, the character in use, the account's active character | connect, take over, disconnect, log off | characters, requests | a character has one client; it is cleared once, and only by its own |
| parties (`party.cpp`, `partymod.cpp`) | members, candidates, offline members; each character's pointers | invite, accept, decline, leave, lead, log off and on, disband | clients, scripts, the task of an invitation | a character has one role in one party, and the party agrees |
| dragging and trading (`getitem.cpp`, `dropitem.cpp`, `eqpitem.cpp`) | the item in a character's hand and where it came from, flags of the item, trade partner, trade containers | lift, part, drop, wear, undo, offer, accept, cancel, clean up | clients, containers, scripts that move, reserve or destroy | an item is in one place and never lost; who accepts a trade gets what he saw |
| containers, stacks (`containr.cpp`, `item.cpp`) | contents, counts, weights, amounts | insert, remove, split, merge | nearly all | counts and weights are those of the contents; amounts are preserved |
| sending to clients (`client.cpp`) | send queue, encryption state | queue, transmit | clients | packets leave in order |
| reputation, guilds, boats, houses, decay, resources, data store, accounts, SQL | see the sources named in `PROJECT.json` | | | |
| virtual machine, compiler, packets, maps, configuration, tools | no behaviour over time that other parts can disturb | | | |

Hard are, in the order in which the modules below take them: scripts that
sleep, are killed, wait for each other and are debugged; saves that overlap
changes and stops; threads that wait for messages and for each other;
characters and parties that point at each other; tasks that are cancelled,
replaced and late, and wake-ups that nobody waits for; events that race with
timeouts; answers that race with disconnects, kills and a second connection;
items that are in nobody's container while they are dragged.
`PROJECT.json` lists under "hazards" the lines where this bites and the
properties that watch them; those that no property covers say why.

## 2. The modules

| module | models | instance and proofs |
|---|---|---|
| `ScriptScheduler` | the script scheduler and what it needs of the executors | `MCScriptScheduler`, `ScriptSchedulerProofs` |
| `WorldSave` | full and incremental saves, stops and starts | `MCWorldSave`, `WorldSaveProofs` |
| `MessageQueue` | `Clib::message_queue` | through `TaskPool` |
| `TaskExecutor` | what `TaskThreadPool` promises its owner, without threads or queue | implemented by `TaskPool` |
| `TaskPool` | `TaskThreadPool`, composed with `MessageQueue` | `MCTaskPool`, `TaskPoolProofs` |
| `Party` | parties, and what characters know of them | `MCParty`, `PartyProofs` |
| `TaskScheduler` | the task queue with the tasks thread, the scripts thread, pulses and the exit | `MCTaskScheduler`, `TaskSchedulerProofs` |
| `Mailbox` | what the scripting documentation promises of events | implemented by `EventQueue` |
| `EventQueue` | a script's event queue, and the rest of its waits | through `AuxClient`; `EventQueueProofs` |
| `AuxClient` | an aux connection's thread, composed with `EventQueue` | `MCAuxClient`; `EventQueueProofs` |
| `ClientRequests` | scripts that wait for a player, and the ends of connections | `MCClientRequests`, `ClientRequestsProofs` |
| `ItemMoves` | items that are dragged, worn and traded, with connections and scripts | `MCItemMoves`, `ItemMovesProofs` |

In each of them the text "Bug:" marks an operator that no specification uses:
it is what a plausible mistake would make of the operator after it, and
`PROJECT.json` names the property that finds it. Some of the code's own mistakes
end every further statement about a model: a null dereference, or pointers
that disagree for good. Those are switched by a constant
(`Misuse`, `FullNPC`, `Packless`) that the runs leave at its harmless value; below
it is said what each value would show.

### ScriptScheduler

An executor is a member of `Exec`, an address. `runlist` and `ranlist` are the
deques of the same name; `holdlist`, a multimap on the time, is a set because
`sleep_until` holds the key; `in_hold_list` is the executor's own record,
which the code trusts when it erases. `error`, `halt`, `done` and `run_ok` are
the flags of `executor.h`; `run_ok` is a variable as in the code, where it is
recomputed by some operations and forgotten by others. `pParent` and `pChild`
are pointers, and a pointer may dangle: `uaf` records that a deleted executor
was dereferenced, after which the model stops (`Stopped`), as nothing can be
said about a program with undefined behaviour.

`pc` is where `step_scripts()` is: `idle` (outside the lock), `pop`, `fetch`
and `exec` (`run_ready()` takes an executor, decides whether its next
instruction is executed, executes it), `settle` (what becomes of it), `check`
(`check_blocked()`), `exit`. Of the instructions only those that touch the
scheduler are told apart (sleep, suspend, wait, start, run_script, kill, send
an event, set critical, attach a debugger, end, fail); all others are
`Compute`. Actions of other threads (starts, events, kills, answers of
clients, debugger commands, shutdown) need `pc = "idle"`, because they take
the lock.

Simplifications: events are counted, not told apart; a priority is the number
of instructions of a slice; the debugger's client is one per executor.
`run_script_to_completion()` and nested executors never enter the lists, and
`deschedule_executor()` has no caller.

### WorldSave

The world is a set of objects (`Serials`) with a version, a dirty flag and a
place, and the guilds as an example of data that is saved by full saves alone.
An object is `apart` while it lies, at whatever depth, in an owner that is not
saved. Its own moves mark it as changed; a container that moves carries its
contents in and out of such an owner without marking them (`Carry`,
`containr.cpp:206`, `545`). `ndt`, `txt` and `bak` are the files of the three
suffixes; `incr` the incremental data and index files with their numbers;
`main` is where the thread that holds the lock is, `saver` where the
asynchronous thread is. A save writes (under the lock), flushes and commits:
`.txt` to `.bak`, `.ndt` to `.txt`, one rename per step, so that a stop can
fall between any two. The incremental saves are moved away after that, by the
first thread, while the other may still commit. `Restart` is a stop and the
next start with everything `read_data()` does: it refuses to start if
`objects.ndt` or `storage.ndt` exists, reads the full save's files, then the
incremental indexes and data, and resets the flags. `Phase` names when a stop happens,
and a run's `CrashAt` the stops it looks at: `play` (no save under way), `refused`
(the next start refuses), `unnoticed` (it does not), `incremental`.

`saves` is a history variable: what every committed save promises, and which
objects it leaves out (`missing`). A full save promises the world as it was,
without what was apart. An incremental save promises the same of what it
writes; of what it leaves out, because it is clean or apart, it promises what
the last save did. The central property says that a start gives one of these
promises as a whole; `CleanIsSaved` says which of them still holds of an object
that is clean, and which objects have been left behind.

An object's own saveonexit, which scripts may assign, is not modelled: full
saves look at it, incremental ones do not (see below).

### MessageQueue and TaskPool

`MessageQueue` has one operator per operation of the template; each of them
holds the mutex from beginning to end except the wait, which is three: the
thread blocks, is woken (by `push()`, `cancel()` or for no reason), and tests
again. `TaskPool` has a worker's loop in eight places (`pc[w]`), the owner's pushes
and its destructor. `_done` is an ordinary variable, read without a lock: a
worker may see the old value (`Test`). A task may end with an exception; with
`checked_push()` the future gets it, with `push()` the worker ends.

`TaskExecutor` is what is left of the pool for its owner: tasks start in the
order of their push, each once, and the destructor returns when all have
finished. `task`, `order` and `owner` mean the same in both modules, so that the
refinement mapping is the identity: taking a task from the queue implements
`Start`, the end of its run `Finish`, a push `push`, the
end of the join `Return`, and all that happens between workers and mutex is
stuttering. `RunsAsPromised` is the specification of `TaskExecutor`, checked
and proved of `TaskPool`.

### Party

`party` holds the fields of each `Party` object, `parties` is the set of those that
exist (their order in `gamestate.parties` is never to be seen), and `party_of`, `candidate_of` and `offline_mem_of` are the pointers of the
characters. Nothing keeps the two together but the code that changes them.
`timeout` is the set of characters with a decline timeout, and `presence` lets a
character stay in the world for a while without a client. An action is one packet
(invite, accept, decline, remove, also with a leader who is not one), one script
method, a timeout, a logoff, a logon, or a restart from `parties.txt`. The three settings of `party.cfg`
that change the code's ways are drawn at the start.

`Misuse` switches on calls after which character and party disagree, all of
them possible in the code and each of them enough for TLC to refute `RolesAgree`: `candidate_leads`
(someone who is invited invites others, and leads a party when he accepts),
`leader_deserts` (the leader logs off with nobody left but candidates),
`absentee_invited` (who is expected back is invited elsewhere) and `stale_ref`
(a script keeps a party that has been disbanded).

Left out: hooks that change a party while it is being changed, characters that are
destroyed, NPCs as members, a decline timeout of 0, a reload of `party.cfg`, chat.

### TaskScheduler

The queue is a set, because the priority queue's order is that of `due`. All
times are relative to `polclock()`: a tick lowers `due` of every queued task and what is left of
each sleep, so that the clock needs no bound. A one-shot task knows the place
that points at it (`owner`), and clears it when it is deleted; `cancel()` leaves it
in the queue. What `on_run()` does is any operation on the queue, tried one
after the other (`OnRun`), as is what a script or another thread does under the lock.

A condition variable is a place in a thread's loop: who is not in `sleep` or
`wait` when it is notified has missed it. `tasks.at` therefore separates reading the
clock, computing the sleep, waking the scripts thread and falling asleep, and
`tasks.lag` counts the ticks since the clock was read. `ClientWakes` is the look at `is_dirty()`
which every client's thread has at the end of a message. `MaxLate`
says how many ticks a ready task may wait for the tasks thread
while it is awake; the theorems hold for every value. `phase` and `last` are history
variables.

Left out: `combined_thread()`, the reap and decay threads, and the watch over
checkpoints.

### Mailbox, EventQueue and AuxClient

`Mailbox` states what `osem.xml` and `configfiles.xml` say to the author of a
script. `EventQueue` is the code: `signal_event()` either writes the event over the
result on the value stack and revives the script, or appends it, or refuses
it and the caller releases it; `wait_for_event()` takes the front or blocks, in the hold list
with or without a time. `value` is the top of the value stack while the script
is in a call that blocks, and `wait_type`, which nobody resets, decides whether an event may go
there. The refinement mapping reads the script's state
from these: blocked, or with an event on the stack, it waits; neither, its time
is over. An event is its number of arrival, `freed` counts how often it was released.

`AuxClient` adds the thread of a connection: it reads without the lock, finds its
script alive or gone with it, and leaves. Its steps are events for
the queue, or stuttering.

Left out, because what follows is undefined: with `FullNPC`, an NPC's full queue
refuses an event and releases it, and `npc.cpp:1123` releases it again (TLC
refutes `Accounted`); with size 0 and `DiscardOldEvents`, `signal_event()` takes the front of
an empty queue (`osmod.cpp:690`: both settings at once are excluded); `transmit()` from a script that
was handed another script's connection dereferences an expired pointer (`auxclient.cpp:208`).

### ClientRequests

One character, several connections that can play it, and scripts that ask its player. A request is kept
twice: `slot[c][k]` is the place in `ClientGameData` (`gumpmods`, `menu_selection_uoemod`
and so on), `asks[s]` the `*_chr` pointer in the script's module. `shown[c]` is what
the player sees and has not answered; it outlives the script that asked, so that late answers happen.
A script that is killed is `dying` until its modules' destructors run. The thread of
a connection goes through `io[c]`: the game, the end of the loop, the clean-up under the
lock, the wait before the logoff, the logoff, the deletion.
A second connection takes the character over at any of them. The loop may end while the
client is still connected (`Close`: a failed `select()`, a handler that throws, the
shutdown); what the scripts see is the same, and the deletion of the client ends the connection.

`Misuse` switches on three calls of the code that break the rest: `overlap` (`SelectColor()`
and `SendTextEntryGump()` take another script's place; refutes `RequestsMatch`), `takeover_cursor`
(a takeover with a cursor up keeps `tcursor2`; refutes `CursorAgrees`) and
`takeover_exit` (a takeover between an unlocked test in `clientthread.cpp:282`
and the lock: the thread dereferences NULL).

Left out: dynamic menus and submenus, what an answer contains, the requests of
packets that packages define, house editing.

### ItemMoves

Where an item is, is recorded four times: `world.container[i]` is the item's own
pointer, `world.contents[k]` the list of a container (a character's backpack, his worn items,
his trade container) or, for `None`, of the zones of the map; `gotten_item[c]` is the
item in a character's hand; `is_gotten`, `inuse` and `gotten_by` are the item's
flags. The operators from a world to the next (`Put`, `true_extricate`,
`swap`, `return_traded_items`) are the functions of the same name. `undo_get_item` is the set of
what a refused item can come to, since hooks and full containers decide it.

An action is one packet with all that its hooks decide, one script function, or one
of the steps in which a connection ends: it leaves the list of clients
(`closeConnection`), cleans up under a second lock (`disconnect_cleanup`), logs off
after a while (`PreDelete`), or finds its character taken over by another
connection (`start_client_char`). `HookDestroys` stands for a script that is asked whether
the item may be put on the ground, into a container or on a stack and destroys it. `reserved` is one script's list.
`Init` draws how much of what there is (`Units` altogether).

The flag `inuse` stands for a hand and for a reservation. Besides, `check_test_scripts()`
(`item.cpp:1092`, `1119`) sets it for the time in which an equiptest or unequiptest script runs
and clears it then, whether there is such a script or not and whoever had set it: every
script function that puts an item on or takes it off does so (`EquipItem`,
`MoveItemToContainer`, `internal_MoveItem`, `MoveItemToSecureTradeWin`), also
when the script says no (`MoveRefused`). So a reserved item need not be in use, can be
lifted, and is then in use for two reasons, of which the first that ends clears
the flag for both. `RecordsAgree` therefore states one direction: what
is in use is in a hand or reserved.

`Misuse` switches on what scripts can do to break the rest: `takes_from_trade` (moving or lessening
an item on offer leaves the acceptance as it is; refutes `AcceptedAsOffered`),
`takes_from_hand` (moving an item that is in a hand and either reserved by the script or, by the above, not
in use: it is then in the hand and in a place), `adds_to_no_trade` (`MoveItemToSecureTradeWin()` takes the item from its place
before the trade refuses it) and `destroys_traded` (a hook of the trade destroys the item,
which is put into the trade container all the same, `dropitem.cpp:224`); the last three refute `OnePlace`. A character in `Packless` has no
backpack: what he offers in a trade stays there (refutes `TradesAgree`).

Left out: drops on NPCs, containers that are dragged with their contents,
weights and counts, slots but for the part of a stack that is left, scripts that
part and join stacks, death and corpses (of death only that it empties the hand and cancels the trade), and what follows from undefined or lost state: an item that a hook destroys while it is
worn or put back (see below), a backpack whose slots are full.

## 3. What the runs check

| run | question | bounds |
|---|---|---|
| `script_kills` | does every executor stay in one place with matching records, whatever scripts and threads start, wake and kill, and whatever a debugger does (`ListsConsistent`)? Are parents alive? | 3 executors, one of them with a debugger, 2 ticks, slices of 1, no events |
| `script_live` | the same lists with events; `run_script()` returns after its child, no sleeper is woken before its time, and one without a time only by what it waits for; sliced scripts run again, sleepers wake, killed scripts are deleted | 2 executors, 2 ticks, 1 event, with fairness |
| `script_dangling` | finding: a dangling `pChild` | 3 executors, no debugger, 1 event |
| `save_full` | full and incremental saves, changes during the asynchronous part, stops: a start gives one save as a whole (`RestartsFromSave`), clean objects are in it, but for those that a save has left out with their owner, and no file is stale (`SavedAndCurrent`); free serials are free | 1 object and the guilds, 3 changes, 2 full and 2 incremental saves between them, 1 stop that the next start notices or that falls between saves |
| `save_incremental` | incremental saves that fail halfway or are cut off; the index names the data | 2 objects in two files, 3 changes, 2 incremental saves, 2 stops |
| `save_leftover` | finding: files of a failed save | just enough for the counterexample |
| `task_pool` | completion, no race in `pop_remaining()`, no lost wake-up, the destructor ends; the pool implements `TaskExecutor` | 3 workers, 3 tasks, one of which kills its worker |
| `party` | one role in one party, and both sides agree (`RolesAgree`); a party has a leader, somebody to lead and no more than its limit; it ends only where it should | 4 characters (symmetric), 2 parties, 3 settings |
| `task_scheduler` | handles name the task that may run; the tasks thread sleeps past no task unnoticed; order, phase and cancellation (`RunsAsScheduled`); all threads end | 2 one-shot tasks with 1 owner, 1 periodic task of period 2, delays of up to 2 ticks, `MaxLate` 0 |
| `events` | the queue implements `Mailbox`; every event in one place, released once; no event becomes the result of another call; waits and connections end | 4 events, sizes 0, 1 and 3, default 2 |
| `client_requests` | both records of a request agree (`RequestsMatch`), cursors can be answered, an answer wakes who asked and no other, nobody sleeps for a client that has gone | 2 scripts, 2 connections, 7 kinds of request, 2 of them on a screen |
| `item_moves` | every item is in one place and its records agree (`OnePlace`), trades are mutual and leave nothing behind (`TradesAgree`), what was accepted is what was offered (`AcceptedAsOffered`), amounts are conserved | 2 characters (symmetric), a stack of 2 and 1 thing to wear, or a stack of 1 and 2 things to wear on the same layer, 1 script that reserves |

Three executors are the smallest number with a parent, its child, and a third
that kills or wakes either; two ticks of the clock give a sleeper that is due and one
that is not; one queued event separates an empty from a full queue. The executor with the
debugger may be the parent, the child or the third. Events and the debugger are in
separate runs because together they are too many for one; the theorems cover both at once. For saves, the
second of two saves of a kind is the first that meets the files of an older
one, and the third change is the first that can follow two committed saves;
two objects matter for incremental saves, whose files hold different sets, and
one with the guilds for full saves, where what matters is which file has been
renamed. The stops of `save_full` leave out those that the next start does not notice, after which
`RestartsFromSave` does not hold (see below). Three workers are two that wait besides the one that runs the
destructor's message, one more than the web server has. Four characters are a leader, a member, one who
is invited and one outside, or two parties of two; limits of two and three put each of them at its limit.
Two one-shot tasks for one place are the one
that is replaced and the one that replaces it; a period of two ticks tells phases apart, and a task that
is brought forward or late meets the periodic one before, at and after it.
Four events overfill a queue of the largest size by one, and refill one that was shrunk.
Two scripts are one that asks and one that asks in its place or after it, one of them the character's
`script_ex`, which some requests treat differently; the second connection takes
over or follows the first. `textentry` is not asked for in the run: its code is that of `selcolor` without
the test. Two characters are the two sides of a trade; a stack of two is the smallest that
can be parted, and two things for one layer are the one that is lifted and the one that takes its place.

The type invariants of the modules with proofs are all proved, and only those of `Party`,
`ItemMoves` and `WorldSave` are properties of a run as well.

Deadlock is checked in `party` and `item_moves`, where something can always happen. The other models end
(shutdown, used up bounds, a destroyed pool, connections that do not come back).

Fairness. `script_live` assumes that `scripts_thread` goes on (it is a loop
that waits with a timeout) and that the clock advances; it assumes nothing of
scripts, so that its properties carry the conditions they need: revived and
started scripts join the pass that is running, and a pass that never ends
starves everyone in `ranlist`. `task_pool` assumes that workers go on and that
tasks return, and never relies on spurious wake-ups. `task_scheduler` assumes that
threads go on, that operations under the lock return, that time passes, and that a thread which wants the lock gets
it some time though others keep taking it (strong fairness): the code's mutex
is the system's, whose waiters are not starved for ever. It does not
assume that a wake-up finds anybody, only that waits with a timeout end. `events` assumes
that the scheduler looks at its lists again and again, which is what `script_live` is about, and that `readline()` returns after its
seconds. `client_requests` assumes only that a connection's thread leaves its loop once the client is no longer
connected, and that a thread that has left it goes on to the end; that the loop ends for another
reason is not assumed, and the player owes nothing.

### Findings

Two runs end with a counterexample on purpose. Each is quoted with the
comment or document it contradicts in `PROJECT.json`:

- `script_dangling`: a child that ends while its parent was killed but not yet
  deleted leaves the parent's `pChild` pointing at it; the parent's deletion
  writes through that pointer.
- `save_leftover`: a failed incremental save leaves `.ndt` files that the next
  full save promotes.

Other disagreements were met and have no run of their own; for those with
a name of a constant or a definition, TLC shows them on the given instance.

- Detaching the debugger recomputes `run_ok` from `error` and `halt`
  (`executor.h:414`) and makes a finished script runnable, against
  `passert( !done )`: `NeverRunsDone` with `MCScriptKills.cfg`.
- The files of a full save may all be renamed while the older incremental
  saves are still in place (`uimport.cpp:1329`). A stop then is not noticed, and
  the next start puts old objects over the new ones: `RestartsFromSave` with
  `CrashAt = {"unnoticed"}`.
- A bag is moved into an owner that is not saved, a full save leaves out what is in
  it, the bag comes back, and an incremental save writes the bag: its contents
  are still clean (`containr.cpp:206`, `545`), so that `savedata.cpp:158` skips them, and the
  next start does not find them. It lasts until something changes each of them, or until the next full save.
  `CleanIsSaved` excepts these objects (`LastSave.missing`): without its second
  disjunct TLC finds it violated as soon as the full save has left them out.
- Incremental saves write objects whose own saveonexit is 0 (`savedata.cpp:173`,
  against `objref.xml:93`).
- A script reserves an item and equips it: it is no longer in use (`uomod.cpp:4680`,
  `item.cpp:1092`, `1119`), a player lifts it (`getitem.cpp:106`), and the script, to which it is
  still reserved, moves it to a container: it is there and in the hand. `OnePlace` with `Misuse = {"takes_from_hand"}`.
- A script that sleeps in a critical block does not freeze the server
  (`scrsched.cpp:256`, against `osem.xml:63`).
- Once as many tasks have thrown as a pool has workers, the destructor returns
  without running what is queued (`threadhelp.cpp:469`, against the comment at
  line 492): the assumption of the theorems about `TaskPool`.
- The other calls of `Misuse` in `Party`, `ClientRequests` and `ItemMoves`, and `FullNPC`. Of these
  `SelectColor()` tests `resurrect_uoemod` (`uomod2.cpp:2204`) where `uoem.xml:760`
  speaks of a colour selection under way.
- `chr->menu` dangles after the script of a dynamic menu has been killed
  (`uomod.cpp:1651`); `SelectMenuItem()` dereferences `chr->client` before it tests
  it (`uomod.cpp:1643`).
- `equip_item()` and `undo_get_item()` clear `is_gotten` before they run the hooks; a
  hook that destroys the item then meets the assertion of `remove_item_from_world()`
  (`eqpitem.cpp:69`, `getitem.cpp:277`, `uworld.cpp:63`). `drop_item()` does
  it in the right order.
- `return_traded_items()` returns at the first item for which the backpack has no
  slot, and forgets the items that it has not yet looked at (`dropitem.cpp:904`).
- `MoveItemToContainer()` with `add_to_existing_stack` goes on with the item after
  `add_to_self()` has consumed it (`uomod.cpp:3711`).
- A character who is taken over by another connection still trades, but the new
  client has not been told of the trade (`pol.cpp:440`); a trade whose two sides both have lost their
  connection but not yet cleaned up is missed by `cancel_all_trades()`.
- `readline()` loses the first half of a line that takes longer than its timeout
  (`sckutil.cpp:23`).

## 4. What is proved

TLAPS checks every proof for all values of the constants that meet their
assumptions: any number of scripts, any clock, any debugger; any number of
workers and tasks; any number of events, any sizes; any number of scripts,
connections and kinds of request; any tasks, owners, periods and delays; any characters,
parties and settings; any items and containers.

`ScriptSchedulerProofs`. The invariant is
`Inv == TypeOK /\ Placed /\ Passing /\ Waiting /\ Linked`.

- `TypeCorrect` (`TypeOK`) comes first: every other step needs the types.
- `Placed`: each live executor is in exactly one of the processor, the
  five lists and no other, once, and `in_hold_list` says so. It is inductive
  with `Passing`, which ties `cur` to `pc`: in the middle of a pass the
  executor in the processor is in no list.
- `Waiting`: who is in a timed list is blocked with a time, who is in the
  untimed list without one, who is in `runlist` is not blocked, and a script
  that waits for an event has none queued. For the executor in the processor
  it depends on the stage, hence `HandWaits`.
- `Linked`: a live parent pointer leads to a live parent that points back.
  The converse does not hold, which is the finding of `script_dangling`.

From it follow `OnePlace`, `RecordsAgree`, `BlockedHeld`, `EventsArrive` and
`NoneLeft`, together `PlacesAgree` (the runs' `ListsConsistent`), `ParentsLive`, and the action properties `ReturnsAfterChild`,
`WokenInTime` and `CriticalKeepsRunning`. `WokenInTime` is about both kinds of sleep: who wakes in
`holdlist` has slept its time or was killed, who wakes in `notimeoutholdlist` has its answer, the end of its child or was
killed. The lemma `Wakers` names the steps that can end another script's sleep at all. Two theorems bound the findings:
`NeverRunsDoneUndebugged` (`Debuggable = {}`) and `NoUseAfterFreeUnkilled`
(`Killable = Debuggable = {}`).

`TaskPoolProofs`. The invariant is `TypeOK /\ Ending /\ Tracked /\ Ordered`, extended
for the refinement by `Running` and `Complete`.
`Ending` is about the end of the pool: the destructor's message is the last in the
queue, so that the queue is empty from the moment it is taken, and a worker has
left its loop only because of it or because its task threw. It gives
`PurgedEmpty`. `Tracked` says where each task is: once in the queue, or with one worker.
The two together give `AllFinished`: at the join either the destructor's message was taken,
so that nothing is queued or running, or every worker ended with a task of
its own that threw. The theorem assumes that the latter is impossible (no
injection of the workers into the escaping tasks), and the third of the smaller
disagreements above is what happens otherwise. `Ordered` relates the queue to
the order of the pushes and gives `InOrder`. `Implements` shows that every step
is a step of `TaskExecutor` or a stutter: `Complete` (what is pushed is in `order`)
and `Ordered` give that the head of the queue is the first task still to
start, `Running` that a worker finishes only what it has started, and
`AllFinished` that the join is a return.

`EventQueueProofs`. The invariant adds to `TypeOK` what ties the waits together:
`WaitersHaveNone` (who waits for an event has none queued; `NoWaitBesideEvents`),
`WaitsAsPlaced` (the call that the script is in, `wait_type` and `blocked` agree; a
script that sleeps has overwritten the `wait_type` of an older wait, which is
why an event cannot reach its result), `ResultsOfWaits` (there is an
event on the stack only in `wait_for_event()`), `FrontToDiscard` (a queue of size 0 does
not discard its front) and `EndedEmpty`. `ResultsKept` follows, and `Implements`: each step
is one of `Mailbox` or a stutter. `WaitersHaveNone` is needed there: an event that wakes a script
overtakes nothing. `ConnectionKeepsPromise` shows that a script with a
connection is a script with a queue, and so also a mailbox. `EventsAccounted` (`Accounted`) assumes
`~FullNPC`: an event that an NPC's full queue refuses is released twice, as said above. Its
invariant names a place for every event that was sent (`KeptAt`): one entry of the queue, the
script's stack, the script itself or the list of releases, and nowhere else nor twice.

`ClientRequestsProofs`. Its theorems assume that `Misuse` has neither `overlap` nor
`takeover_exit`. `RequestsMatch` is nearly inductive. It needs that a killed script does not sleep (`DyingRun`:
the destructors wake nobody), that a connection in its clean-up still has its character (`CleansItsOwn`), and
that places other than gumps have one asker (`OneEach`, `OnePrompt`). The
cursor's properties hold under `Misuse = {}`, with `ShownWhileOn` (a connection that has ended shows nothing) and `OneCursor` (one target
at most is on a screen, and it says whether `tcursor2` is a script's or the core's): they give
`CursorsAgree` and `AnswersReachAsker`: an answer ends the sleep of the script that asked, if it still waits, and of no other.

`TaskSchedulerProofs`. The invariant is `TypeOK`, `Placed` (where each task is, and that
the running one is not in the queue), `OwnersAgree` (an owner's place and its task point at each
other), `HandlesAgree`, `SleepsUntilDue`, `Sorted` (no queued task is due before the last one
that was run) and `InPhase`. `Sorted` is what makes the order hold over any time: a new task is
due after the clock that the last check had read. `TasksInOrder` follows. The two fields of
`Sorted` and `SleepsUntilDue` move with the clock, hence the separate lemmas about `Tick`.

`PartyProofs`. `TypeCorrect` holds whatever is misused; all else assumes `Misuse = {}`. `RolesAgree` and
`PartiesViable` need each other: a party is disbanded by the name of its leader, so that
who disbands it must be a member, and it must be the only one he leads. The invariant says so for each
party as it is stored, in both directions: `FitNow` (`MembersFit`, `CandidatesFit`, `OfflineFit`: who is listed
points back, who points is listed; `Single`: one role), `AllGood` (leader, limit, somebody to lead),
`InvitedIsTimed`, and `ExpectedIsAway` (who is to rejoin is not playing: without it a logon
could bring somebody back twice). Most operations change a party, look at what is left and disband it or not.
`Fit` therefore takes the parties and the pointers as parameters: it holds again after the first half, where `Good` may
not, and `GoesOnFits` shows that the second half restores `Good` or removes the party. From the invariant follow
`CharactersAgree`, `PartiesLast` and, since a party that goes on has three or more
members or was ended by name, `LargePartiesEnd`.

`ItemMovesProofs`. `TypeCorrect` has no assumption. `Placed` is about the world and the hands:
`Good(world)` (the item's record and the lists agree in both directions, and nobody wears two
things on one layer), `HandsAgree` (an item is in one hand at most, `is_gotten` and `gotten_by` agree with it, and what is in use is in a hand or reserved), `Exist` (an item that exists is in a hand or in a place, never in both). It is proved first, for `NoMisuse`: everybody has a
backpack, and no script takes an item from a hand, moves it to a trade that refuses it, or destroys it on its way into a trade (on the instance the lack of the first refutes `TradesAgree`, of the others `OnePlace`). `TestKeepsHands` says that
`check_test_scripts()` disturbs none of this, whatever it clears. The lemmas about
`Put`, `true_extricate`, `swap` and `return_traded_items` say what each does to the lists and
to the records; `swap` goes through worlds whose records disagree for the items that it moves, which
`AgreesButFor` names. With `Placed` at hand `TradesAgree` is inductive. Both give `ExchangesAccepted` when scripts
leave offers alone, too (`NoMisuseAtAll`): for each action, whether it leaves what accepted sides offer untouched (`GoodsStand`), and which
items change their owner. `ItemsInOnePlace` is `Placed` said with cardinalities.
`AmountsConserved` (`Conserved`) assumes that there are finitely many items, so that their amounts have a sum. A step that is not
excused passes an amount from one item to another (`PassedOver`; that a stack is not dropped on itself is
`Exist`: it is in the hand, and the stack below it in a place), and `SumExchanged` says that this leaves the sum alone. Sums over sets are recursive: `SumExists`
shows that there is such a function and `SumWithout` that the order does not matter, both by the least
counterexample (`ItemSets`) instead of an induction theorem.

`WorldSaveProofs`. `TypeCorrect` has no assumption; it needs that a busy asynchronous thread is at a file and
has its record in `saves` (`SaverAt`, `FullPending`), and that an incremental save under way has a number, a record
and a data file (`IncrPending`). The invariant has three more layers:

- `CleanInv` is about the flags. While a save is under way the world is the one it
  records (`Recorded`); otherwise an object is marked (its dirty flag, or `dirty_deleted` once it is gone) or the
  last save has it as it is, or has left it out with its owner and nothing has marked it since (`CleanRecorded`). It needs nothing of the files, and gives
  `CleanObjectsSaved` whatever fails and wherever the server stops.
- `Tidy` is about which incremental files exist: those up to the count, those of the save under way, and
  while a full save moves them away those it has not reached (`Remaining`). It assumes `Tame`: no incremental save fails
  (`save_leftover` shows why), and a stop comes when no save is under way or in a state that the
  next start refuses. It gives `SavesAreCurrent`.
- `DiskInv` is about what the files say. `Says(files, n, base, s, v)` reads the first `n` indexes above a full
  save: the last index that names `s` decides. `Base` is that full save, as it is or, while
  the asynchronous thread replaces it file by file, as it will be (`SaverInv`: the files before the current one
  are done, the `.ndt` files are the others). What the files say is then the standing save (`StandingInv`), and 0 for a
  serial that is free (`FreeInv`); the save under way either has an object in its data
  or leaves out what the files say already (`WriteInv`, `CommitInv`). `SaysMore` adds one save on top: this is
  the last rename, of the index. `ReadIs` says that `read_data()` reads what the files say, from one place.

`RestartGivesSave` (`RestartsFromSave`) and `FreeSerialsAreFree` (`NewObjectsGetFreeSerials`) follow from all of
them under `SavesTame`: `Tame`, or no full saves at all, and then incremental saves may fail and be cut off
anywhere. `SavesAreIndexed` (`SavedAndIndexed`) is about the latter case. The assumption is not for the proofs'
sake: with full saves, both failed and cut off incremental saves leave files that `commit_incremental_saves()` promotes.
The proof that a new object's serial is free while the data files are replaced rests on the order of the `SaveContext`: every file with objects
is committed before or with `storage`, whose `.ndt` file makes a start refuse (`SaveOrder`).

Only model-checked: all liveness properties (fairness and ENABLED are beyond
the prover); the runs with a counterexample. Every safety property of a passing run is proved.

## 5. Plan

Done: `ScriptScheduler`, `WorldSave`, `MessageQueue`, `TaskPool`, `Party`, `TaskScheduler`, `EventQueue`,
`AuxClient`, `ClientRequests` and `ItemMoves`, all with proofs of the invariants that their runs check. What is
left, in this order:

1. What the restarts of a server with failing incremental saves may give: a weaker promise than
   `RestartsFromSave` that holds with leftovers, too.
2. `Containers`: counts, weights, slots and amounts of nested containers, with the scripts
   that part and join stacks.
3. The SQL service and the log worker on `MessageQueue`; `DynTaskPool` (idle workers are
   guessed).
4. Sending to clients: the send queue, the transmit thread, disconnects.
5. Reputation timers on `TaskScheduler`, decay, resources, boats, houses, data store
   generations, accounts, as far as they are worth it.

Not modelled and not planned: the compiler and the instruction set (a language
semantics that tests reach), packet layouts, ciphers, maps and line of sight,
configuration readers, the command line tools, vendored libraries.
