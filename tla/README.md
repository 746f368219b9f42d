# A verification of betterstack-telegram-bot

TLA+ modules that model the bot, TLC configurations that check them on small
instances, and proofs that TLAPS checks for every instance. Paths like
`webhook.rs:103` are files of `src/src/`; `src/README.md` is the README of the
program.

    tlc -workers 2 -config Leases.cfg MCBot.tla      # any .cfg of this directory
    tlapm BotProofs.tla                              # also AheadProofs, SyncProofs, MessageProofs,
                                                     # DeliveryProofs, AgreementProofs,
                                                     # StoreProofs, GatewayProofs

## 1. Inventory: the system and its parts

The bot keeps a Telegram message per Better Stack incident. Any number of
replicas run the same program; they share nothing in memory, and everything
they remember is in Redis. Two kinds of requests arrive at a replica:

* **Better Stack webhooks** (`betterstack/webhook.rs`). Something happened to an
  incident: started, acknowledged, resolved, reopened. The handler locks the
  incident in Redis, drops events it has seen, runs the state machine on the
  stored record, writes it back and sends or edits the message.
* **Telegram callbacks** (`telegram/handler.rs`). A member of the chat pressed
  "Acknowledge" or "Resolve". The handler locks the incident, calls the Better
  Stack API, runs the state machine, stores the status, edits the message.

An API call makes Better Stack send a webhook of its own, so the two handlers
meet on the same incident as a matter of course.

| component | state it keeps | operations | interacts with |
|---|---|---|---|
| incident state machine, `domain/incident.rs` | none (pure) | `from_event`, `next` | both handlers |
| Redis store, `storage/redis.rs`, `storage/mod.rs` | hash per incident (TTL 30 days), dedup key per incident and event name (TTL 1 day), lock per incident (TTL 15 s) | `get`, `upsert`, `set_message_id`, `set_status`, `mark_event_once`, `unmark_event`, `try_lock`, `release_lock` | both handlers; every replica |
| webhook handler, `betterstack/webhook.rs` | locals of a request | one request: lock, dedup, load, upsert, clear stale dedup keys, notify, unmark on failure, release, answer | store, notifier; Better Stack retries what is not answered 200 |
| callback handler, `telegram/handler.rs` | locals of a press | one press: decode, lock, API call, load, set status, reload, edit, release, answer | store, notifier, API client |
| API client, `betterstack/client.rs` | none | `acknowledge`, `resolve` with retries, 409 is success | Better Stack |
| notifier, `telegram/mod.rs` | the chat (external) | `send_incident`, `edit_incident` | Telegram |
| rendering, `render.rs` | none (pure) | text and keyboard of a record | notifier |
| callback codec, `domain/callback.rs` | none (pure) | `encode`, `decode` | rendering, callback handler |
| dispatcher, `telegram/dispatch.rs` | queue per chat (teloxide), in memory | accepts updates that carry the secret, hands presses to the callback handler | Telegram, callback handler |
| start and stop, `main.rs` | how far a start has come | draw the secret, connect, register, serve; stops at the first of server and dispatcher | all |
| in-memory store, `storage/memory.rs` | maps under a mutex | the same trait, for tests | the tests of the handlers |
| server, `server.rs` | the secret of this start | routes, health, `resolve_secret_token`, `register_webhook` | Telegram, which keeps the last secret registered |
| configuration, errors, logging | - | - | all |

**What is hard.** Every `await` of a handler is a point where other tasks run,
a command or request fails (with or without having taken effect), or the
process stops. Webhooks are delivered at least once and in any order. The lock
is a lease of 15 s around requests that may take 30 s each, and its token is the
time on the clock of a replica, read before the command that sets it is sent.
Deduplication is a key written before the work it stands for. Records expire, also
between a read and a write, after a time that any u64 may configure. A press passes through
a registration that every replica overwrites, a load balancer and a queue in memory.
The tests run on another store than production. `PROJECT.json` lists the hazards,
each at its line with the properties aimed at it.

**What makes each part correct.** The store: one holder per lock, own lock
released only; what is written is read back; the double answers as Redis does. The
way of a press: the handler is called with what the button meant, in the end,
on a replica that knows the secret. The webhook handler: what is answered 200 is applied,
that very event, and once; the order of delivery does not matter. The callback handler: nothing is stored that
Better Stack did not accept, "Done" means stored. Both together: each acts as
one step; Redis and the chat agree with Better Stack when nothing is left to do,
and get there.

## 2. The modules

| module | models | its state and actions, against the code |
|---|---|---|
| `Incident` | `domain/incident.rs` | operators only: `FromEvent`, `NextStatus`, the records |
| `RedisStore` | `storage/redis.rs` | operators only: each method as what it makes of the records, dedup keys and locks |
| `World` | what is shared, and the environment | `incidents`, `dedup`, `locks` are Redis; `messages`, `inbox` Telegram; `timeline`, `pending` Better Stack; `pc`, `req`, `rec`, `out` the locals of each task; `applied`, `spent` are history |
| `WebhookHandler` | `webhook.rs:34-230` | one action per await |
| `CallbackHandler` | `handler.rs:38-183`, `client.rs:30-91` | one action per await |
| `Bot` | composition | `Next`, fairness, the properties |
| `IncidentSync` | the abstract promise of `Bot` | status of each incident and of each message, nothing else |
| `StoreTypes` | `IncidentRecord` field by field, TTLs | `now` is the clock |
| `RedisKeys` | `storage/redis.rs`, command by command | `hashes`, `hashTtl`, `dedupKeys`, `lockKeys` are the keys and their deadlines; one action per method, a method being one command, transaction or script; `Parse` and `FieldsToRecord` may fail, `ExpireSecs` is the i64 that EXPIRE gets |
| `MemoryStore` | `storage/memory.rs` | `memIncidents`, `memDedup`, `memLocks` are its maps; one action per method |
| `Stores` | the two side by side, called as the handlers call them | every call goes to both; `asks` are the `try_lock`s between `lock_token` and the reply to their SET, `guards` the `LockGuard`s; `Tick`, `DropAsk`, `DropGuard` |
| `AbstractStore` | the abstract promise of a store | whole records, dedup keys, locks; per method of the trait an action with its arguments and answer, made of the operator of `RedisStore`; `Expire` for time |
| `Callback` | `domain/callback.rs`, `build_keyboard` | operators only, on texts as sequences of characters |
| `Gateway` | `main.rs`, `server.rs`, `telegram/dispatch.rs` | `stage`, `secret` per replica; `registered`, `updates`, `due` Telegram; `queue` the dispatcher; `calls`, `lost` are history |
| `MCBot`, `MCStores`, `MCGateway` + `*.cfg` | instances for TLC | budgets, records, clocks, ids, symmetry |
| `BotProofs`, `AheadProofs`, `SyncProofs`, `MessageProofs`, `DeliveryProofs`, `AgreementProofs`, `StoreProofs`, `GatewayProofs` | theorems | see section 5 |

The modules make three models that meet at operators and not at variables. `Bot` is the
handlers and uses the store through the operators of `RedisStore`. `Stores` is the store
underneath: `CommandsAsInBot` says that each call is the action of `AbstractStore` of its
name, with the arguments and the answer of the call, and that only time lets keys expire;
as those actions are made of the same operators, the commands do what `Bot` takes for
granted. `Gateway` is the way of a press to
`callback_handler`, where `Bot` takes over: `inbox` is one replica's queue, from which a
press is taken once.

**Tasks.** A webhook task serves one request, `pc` says which await comes next.
As replicas share no memory, which replica a task runs on does not matter. A
callback task is one replica's queue for the one chat: the dispatcher serves
the presses of a chat in order and one at a time (`inbox`).

**Failure.** A Redis write can be refused (`store`) or take effect and lose its
reply (`storeReply`); a Redis read can fail (`store`). A Telegram or Better Stack
request can fail before or after it took effect (`telegram`, `api`). A task can
die before any await (`crash`): the process stops, or the HTTP connection is
closed and the future dropped. Better Stack can give up on a request that goes
on being served and send it again (`timeout`). Keys expire (`dedupTtl`,
`recordTtl`, the locks). One crash takes one task; a stop that takes all tasks
of a replica is as many crashes in a row, which the proofs cover and the runs,
with one crash, do not.

**Bounds.** Every fault, and every input that could recur for ever, is counted in
`spent` against the constant `Budgets`, a set: what happens stays within one of them, so
a run with two budgets covers two kinds of circumstances in one, and not their
combination. `Bot` has no other bound on behaviours. `Stores` runs until the clock
reaches `MaxNow`, `Gateway` has a `Budget` for presses, stops and lost answers. The
number of deliveries of an event is not bounded: Better Stack really retries
10 times, and the model asks for ever. That adds behaviours to the safety checks;
for liveness see section 4.

**Abstractions.**

* Display data (name, url, cause, start time) is left out. An optional timestamp
  with its actor is a flag. What a payload says about the two timestamps is
  chosen freely from subsets of `Metadata`.
* A lock token is the identity of the task in `Bot`, the time on the replica's clock in
  the code and in `Stores`, read (`ReadClock`) up to `MaxDelay` before the SET takes effect
  (`TryLockCall`). `AloneInLease` and `CommandsAsInBot` are why the first may stand for the
  second: two holders of one lock are never within their leases together, even when their
  readings are the same, as long as no reading is ahead of another by a lease
  (`ReadingsClose`).
* Expiry of a lock is any moment at which its holder is gone; expiry under a
  working holder is a fault (`lease`). Expiry of a record is any moment except
  the few awaits between a webhook's `upsert`, which renews the TTL, and its last
  write.
* The API client is one action per attempt: accepted (409 included), a 429 or 5xx
  that is tried again (`RetryCall`), or an error that ends the call, each failure
  with or without effect. Between attempts everybody else goes on. `MAX_RETRIES = 2`
  is not counted: the runs allow one failed attempt (`api`), and the proofs hold for
  any number of them.
* A member may delete a message (`delete`); an edit of it counts as a success, as
  `telegram/mod.rs` has it, and shows nothing. Telegram's throttling is not in the model:
  an edit sets the message or fails.
* Better Stack delivers the events of an incident in order unless the budget has
  `overtake`; one unit of that allows any order from then on.
* In `Callback` and `Gateway` an incident id is a sequence of one-byte characters,
  everywhere else a model value. A random secret is the number of the start that drew it.
* A text in Redis (`RedisKeys`) is the value with the way it was written (`Plain`, `Json`,
  `Decimal`). A field parses only a text written its own way and of its own type
  (`Parse`); anything else is the `AppError` of `fields_to_record`. Strings parse as what
  they are.
* An i64 is the range up to `I64Max`, so that the cast of `INCIDENT_TTL_SECS` wraps as in
  the code. Redis refuses an EXPIRE whose deadline does not fit an i64 of milliseconds, and
  has then executed the rest of the transaction; a negative one deletes the key.
* The answer to a press (`answer_callback_query`) is one step with the release before it:
  its error is ignored, and it changes nothing that another task or a property reads.
* A wrong secret and a malformed body are answered before any state is touched.
* `StatusAfter` and `Possible` are Better Stack's own rules as far as the bot
  relies on them: resolved incidents are not acknowledged, only a resolved one is
  reopened.

**The abstract specification.** `IncidentSync` has a status per incident and the
messages. A status changes in one step from the value it has, by the state
machine, for something that did happen; a message is only given the status that
holds at that moment. `Bot!Sync` maps the stored record to the status and each
message to its id and status; `AtomicUpdates` says that `Bot` implements it. It
is what the lock is for: a handler that acted on a value read before somebody
else's write would take a step the abstract specification does not have.

## 3. The runs

**`MCBot`**: one incident, two webhook tasks (one in `Leases`), one callback task. An incident
has at most three or four events without reopening, so two webhook tasks and one
callback already give every pair of concurrent critical sections of either kind,
plus a third that comes in between; a press needs a message and a message a
webhook, so all kinds of tasks meet. Incidents share no key, lock or message, and
the proofs hold for any number of them.

**`MCStores`**: one incident (keys of different incidents are different). As no command
touches both a lock and a record or dedup key, TLC explores histories of the one and of the
other, not their product (`RecordsOrLocks`). `INCIDENT_TTL_SECS = 0` has its own branch; in
six ticks a record expires, is made a stray by a setter, and is upserted again, several
times. The three records that are written are new, reopened with its message, and
acknowledged: each field goes from set to cleared and back. Three clients have a lease of
three, one clock that is one ahead and a delay of one, which is as much as `ReadingsClose`
allows; six ticks let a lease run out under its holder, a second one be taken, and the late
release of the first come within it.

**`MCGateway`**: two replicas, one of which may be stopped and started again, two presses, one
lost answer; ids that are empty, contain colons so that the data has exactly the limit, or
are too long for a button, with the limit scaled to 7 bytes.

Deadlock is not checked: with everything delivered and no press due the system rests,
which is not an error; the clock of `Stores` ends.
A property with a condition on `spent`, `Settled` or `ReadingsClose` is checked where the
condition holds and is met by runs in which something happens: each has a mutant that
breaks it.

| run | what may happen | properties | what it shows |
|---|---|---|---|
| `Leases` | lease lost, API error, record expires, 2 presses, any order; or lease lost, a reopening and a press, in order; payloads carry an acknowledgement | `TypeOK`, `NeverAhead`, `StartedIsClean`, `OnlyHolderReleases` | these survive overlapping critical sections, half-written records and an earlier life. Two presses are needed to reach the button of a record that has lost its id |
| `Faults` | crash, Redis refusal, lost Redis reply, Telegram error, press, any order; or a reopening, API error, press, any order; or a duplicate by timeout, press, any order | `LockSafety`, `ExtraMessagesPaid`, `SuccessIsStored`, `OnlyReopenLeavesResolved`, `AtomicUpdates` | the lock excludes after any of these; duplicates, retries and races alone never cause a second message; the read-modify-write of each handler is atomic: refinement of `IncidentSync` |
| `Agreement` | any order, Redis refusal, Telegram error, duplicate by timeout, API error, press; or in order a reopening, API error, unknown event, dedup key that expires, deleted message, press | `AckedImpliesApplied`, `StoreInSync`, `MessagesInSync`, `AppliedOnce` | an event that was answered 200 was written, itself and not another of its name. Without reopening the bot ends in agreement with Better Stack, with one message, in whatever order it learns; with one reopening agreement needs deliveries in order, and then holds |
| `Progress` | crash, Redis refusal, press, any order; fair | `EveryEventAcked`, `Converges` | no lock or dedup key blocks an event for ever; the stored status converges |
| `Stores` | time passes, records and dedup keys expire between any two calls; or clocks differ, SETs are late or never arrive, leases are outlived, guards released late or dropped | `HashesParse`, `StoresAgree`, `OnlyStraysLast`, `AloneInLease`, `ReadBack`, `CommandsAsInBot` | no reply fails to parse; the double answers as Redis does; what was upserted is read back, with a TTL of 0 too; a holder is alone within its lease; each command is the operator of `Bot` with its arguments and answer |
| `Gateway` | start, stop, restart, random or configured secret, free routing, lost answers; fair | `PressMeansButton`, `ConfiguredIsSafe`, `SomeReplicaAccepts`, `PressesHandled` | a press reaches the handler as what the button meant, in the end, unless it goes down with a replica |

Every property of these runs has a mutant in `PROJECT.json`: a plausible bug in
the code (a lock without NX, a DEL without comparing tokens, an upsert without
DEL, a status written in another format than it is read, an unmark forgotten, a late
acknowledgement that regresses, a secret drawn twice, a split at the last colon) that the
run finds. The mutated definitions stand beside the real ones, marked `Mutant`.

### Disagreements of code and documentation

Six runs are expected to be violated. Each is the shortest way to a state that
a sentence of `src/README.md` excludes.

| run | property | what happens | the sentence |
|---|---|---|---|
| `CrashLoses` | `AckedImpliesApplied` | death between `mark_event_once` and `upsert` leaves the dedup key; the retry is answered 200 and never applied | "restarts lose nothing" (12, 186) |
| `NotifyLost` | `StatusReflected` | a failed Telegram request is logged, the answer is 200: no message, and no retry | "Receives Better Stack incident webhooks and posts them to a configured Telegram group" (7) |
| `ReopenedTwice` | `StoreInSync` | the key of `incident_reopened` is never cleared: the second reopening within a day is a "duplicate" | "reflected back into the same Telegram message" (9) |
| `LateDuplicate` | `AppliedOnce` | a reopening clears the terminal keys, so a late duplicate of the old resolution resolves the open incident | "duplicate deliveries are no-ops" (187) |
| `NoTtl` | `RecordsExpire` | `set_status` on a record that just expired makes a hash with no TTL | "TTL for incident records" (54) |
| `RandomSecrets` | `AnyReplicaAccepts` | without `TELEGRAM_SECRET_TOKEN` the second replica to start registers a secret of its own, and the first refuses every press from then on | "Every replica calls `setWebhook` with the same URL/secret on startup — idempotent, safe" (188), against "random per boot" (47) |

### Known gaps found by changing a budget or a constant

* `AckedImpliesApplied` with `storeReply = 1`: an error of `mark_event_once`
  returns without unmarking (`webhook.rs:109-114`) though the key may have been
  written; the retry is deduped. The same loss as in `CrashLoses`, without a crash. And
  with `store = 2`: the command after the mark fails, and so does `unmark_event`, whose
  error is ignored (`webhook.rs:125`).
* `StoreInSync` with `lease = 1`: two webhooks both read before either writes, and
  the older status is written last. The 15 s of `webhook.rs:69` are shorter than
  one API request (30 s, `client.rs:19`), let alone its two retries.
* `AloneInLease` without `ReadingsClose`: if a reading may be ahead of another by a lease or
  more, two holders of one lock can have the same token, and the late release of the first
  frees the lock of the second. Clocks that differ do that, and so do equal clocks when a
  task stalls for a lease between `lock_token` (`redis.rs:245`) and its SET (247-255).
* `ReadBack` and `StoresAgree` with an `IncidentTtl` above `I64Max` (19999 in `Stores.cfg`):
  `as i64` (`redis.rs:176`) makes an `INCIDENT_TTL_SECS` of 2^63 or more negative; with
  values close to `u64::MAX`, EXPIRE then deletes the hash that the transaction has just
  written, and `upsert` returns `Ok`. The others are refused, as in the next case.
* `OnlyStraysLast` with an `IncidentTtl` that EXPIRE refuses (5000 in `Stores.cfg`) because
  its deadline would not fit (about `i64::MAX / 1000` seconds and more): the transaction has
  executed HSET, so `upsert` returns an error and leaves a hash that never expires.
  `config.rs:110` has no range; the theorems that depend on it say so (`TtlFits`), and the
  run has a TTL that fits.
* `set_status` with `actor = None` leaves `..._by` as it was in Redis (`redis.rs:214`) and
  clears it in the double (`memory.rs:80`, `84`). No caller does that, so `Stores` does not.
* With random secrets, a replica that registers and stops before it serves
  (`main.rs:41`) leaves the others deaf until some replica starts again;
  `SomeReplicaAccepts` therefore speaks of the moment when all serve.
* A press that is queued when a replica stops was answered 200 and is lost
  (`PressesHandled` excepts it). One whose answer is lost is sent again by Telegram and
  handled twice; no property is about that, as the code of this repository has no part in
  it, and the second time the API answers 409.
* A deleted message is edited for ever and never sent again, and its incident is not
  shown in the chat any more; `MessagesInSync` only asks that it stays the only one.
* The comment "dropping it releases the lock" on `LockGuard`
  (`storage/mod.rs:11`) is not so: there is no `Drop`. A lock whose holder is
  dropped waits for its 15 s, which `EveryEventAcked` takes into account.

## 4. Fairness

`FairSpec` of `Bot` assumes weak fairness of

* every step of a webhook and of a callback task: tokio polls a woken task again,
  and every await ends, as the Redis, HTTP and Telegram clients return an error
  at the latest when they time out;
* the delivery of each incident's pending webhooks, as Better Stack retries them.
  It stops after 10 attempts, so `EveryEventAcked` speaks of deliveries that are
  answered within its patience;
* the expiry of a lock whose holder is gone (`SET NX EX`).

No press and no change of an incident has to happen, and no fault stops by fairness:
faults stop because the budget is spent.

`FairSpec` of `Gateway` assumes weak fairness of

* `Boot`: whoever runs the replicas starts them again, as `--restart
  unless-stopped` does in `src/README.md` (144);
* `Register`, `Serve`: the awaits of `main` end. An error ends the process instead,
  which is a `Stop`;
* `Handle`: the dispatcher serves its queue;
* `Accept`, for each update and not for each replica: Telegram sends an update again
  until it is answered 200, and the load balancer does not for ever avoid the
  replicas that would accept it.

## 5. What is proved

Every safety invariant, every action property and both refinements that the passing runs
check are theorems here.

`BotProofs`, `AheadProofs`, `SyncProofs`, `MessageProofs`, `DeliveryProofs` and
`AgreementProofs` prove about `Bot`, for every set of incidents and tasks, every set of
budgets and every choice of `Metadata`, from the assumptions the modules name
(`IdAssumption`, `OptionAssumption`, `HandlersAssumption`, `BudgetAssumption`,
`MetadataAssumption`: an id is not empty, the chat is not `None`, no task is of both kinds,
`None` is no status, trigger, message id, record or task, a budget is a function to
numbers):

* **`TypeCorrect`**: `Spec => []TypeOK`. Types of the locals depend on `pc`, so `TypeOK`
  says for each step what the locals hold; that makes it inductive as it stands, together
  with `pending` being indices of `timeline`.
* **`MutualExclusion`**: `Spec => []LockSafety`. The invariant is `LockHeld`: a task between
  taking and releasing a lock is the value of the lock key. `LockDiscipline` says what one
  step can do to it (take a free lock, keep, let go of one's own, or lose a lease), action
  by action; `LockHeld` follows, and exclusion from it, since a key has one value.
* **`ReleaseIsOwn`**: `Spec => OnlyHolderReleases`, from the same `LockDiscipline`, and this
  time with lost leases.
* **`OpenIncidentsAreClean`**: `Spec => []StartedIsClean`. What is stored or shown comes
  from the local record of a task, so `CleanInv` adds that the record a task is about to
  store or show is clean (`HoldsClean`), whatever became of its lock. For a callback that
  means a status it will set is never "started" (`ActionCloses`).
* **`NothingInvented`**: `Spec => []NeverAhead`. The invariant `BackedInv` follows a status
  on its way: from the event a request carries and the answer of the API, to the local
  record, to the stored record and the message, each step having been reached in Better
  Stack. It also keeps that a timeline which has begun has a last status change (`HasLast`):
  from a 409 the client concludes that the action is of no use, and `RefusedMeansReached`
  shows that it then has happened. Lost leases do not matter.
* **`HandlersAreAtomic`**: `Spec /\ []Calm => AtomicUpdates`, the refinement of
  `IncidentSync`. `Calm` says that no lease has run out under its holder and no record has
  expired, as in the runs that check the property: with either, a task goes on from a value
  that is no longer stored. The invariant `TrackInv` says what the lock is for: between its
  read and its write a task holds in its locals what a read would give now (`WebhookTracks`,
  `CallbackTracks`), and the message a record names is one of this incident (`Placed`), so
  an edit touches no other. That nobody else disturbs this is `TaskTracks`, from `LockHeld`.
  Then only two writes change a status, each by `NextStatus` from the stored one
  (`WebhookWrites`, `CallbackWrites`); `BackedInv` gives the event that justifies them; and
  what is shown is stored (`ViewShown`).
* **`ResolvedIsSticky`**, **`DoneIsStored`**: `Spec /\ []Calm => OnlyReopenLeavesResolved`
  and `Spec /\ []Calm => []SuccessIsStored`, from the same invariant.
* **`MessagesAreAccounted`**: `Spec => []ExtraMessagesPaid`, by counting. `ExactInv` keeps
  that a handler about to send a message found none in the record and that none has been
  stored since, and that coordinates name a message of the record's id, expired records and
  their strays included. `CountInv` says that the messages of an incident, plus one if it
  may still be sent one (`CanSend`), are no more than what has been paid for; each step
  takes the room there was, or pays (`Accounted`).

The theorems about deliveries have conditions, of the form `Spec /\ []C => ...` with `C` a
bound on what has happened. `CrashLoses`, `ReopenedTwice` and `LateDuplicate` (section 3)
show what becomes of the properties without it.

* **`DuplicatesAreNoOps`**: `Spec /\ []Lasting => AppliedOnce`, when deliveries *are* sent
  twice, after crashes, failed commands and timeouts: `Lasting` is calm, nothing is
  reopened, no dedup key expires and no reply is lost. `KeyInv` says that what was applied
  has its key; `AbsorbInv` is why the clearing of stale keys takes none away: an event that
  was applied has been absorbed by the status, `incident::next` goes back only when
  reopened, and an incident whose keys are cleared is open.
* **`AcksAreKept`**: `Spec /\ []Dependable => []AckedImpliesApplied`: the event that was
  answered 200 is the event that was written. `Dependable`: calm, nothing is reopened,
  nobody dies, no reply of Redis is lost and Redis fails at most once (a second failure can
  hit `unmark_event`); the order is free and requests may be given up. `AckInv` explains
  each dedup key: an event of its name was applied, or a task is between marking and
  applying or unmarking it; and without reopening no event happens twice (`HappensOnce`,
  from `LineInv`).
* **`StoreAgrees`**: `Spec /\ []Dependable => []StoreInSync`, in whatever order the events
  are delivered. All events of a settled incident were applied (`AckInv`), so the status is
  no earlier than the latest of them (`AbsorbInv`), nor later (`BackedInv`); and without
  reopening the status of Better Stack depends on which events have happened, not on their
  order (`OrderedInv`).
* **`MessagesAgree`**: `Spec /\ []Dependable => []MessagesInSync`: exactly one message, and
  it shows the right status or was deleted. `ShownInv`: a stored incident has the one
  message its record names, and the message shows the stored status unless a handler is
  between a write and the edit that follows it (`Updating`). That much holds with reopening,
  too (`FaithfulShows`).
* **`ReopenedAcksAreKept`**, **`ReopenedAgrees`**, **`ReopenedShows`**: `Spec /\ []Orderly
  => []AckedImpliesApplied`, `Spec /\ []Orderly => []StoreInSync` and `Spec /\ []Orderly =>
  []MessagesInSync` for incidents that are reopened, once each. `Orderly`: calm, nobody
  dies, Redis does not fail, no request is given up and none overtakes another; presses,
  failing API and Telegram calls, expiring dedup keys and unknown events may come at any
  time. Here an event of an earlier life leaves no mark in the status, so the argument is
  about order. `QueueInv`: an incident has one webhook task at a time, and it carries the
  first event due (`PromptInv`: and no other task carries that event). `LineInv`: between
  two reopenings Better Stack acknowledges and resolves once. `MarkInv`: a key of an
  acknowledgement or resolution belongs to the present life, or the task that applied the
  reopening is about to clear it; so no event that is due finds a key (`MarkIsNew`). A
  second reopening would find the key of the first: the run `ReopenedTwice`. `HeldInv`: the
  status has absorbed each event applied since the last reopening, and one of that life
  accounts for it, which an action of a callback does as well (`AcceptedSupports`).

In `BotProofs` each action has a lemma of its own for `TypeOK`, and each kind of task one
for the other invariants; the theorems split on `Next`, and their last step is temporal. In
`DeliveryProofs` and `AgreementProofs` each invariant has a lemma saying what a step has to
show (`AckStep`, `KeyStep`, `ShownStep`, `MarkStep`), and one each for the environment, the
webhook and the callback tasks.

`StoreProofs` proves about `Stores`, for every set of incidents, clients and records, every
skew, delay, TTL and horizon `MaxNow` (`TtlAssumption`, `ClientsAssumption`,
`WritesAssumption`, `NoneAssumption`: numbers are numbers and `INCIDENT_TTL_SECS` is a u64,
`None` and `Error` are no value, record or guard, what is written are records). Four of the
theorems need `TtlFits`: `INCIDENT_TTL_SECS` is one that EXPIRE takes at any moment of the
run, which the code does not check (see the known gaps).

* **`CommandsImplementOperators`**: with `TtlFits`, `Spec => CommandsAsInBot`. A lemma per
  method (`UpsertMaps`, `SetStatusMaps`, `TryLockMaps`, ...) shows that the call is the action
  of `AbstractStore` of its name with the arguments that were given, that the answer is the
  same, and that nothing else changes; reading the clock and dropping a guard change
  nothing, and only `Tick` is `Expire`, as many keys may run out at one moment. `RecordsInv`
  says what a key can be: with a deadline it was upserted and has its id, without it is a
  stray or absent.
* **`LeaseIsExclusive`**: `Spec => []AloneInLease`. Not inductive, as `release_lock` frees
  another's lock whose token is the same. `LeaseInv` adds that within a lease the key has the
  token and the deadline of the guard (`KeyIsHeld`), that a token was read at most a delay
  before its guard was taken (`Taken`), and that guards of one incident were taken a lease or
  more apart (`Apart`), so that with close readings their tokens differ.
* **`RepliesParse`**: `Spec => []HashesParse`, for every INCIDENT_TTL_SECS: every field of
  every hash is a text that `Parse` takes (`HashesTyped`), `record_to_fields` and the setters
  keep it so, and parsing undoes writing.
* **`DoubleIsFaithful`**, **`UpsertedHashesExpire`**: with `TtlFits`, `Spec => []StoresAgree`
  and `Spec => []OnlyStraysLast`, from `AgreeInv`, the conjunction of `RecordsInv` (typed
  hashes, who has a deadline, what the double holds then) and `KeysInv` (dedup keys and locks
  with the same deadlines in both).
* **`UpsertReadsBack`**: with `TtlFits`, `Spec => ReadBack`.

`GatewayProofs` proves about `Gateway`, for every set of replicas and ids, every alphabet,
limit and budget (`LimitAssumption`, `NoneAssumption`, `BudgetAssumption`,
`ConfigsAssumption`, `IdsAssumption`: a random token is not a configured one, an id is a
text):

* **`DecodeUndoesEncode`**: the codec, without induction: the first colon of "ack:" and
  "res:" is the fourth character, whatever follows.
* **`HandlerActsOnButton`**: `Spec => []PressMeansButton`. `ButtonInv` adds that updates carry
  what a keyboard offered and that queues and calls hold numbers of updates (`PressInv`).
* **`ConfiguredSecretIsSafe`**, **`LastReplicaAccepts`**: `Spec => []ConfiguredIsSafe`,
  `Spec => []SomeReplicaAccepts`. `ConfiguredInv` says that with a configuration every
  replica that is up, and Telegram, have it. `LastInv` says that when all replicas
  have come past `setWebhook`, the secret of one of them is the one Telegram has: that of
  the last to register. It is inductive because a stop takes a replica back before
  `setWebhook`.

Only model-checked: the liveness properties `EveryEventAcked`, `Converges` and
`PressesHandled`, as the provers do not handle fairness and `ENABLED`. What is said of an
incident that is reopened is proved for a Redis that does not fail, the rest with one
failure; the run `Agreement` does not combine the two either.

## 6. Not modelled

* Logging (`logging.rs`) and the mapping of errors to status codes (`error.rs`): no state, and
  no handler returns an `AppError` to axum.
* The routes and the health check of `server.rs`: no state. A wrong path, a wrong secret and
  a malformed body are answered before anything is touched.
* The parsing of the configuration (`config.rs`): that is clap's. Of its values,
  `TELEGRAM_SECRET_TOKEN` and `INCIDENT_TTL_SECS`, any u64, are parameters of the models.
* The Redis connection, its pool and reconnection, and the key prefix: a command that gets
  no connection is a command that is refused.
* The wording and HTML of messages (`render.rs`) and of answers: no property is about them.
* Characters of several bytes in callback data; ids are ASCII in Better Stack.
* The throttling of teloxide, and the pauses of the API client between attempts: time
  passes between any two steps anyway.
* `FakeNotifier` and the other doubles of the tests, apart from `MemoryStore`.

## 7. Plan

Done: the handlers and their shared world (`Bot`), the two stores (`Stores`), the way of a
press (`Gateway`), with their runs and the theorems of section 5. What would add to it, in
order of importance:

1. `ReopenedAgrees` with a Redis that fails once: an unmarked event comes again, still in
   its turn, so `QueueInv` should stand and `MarkInv` has to follow `unmark`.
2. For `EveryEventAcked`, the safety half as a theorem: a lock that is taken has a working holder
   or can expire, and a task that is not idle has a step to take.
3. A run of `Bot` with two incidents and two callback tasks.
