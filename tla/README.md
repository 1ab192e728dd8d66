# A verification model of otp-relay-backend

TLA+ modules for the OTP relay in this repository: the claim manager, the
WebSocket hub, the two composed as `main` wires them, the push fan-out, and the
REST API with its sessions, devices, invites and the life of the process. TLC
runs check them on small instances, TLAPS proofs establish their properties for
every size.

`PROJECT.json` names, for every definition, the lines of source it models
("map"), every run, every hazard of the code with the properties aimed at it,
and the theorems.

To repeat a result, from this directory:

    tlc -workers 2 -config ClaimCore.cfg MCClaimManager
    tlapm ClaimManagerProofs.tla

## 1. The system

A source (an Android phone) posts the ciphertext of an OTP; the relay announces
it to all destinations (PWAs) by Web Push; a destination claims it; after a
window in which a second, rival claim would kill it, the payload goes to the
claimant over its WebSocket.

| component | state | operations | interacts with |
|---|---|---|---|
| claim manager (`internal/claim`) | `pending`: the open window of each OTP, under `mu`; a timer per window | `Ingest`, `Claim`, `resolve` (timer), `invalidate`, the janitor's sweep | the otps table, the hub through `Sender`, the push fan-out |
| otps table (`internal/db`) | a row per OTP: status, claimed_by, expires_at | INSERT, SELECT, the two UPDATEs, each atomic (one pooled connection) | claim manager |
| hub and handler (`internal/ws`) | `clients`: device → live client, under `mu`; a send channel and two pumps per connection | `ServeHTTP`, `register`, `unregister`, `SendToDevice`, `readPump`, `writePump`, `trySend` | registry (token), dispatcher → claim manager |
| push fan-out (`internal/push`, `dispatchPush`) | a goroutine per subscription and one results channel per broadcast | `Notify`, `Broadcast` | devices table, push services |
| registry and devices table | a row per device: type, token, push_sub, revoked | `Register`, `Authenticate`, `List`, `PushTargets`, `Revoke` | handler, API, fan-out |
| REST API (`internal/api`) | none of its own; the requests in flight | push, claim, devices, invites, login/logout, behind two gates | all of the above |
| invites table | token, created_at (expires_at and used are written and never looked at) | insert, latest | onboarding handlers |
| sessions (`internal/totp`) | none: the cookie is signed, its expiry is in it | verify code, issue, validate | API |
| process (`main`) | up, draining after a signal, database closed, down | start, signal, `srv.Shutdown` and its ten seconds, the deferred calls | all |
| configuration | durations, secrets | load, validate | all |

What connects them: a read pump calls the dispatcher, which calls `Ingest` or
`Claim` **on the pump's own goroutine**; an HTTP handler calls the same two.
`Claim` and the timer's `resolve` call `SendToDevice`, which looks a client up
under the hub's lock and sends to its channel after releasing it. `Ingest`
calls `Broadcast` synchronously.

### What is hard about it

- `Claim` reads the row, *then* locks; `resolve` unlocks, *then* reads the row
  again, *then* updates it, *then* sends. Every gap admits the janitor, another
  claim, a whole other window, a crash.
- `timer.Stop` cannot recall a `resolve` that has started, and `resolve` finds
  its window by OTP id: it may take a later window than its own.
- A channel has two closers and two kinds of sender, and only the map is locked.
- A reconnect leaves two connections of one device alive for a while.
- `Broadcast` waits for all push services, without a deadline, on the goroutine
  of the source.
- Revocation marks a row; nothing that has already been authenticated or listed
  is told.
- A goroutine that sends to another device's channel may find it closed. What
  becomes of the panic depends on whose goroutine it is: `net/http` recovers a
  handler's, nothing recovers a timer's or a pump's.
- A send never waits and its result is dropped, so an answer can be lost at every
  hop, and after the row has been marked claimed.
- A request passes its gate, runs one or two statements and is answered; the
  signal, the end of the grace, the closing of the database and the death of the
  process can each fall between two of these. Handlers that wait for a body or
  for push services have no time limit of their own.
- `handleCreateInvite` reads the clock before it inserts, so invites do not
  arrive in the order of their stamps.

### What makes each part correct

- claim manager: an OTP is decided once, in favour of a device that claimed it,
  and killed only by two distinct devices; the payload never leaves unsettled;
  every claim taken in is answered; windows do not leak.
- hub: a device's entry is its newest connection, closed exactly once; an old
  connection never takes the new one with it; dead connections go away.
- fan-out: it ends only when all of it has ended, reports exactly the dead,
  signals only what is stored and only to devices that may hear it.
- registry: a revoked device gets nothing it had not already been let in for.
- API: what a response has told a client is durable; a session ends with its
  cookie; the QR is not stale; a signal stops the process.
- the composition: an envelope only ever travels to its addressee, is lost only
  for a reason one can name, and nobody inside the manager waits for a socket.

## 2. The modules

| module | what it is |
|---|---|
| `OTPTable` | the otps table and its four statements; time to live instead of time stamps |
| `ClaimManager` (extends `OTPTable`) | `internal/claim` in full |
| `ClaimContract` | the abstract specification that `ClaimManager` implements |
| `ClaimManagerProofs` | the invariants of `ClaimManager` |
| `ClaimRefinement` (extends the former) | it implements `ClaimContract`; no claim is forgotten, and what a fair schedule adds: every claim is answered |
| `PromptProofs` (extends the former) | what a punctual schedule adds: one delivery, in time, the tighter contract |
| `Hub` | `internal/ws` in full, with revocation and restarts |
| `HubContract` | the abstract specification that `Hub` implements: one line per device, sending in one step |
| `HubProofs` | its theorems, the refinement among them |
| `Relay` | `ClaimManager` and `Hub` composed as `main.go` does |
| `RelayProofs` | its theorems, on top of those of its two components |
| `DeliveryProofs` (extends the former) | the relay from end to end: one receiver, the contracts as wired, nobody waits |
| `PushFanout` | `Ingest`'s insert, `dispatchPush`, `Broadcast`, `Notify`; the devices they list |
| `PushContract` | the abstract specification that `PushFanout` implements: one call, each destination asked once |
| `PushFanoutProofs` | its theorems, the refinement among them |
| `Access` | `internal/api` over devices, invites and sessions, and the life of the process |
| `AccessProofs` | its theorems |
| `MC…` | the symmetry sets for TLC; bounds are in the `.cfg` files |

Operators called mutants in the comments stand right before the definition they
distort. They are not part of the model; each one is a plausible bug that makes
a property fail ("mutants" in `PROJECT.json`).

### ClaimManager

An element of `Call` is one activity: a `Claim` call and, if it opened a window,
the timer it armed and the `resolve` that the timer starts. Its `pc` says where
it stands; the functions are cut where the lock is taken and where the table is
read or written. A claim whose row is refused (`ClaimRefused`) depends on nothing
but the row, so it is one step; all others go through "enter".

`life[o]` is `expires_at - now`, floored at zero. All comparisons with the clock
in the code are `expires_at <= now`, so nothing else about the time stamps
matters, and the model needs no bound on time. `left` is the same for a timer.

`out` is the envelope the current step hands to the `Sender`. `joined`, `rivals`
and `paid` are history variables, used by properties only. `Faults` lets
statements fail (`"db"`: a sweep too, which is then left to the next tick), the process die (`"crash"`) and the sending of an
answer panic on a handler's goroutine (`"panic"`). A crash empties `pending` and
all activities, and leaves the table; `Unwind` is the recovered panic, which only
an `invalidate` that has a second claimant to tell can feel. `Prompt` makes time
stand still while any goroutine could run.

`ClaimContract` forgets goroutines, windows and time: rows, the set of devices
that are owed an answer (`Owing` is the refinement mapping), and the envelope
being sent. Its parameters `AwardFrom` and `KillFrom` say which statuses a
decision may overwrite. The documents would have `{"pending"}`; the code's
unconditional UPDATE gives what `AnySchedule` and `PromptSchedule` say. `Lossy`
allows `Forget`, the one step of the contract that drops a claim unanswered: the
manager takes it in `Unwind` only.

### Hub

A `Conn` is one `Client`: device, state of its two pumps, whether its channel is
open, how many frames are in it, whether its socket is up. `register` and
`unregister` are atomic (they hold the lock); `SendToDevice` is two steps,
`Lookup` and `Push`, because it does not. A read pump that has a frame to answer
itself is "replying", one inside `OnPush` or `OnClaim` "dispatching". Frames that
were buffered before the socket went may still be read after it (`Receive`), until
the read fails (`ReadFails`). A send to a
closed channel or a second close ends the process (`panic`), unless the goroutine
is in `Handler`: `net/http` recovers those. `Restart` (`restart: unless-stopped`
in docker-compose.yml) may come at any time, after a panic or for another reason.
`Collect` makes an ended connection's name free for reuse.

`HubContract` is the hub as those who send through it see it: a device has one
`line` at most, a frame goes onto the line the device has at that moment, and
there are no pumps, locks, channels or looked-up clients. The mapping: `line` is
`clients`, `admitted` the device of an upgrade under way, `load` what is queued,
`past` the connections whose channel is closed and that are not collected yet,
`fate` is `panic`. That `SendToDevice`'s lookup and its send, which may be
separated by a reconnect, amount to one step is the point: a channel that is
still open when the send comes is that of the device's current connection, so
the step takes effect at the send; otherwise it dies, which the contract allows
only while some line is past. The closing of a channel twice is not among its
ways to die.

### Relay

A step of `Relay` is a step of `ClaimManager` (`M`), a step of `Hub` (`H`), or
one of each. What it adds is where things are: `by[c]` is the goroutine on which
the claim of activity `c` runs (a read pump inside `OnClaim`, a REST handler; a
timer's goroutine is named by its activity), `mail[g]` the envelope with which
goroutine `g` is inside `SendToDevice`, `box[k]` what is queued in connection
`k`'s channel. `Advance` is a step of an activity, and puts what it sends into
the mail of its goroutine, which then does nothing else until `SendToDevice` is
through: `Offline`, or `Lookup` and then `PushQueues`, `PushUnwinds` (a handler's
panic, with it `Unwind` if an `invalidate` was not done) or `PushDies`. The
manager's faults are thereby no longer free choices: the panic is the hub's.
`Prompt` is passed on to the manager; the run has it `FALSE`, which admits every
schedule.

### Access

One `req` record per request in flight: sent, admitted by its gate, inside its
handler ("stamped" and "waiting" are the two handlers that have an inside), done
and on its way back. `Refuse` is the four handlers that read a body sending it back. What the client knows (`known` tokens, `gone` devices,
`shown` invites, the browser's cookie) changes when the response arrives, which it
may fail to do. A cookie is its expiry. `phase` is the process: a signal closes
the listener and starts the grace, `CutIdle` is `srv.Shutdown` closing connections
whose request it has not begun to read (it waits for the others only), `Close` the deferred `database.Close`, after
which every statement fails, `Exit` and `Kill` end it, `Start` starts it again on
the same tables.

### PushFanout

One `Ingest` per OTP. An entry of the subscription list, its goroutine and its
result are named by the device the entry came from, since two devices may hold
the same subscription. `Receive` takes any result in the channel: the order of a
buffered channel is the order in which goroutines happen to finish. Subscriptions
in `Deaf` belong to services that accept the request and never answer.

`PushContract` is what the announcement is to whoever asks for it: a call that
stores the OTP, draws up a list, asks the service of each destination on it once,
in any order, and returns when all were asked, with exactly the subscriptions
found gone. The mapping: `phase` is the call's `pc`, `due` the entries listed,
`asked` and `missed` those whose goroutine has a result, whether it is still in
the channel or was received; `report` shows the collected list only when the call
has returned. Receiving a result is therefore a stutter, and the counting that
ends the collecting loop has to give the contract's `asked = due`.

## 3. The runs

| run | instance | what it shows |
|---|---|---|
| `claim_core` | 3 devices, 1 OTP, 3 activities, TTL 2, window 1, db faults, crashes, panics | invariants, `SettledStays`, `NoClaimForgotten`, `KeepsContract` |
| `claim_prompt` | 3 devices, 4 activities, TTL 3, prompt schedule, crashes | one delivery at most, never late; the tighter contract |
| `claim_live` | 2 devices, 3 activities, db faults, fairness | every claim answered, every OTP decided, every window closed |
| `claim_neither` | 2 devices, 4 activities, prompt | *violated*: a rival is paid after the OTP was killed |
| `claim_atomic` | 2 devices, 3 activities, prompt | *violated*: a row is marked claimed that is no longer deliverable |
| `hub_core` | 2 devices, 3 connections, 1 caller, buffer 1 | the map, the channels, displacement, revocation; `KeepsHubContract` |
| `hub_live` | a source and a destination, 2 connections, 1 caller that is a handler, buffer 1, fairness | connections wind down |
| `hub_send` | 1 device, 2 connections | *violated*: `SendToDevice` panics |
| `hub_reply` | 1 device, 2 connections | *violated*: a displaced client's answer panics |
| `relay` | 2 devices, 1 OTP, 2 activities, 1 connection at a time, 1 handler, buffer 1, TTL and window 1, crashes and panics | why answers are lost, nobody is stuck |
| `push` | 3 devices, 2 subscriptions, one deaf, fairness | fan-in, revocation; `KeepsPushContract`; who waits for whom |
| `access` | 1 device, 2 invites, 1 browser, 2 requests at once, session 1, grace 1, clock to 2, db faults, fairness | durable answers, revocation, sessions, the QR; the shutdown |

Why the bounds are enough. OTPs do not interact (each window and row is its own),
so one suffices for the claim runs. A race needs a resolve that has taken its
window, an activity that opens a second window and one that closes it as a rival:
three activities and, to have a stranger besides the two rivals, three devices.
`claim_prompt` and `claim_neither` add a fourth activity. TTL 2 and window 1 let a
row be swept, lapse during a window, lapse between two steps, and outlive one
window but not two; TTL 3 in `claim_prompt` lets it outlive two windows in a row,
so that only the settled status, and not the clock, forbids a second delivery. In
the hub the interesting connections of a device are the current one, one
displaced and one being upgraded: three, with a second device to be confused
with. A buffer of one is full as soon as it is not empty. In the fan-out two of
three devices must be able to share a subscription while the third has another.
In `access` two requests make every race between a pair of handlers; the device
and the two invites that exist one after the other are the objects they race on;
a clock of two ticks leaves room for a session to end, or for the grace, before
and after something else. The sets in `Workloads` confine a behaviour to
operations that can meet on a table, a cookie or the shutdown (a device's DELETE
with its other requests, its creation and the list; the session's end with what it
gates; two mints with the QR); each of them
contains whatever it takes to get at the others' preconditions (a login, say), and
`EnoughIds` says that identifiers do not run out. `relay` affords one connection
at a time, so a client there can be looked up and be gone before the send, but
not be displaced by its device's next connection while it lives. What depends on
that is left to `hub_core` and to the proofs, which have no bound; `WireIsRight`
is therefore a theorem and not a property of the run. Symmetry is used in
safety runs only.

The theorems hold for all of these constants, so the runs matter most for what
they cannot say: the violations, and what liveness and `NobodyIsStuck` take from
ENABLED (section 4). They also show that no property is vacuous: every one has a
mutant that the run refutes.

Deadlock is checked in every run.

### Fairness

- `ClaimManager!Fairness`: weak fairness of each activity's next step (a
  goroutine that can run is scheduled; a timer whose time has come fires), of a
  sweep that succeeds (`Swept`: the janitor tries again at every tick, and the
  database does not fail it every time) and of time. None for `Ingest`, claims, crashes.
- `Hub!FairSpec`: weak fairness of what a read pump does by itself, of the writing
  of frames and the noticing of the closed channel (`Writes`; a write is bounded
  by `writeWait`), and of the return of `OnClaim`, which waits only for a mutex and
  the database. Strong fairness of `ReadFails`: a socket that is gone leaves
  finitely many frames in the buffers, so the read pump comes to the error however
  often it is busy with one of them. Nothing makes a write fail, so an idle healthy
  connection may stay for ever. None for peers, for callers, or for the return of
  `OnPush`: a source's read pump may be inside a broadcast for ever, and the
  liveness properties say so (`Stuck`).
- `Access!FairSpec`: weak fairness of the gates (the header is read within
  `ReadHeaderTimeout`), of handlers that read no body, of the response, of time,
  and of the way out once it is open (`Close`, `Exit`). None for a handler that
  reads a body or waits for the fan-out: nothing in the code bounds those, and
  `RequestEnds` excepts them while `SignalledStops` holds in spite of them.
- `Relay` states none: `NobodyIsStuck` is a safety property about what is enabled.
  It is what justifies the fairness that `Hub` assumes of the return of `OnClaim`.
- `PushFanout!FairSpec`: weak fairness of the collecting goroutine, and of each
  Notify whose service is not deaf.

### What the violated properties say

Each one quotes a document or comment, and fails by what the code does; see
"findings" in `PROJECT.json`.

- `NeitherReceives`. `resolve` deletes the window and unlocks before it reads and
  marks the row. In between a new window may open, and a second claim may close
  it: both its devices are told the OTP is invalidated, and then the first
  `resolve` delivers to one of them.
- `AtomicClaim`. The re-check in `resolve` and the UPDATE that follows are two
  statements, and the UPDATE has no condition.
- `SendReturns`, `ReconnectIsSafe`. Sending on a channel that `register` or
  `unregister` has closed panics, in a timer's goroutine, a handler's or a pump's.

They are facts about the code as it is. What holds in spite of them is in the
passing runs: a device that was told of an invalidation may still be paid, but no
two devices are ever paid under a punctual schedule (`AtMostOneDelivery`); a row
may change from one decision to the other while activities that overlapped have it
in hand, but it never becomes pending or expired again, and the decision is final
once they are through (`SettledStays`), a panic that takes down the process
included.

## 4. The proofs

Proved for every value of the constants: type correctness of all five components,
every safety invariant and action property the runs check, the refinements (the
claim manager's two, the hub's and the fan-out's), and two bounds on how many
steps a claim can take; and, from hypotheses that are named below, `NobodyIsStuck`
and every liveness property. They rest on the named assumptions in the modules
that declare them (`TableAssumption`, `ManagerAssumption`, `HubAssumption`,
`RelayAssumption`, `PushAssumption`, `AccessAssumption`): `None` is not one of the
values it stands beside, the TTL and the buffer are positive, the devices of a
fan-out, and the requests and invites of `Access`, are finite in number. The
window may be zero, except in `PromptProofs`.

**ClaimManagerProofs.** `WindowHasTimer` is not inductive by itself: to know that
closing a window cannot orphan another activity's timer one needs what each
program counter promises about its locals (`CallsOK`), and to know that whoever
is recorded has claimed, that the claimants of an open window are in `joined`
(`WindowsJoined`). With these the invariant is
`TypeOK /\ CallsOK /\ WindowHasTimer /\ WindowsJoined /\ PaidSettled /\
OnlyRivalsInvalidate /\ WinnerClaimed`. The proof first shows what a step can do
to the table (`TableWriters`, `PayloadWriters`) and that histories only grow;
each invariant then needs only the steps that write what it reads. The delicate
one is `PaidSettled`: a resolve about to deliver has a settled row, and no step
of any other activity unsettles it (`SettledStaysStep`). `SettledStays` is proved
as an action property from that same lemma and `UnattendedStep`: with no window
and no goroutine on an OTP, only a sweep could write its row, and not a settled one. `WorkIsBounded` gives each activity a
measure of what it has left (`Remaining`, six at most) that its own steps bring
down and nobody else's bring up, not even a timer stopped by a rival. It needs
from `CallsOK` that an answer goes to one device or two, never to a longer list.

**ClaimRefinement.** A device is owed an answer either by a call or by the open
window (`OwedSplit`), and a step changes one or two calls and one window. So a
step passes its claims on (`PassedOn`: `Owing` does not change), or is done with
one claimant (`OneDropped`). `Accounted` lists which step of the contract each
step of the manager is, with what it takes to lose a claim: `ManagerKeepsContract`
reads the refinement off it, `NothingForgotten` that only answers, crashes and
unwound handlers end a claim. The invariant is the one above and `RowsExist`.

**PromptProofs.** Under `Punctual` (time stands still while a goroutine can run,
a window is not zero, no statement fails) one activity at most is due on an OTP
while its row can be delivered (`OneDue`). A timer becomes due with the clock
only, and then every other goroutine is at rest; so the row can only be in the
hands of a timer whose window is still open, or else some resolve or invalidate
took the window and has decided the row before the clock moves
(`OrphanDecided`). That gives one sender at a time, of a row nobody was paid for
(`OneSender`, `NothingPaidYet`), and, since nothing that is under way outlasts
the row's time (`InTime`), delivery in time. `MarkOpen` adds what the tighter
contract needs: an award overwrites no earlier award. Each condition is needed:
with a window of zero, with statements that fail, or with goroutines that lag
behind the clock, two devices can be handed the payload (the changes to
`ClaimPrompt.cfg` that show it are `Window = 0`, `"db"` among `Faults`, and
`Prompt = FALSE`).

**HubProofs.** The two halves, "the map names running clients" and "a running
client is open exactly while it is in the map", are proved together, with
`UpgradingIsOpen` for clients not registered yet. `QuietStep` disposes of all
steps that leave the map and the places of the pumps alone; what is left is
`Register` and `Unregister`. That no channel is closed twice falls out of the
proof that neither can find its client shut. `MapWriters` gives the two action
properties. `HubKeepsContract` adds `Settled`: a client that has gone is shut, one
that is being upgraded has nothing queued, and one that somebody holds from a
lookup is past its upgrade and not collected. `OpenIsCurrent` is the linearization argument (an open channel belongs
to the current connection of its device); the `Maps` lemmas then say, for each
action, which step of the contract it is, or that it is none.

**RelayProofs.** `RelayRunsManager` and `RelayRunsHub` come first: hide one
component and the relay is a run of the other, so the components' invariants
hold in it and are not proved again. The rest is about one idea, that a goroutine
is in one place at a time (`ConnOK`, `HeldOK`): a pump inside `OnClaim` reads no
frame, so its connection does not end before it returns; a client that was looked
up is past its upgrade and is not collected while it is held, so its name does
not go to another device. With `BoxOK` and `MailOK` (what is under way is the
addressee's, and a payload's row is settled, which it stays by `SettledStays`)
this gives `WireStaysRight`, which also ties every payload on its way to a device
that the manager has recorded as claimant and as paid. `EveryLossHasItsCause` goes by the hop an answer is
at: a claim of the manager's that ends puts an envelope into its goroutine's mail
(`NothingForgotten`), mail leaves to a queue or for a listed reason, and a queue
only loses its head to the writer or everything with its connection.

**DeliveryProofs.** Three questions about the relay from end to end.
*Who receives?* A payload on its way is for a device in `paid` (`BoundIsPaid`,
from the invariant above), and a punctual manager pays one device at most
(`OneDelivery`): so `PayloadHasOneReceiver`, whatever reconnects or reuses of a
connection's name lie between decision and delivery. *Do the contracts survive
the wiring?* `WiringKeepsContracts` reads both off the projections of a run of
the relay. *Does anybody wait?* `JInv` adds that a pump or handler has one claim
in hand (`OneJob`), and that one inside `SendToDevice` with its claim unfinished
has told the first of two rivals (`InHand`). From this `GoroutinesProceed`: a pump
inside `OnClaim` is sending, or its claim's next step can be taken, or it can
return; and a panic in a handler cuts off nothing but the second rival's notice.
`ClaimsAreShort` multiplies `Remaining` by the three steps a send may take: no
claim keeps a pump from its read loop for more than eighteen steps of its own,
and no other goroutine can add to them. Its one exception is the step in which
the process dies. The condition of `PayloadHasOneReceiver` is met by states that
matter: with `Prompt = TRUE` and `TTL = 2` in `Relay.cfg`, payloads do travel. With
`TTL = 1` none does then, as the row lapses at the very tick that ends the window.

**AccessProofs.** The invariant is `TypeOK`, what a request's place promises of
the tables (`RequestsOK`: a response of success on its way is already true of the
database), that no cookie is good for longer than a
session from the last one issued for an accepted code (`SessionsOK`),
`AnsweredIsStored`, and, for the liveness proofs, that a draining process has a
deadline (`StopOK`). Rows are never
deleted and revocations never undone, so what was true when the statement ran is
true when the response arrives, whatever became of the process in between.

**PushFanoutProofs.** `FanInExact` rests on counting: `Broadcast` returns when it
has as many results as entries, and since each result was taken once and came
from an entry (`IngestOK`), equal cardinality of a subset of a finite set means
all of them (`FS_Subset`). The same counting is the step of `PushKeepsContract` at
which `Broadcast` returns; `ListStands` gives it that the subscriptions of a
fan-out remain those of the devices it listed, since a device's subscription
never changes once it is registered. Revocation is tied to listing by `HeardOK`: whoever was
revoked when the OTP was stored is not in its list.

**Liveness.** Nine theorems: `WindowsAreClosed`, `EveryOtpIsDecided` and
`EveryClaimIsAnswered` (`ClaimRefinement`), `DeadConnectionsLeave` and
`DisplacedConnectionsEnd` (`HubProofs`), `NobodyIsDelayed` and `SourceIsAnswered`
(`PushFanoutProofs`), `RequestsAreServed` and `StopCompletesInTime`
(`AccessProofs`). Each says of the behaviours called `Scheduled` in its module
that they have a property which the run checks of `FairSpec`. `Scheduled` is
`Spec /\ []Fairness` (which is `FairSpec`: fairness holds of a behaviour if it
holds of its suffixes) with two facts the provers cannot reach:

- `GuardsSuffice`: an action is enabled when its guard holds. ENABLED is only a
  name to the provers, so this link between a guard and a weak fairness condition
  cannot be made by them. It is a state predicate, and TLC finds it an invariant
  of the instances in section 3; it is stated of the few guards a proof uses.
- `CountdownsEnd` (`CountdownEnds` in `AccessProofs`): if a number always falls by
  one until something happens, it reaches zero or that happens. Every behaviour
  satisfies it, by induction on the number; but the library's induction is about
  sets of numbers, and a temporal formula does not define one.

Everything between is proved: which steps keep a goroutine where it is, which one
takes it on, that a helpful step stays possible until it is taken, and that what
is counted (a timer, a row's time, frames in a closed channel, results still to
come, the grace) falls. The one strong fairness condition is used in
`ReadingLeaves`: a read pump whose socket is gone keeps coming back to the read. `~Prompt` is there because the proofs let time pass
whatever the goroutines do, which a punctual clock does not; `claim_live` checks
that schedule. `Calm` (nothing
kills the process, nothing unwinds a handler) is in `EveryClaimIsAnswered` alone,
since those are the two ways to lose a claim that `NothingForgotten` names.
`EveryClaimIsAnswered` follows a claim through the hands it can be in: the lock's
queue, an open window, a `resolve` or `invalidate`, which may fail at every
statement; `CallRests` gives that nobody else takes it from there, and `HeldMoves`
that the next step answers it or brings `Remaining` down, to nothing in three.

Two invariants were needed that the safety proofs did without. `WritersOK`: a
write pump that has ended has closed the socket, so a displaced connection's read
pump has an error to find. `EnoughInvites`: as many invite tokens are left as
requests that will mint one, so a handler past its time stamp is never without an
identifier; this is about the model's finite supply and the reason for the two
finiteness assumptions of `Access`. That a latest invite exists to be rendered
(`LatestExists`) is the one use of well-founded induction.

`NobodyEverStuck` (`DeliveryProofs`) is `NobodyIsStuck` from `GoroutinesProceed`,
which has the guards, and a `GuardsSuffice` of its own.

Only model-checked, and why: the hypothesis `GuardsSuffice` of these ten theorems,
since it is about ENABLED, and the liveness properties as runs of `FairSpec`
without any hypothesis, on the small instances. The violated properties are shown
by their counterexamples.

## 5. What is not modelled

- Ciphertexts and their encoding, the wording of messages, logging, device names:
  data that nothing depends on.
- Cryptography: that a TOTP code, a cookie's signature or a token cannot be made
  up is assumed, and so is that identifiers (`internal/id`) are fresh.
- Code that is never called: `GetInvite`, `MarkInviteUsed`, `GetDeviceByID`,
  `Registry.Get`. An invite's `expires_at` and `used` columns are written and
  never looked at (`handleInviteQR` shows the latest invite after it has expired
  too); nobody can redeem an invite in this repository. Dead push subscriptions
  are counted and logged, and no statement removes them. There is no step to
  model in either case; the subscriptions and the expiry are listed as hazards with
  a note.
- That `resolve` answers "expired" for a row that was invalidated is in the model
  (`Reload`), without a property of its own.
- CORS, the router's matching, `/health`, the handling of malformed configuration;
  the key-generating commands; nginx and Docker files.

SQLite is taken to run one statement at a time and to keep what it has committed.
The wall clock never goes backwards. `Access` and `Relay` are not composed with
each other: a handler of `Relay` is a `claim` request of `Access` that has passed
its gate, and what the two share is the process, which each lets die at any time.

## 6. State and plan

Done: all components that keep state or order steps, the composition of the claim
manager and the hub, the contracts of manager, hub and fan-out, each shown to be
kept, and the proofs above, which state every property of the passing runs.

What could come next, in the order of what it would tell:

1. `Relay` with the fan-out: sources whose read pump is inside `Broadcast` while
   destinations claim the OTP it announces. `Hub` and `PushFanout` each have their
   half of that (`Stuck`, `NobodyWaitsForTheDeaf`).
2. A larger `relay` instance, with displacement, once a reduction makes it
   affordable; the proofs cover it meanwhile.
3. A relay over `HubContract` in place of `Hub`: `WiringKeepsContracts` says that
   nothing is lost by it, and it would leave room for the first two.
4. A contract for `Access`: what a client may conclude from its responses, without
   the requests in flight.
