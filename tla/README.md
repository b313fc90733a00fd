# external-dns-docker in TLA+

This directory holds a verification project for `external-dns-docker`: TLA+
modules that model the daemon, TLC configurations that model-check them on small
instances, and TLAPS proofs of the most important properties for every instance.
`PROJECT.json` is its index: components, runs, the source lines behind every
definition, the hazards the properties are aimed at, findings and theorems.

## The system

The daemon reads DNS wishes from the labels of running Docker containers and
keeps a zone on an authoritative server in line with them over AXFR and RFC 2136
UPDATE. It keeps nothing on disk: which records are its own is written into the
zone, as one *ownership TXT record* per name
(`external-dns-docker-owner.<name>`).

| Part | State | Operations | Talks to |
|---|---|---|---|
| endpoint (`pkg/endpoint`) | none | `New`, `InferRecordType` | everything |
| plan engine (`pkg/plan`) | owner ID | `Calculate`: who owns what, what to create, update, delete | controller |
| provider (`pkg/provider/rfc2136/rfc2136.go`) | configuration | `Records` (AXFR), `ApplyChanges` (one UPDATE), `Preflight` | DNS server |
| multi-zone provider (`multizone.go`) | ordered zone list | `zoneFor`, parallel `Records`, sequential `ApplyChanges` | one provider per zone |
| reconcile (`Controller.reconcile`) | `ready` | fetch desired, fetch current, diff, apply | source, provider |
| controller loop (`Controller.Run`) | two timers, a one-place channel, failure count | select loop, debounce handler, backoff | source (callback), reconcile |
| docker source (`pkg/source/docker.go`) | handlers | `Endpoints`, `Watch`, `AddEventHandler`, label parsing | Docker, controller |
| main (`cmd/external-dns-docker`) | settings, zone configurations, context, wait group | parsing of flags, environment and zone file, mode selection, preflight, start, shutdown | all |
| DNS server, Docker, operators (external) | zone, containers | UPDATE processing, events, manual edits | |

The components meet in three ways. The controller *calls* source and provider
inside a cycle. The source *calls back* into the controller from its own
goroutine, through a debounce timer and a channel. And several daemons and
people *share the zone*, which nobody locks: a cycle reads containers, then the
zone, and some time later the server applies an UPDATE without prerequisites.

What is hard here: stale reads (the UPDATE acts on a zone that has moved on);
requests that fail, time out and arrive late, replies that are lost after the
fact; a crash anywhere in a cycle; ownership that is recorded per name while
records have a type; values that are written differently from how they are
compared; several zones without a transaction over them; signals dropped at a
full channel, debounce callbacks that cannot be called back, a timer that every
path has to set again; machine arithmetic in the backoff; a slice of handlers
that two goroutines share without a lock; an event stream that fails and loses
what happens meanwhile; a call to Docker without a timeout; three ways to
configure zones, each from two places. The `hazards` in
`PROJECT.json` give the line where each one bites.

What makes each part correct:

* *plan and provider*: an owner changes only what it has a claim to; nothing it
  wrote loses its ownership record; what is already right is not written again.
* *reconcile*: success means the zone is what the containers ask for; after the
  last change and the last fault the zone converges and the daemon falls silent.
* *multi-zone*: records and companions land in the zone that serves them; a
  partial failure is never success; a bad zone holds up only those after it.
* *loop*: no notified change is forgotten, the loop never waits without a timer,
  every change is read eventually, waits stay within their bounds, Run returns.
* *event stream and main*: an event sent on a stream that lasts is followed by a
  read, from the first moment on; the stream is restored; a signal ends the
  program whatever Docker does.
* *start*: each zone gets its own settings and no setting is silently dropped; a
  daemon that runs has heard from every server.
* *labels*: an invalid label spoils nothing but its own record.

## Modules

| Module | Models | Notes |
|---|---|---|
| `Endpoint` | `pkg/endpoint` | names, targets, record types as records over small sets |
| `Plan` | `pkg/plan` | pure operators, the names of the Go functions |
| `RFC2136` | `rfc2136.go`, and the server (external) | conversions, the UPDATE message, RFC 2136 3.4 processing |
| `ManagedZone` | nothing: the abstract promise for one zone | who may change which records |
| `Reconcile` | `Controller.reconcile` for any set of daemons on one zone | implements `ManagedZone` |
| `MultiZone` | `multizone.go` under one daemon | routing, fan-out, partial failure; implements `ManagedZone` in every zone |
| `Controller` | `Controller.Run` | timers, channel, handler, cancellation |
| `Daemon` | `Run`, `DockerSource.Watch` and the end of `main` together | implements `Controller` |
| `Startup` | `main` up to the start of the controller, `rfc2136.New`, `NewMulti`, `Preflight`, `applyDefaults` | settings, zone configurations, modes |
| `Labels` | `DockerSource.Endpoints` and label parsing | yields what `Reconcile` assumes of labels |
| `MCReconcile`, `MCMultiZone`, `MCStartup`, `MCLabels` | instances for TLC | `Controller` and `Daemon` need none |
| `ReconcileProofs`, `MultiZoneProofs`, `ControllerProofs`, `DaemonProofs`, `StartupProofs`, `LabelsProofs` | theorems about the module of that name | |
| `RFC2136Proofs` | lemmas on the planner, the UPDATE message and the server, used by the first two | |
| `Induction` | two lemmas that make induction over numbers usable | |

`Plan`, `RFC2136`, `Reconcile` and `MultiZone` build on each other by EXTENDS, and
`Daemon` extends `Controller`.

**Refinements.** `Reconcile` implements `ManagedZone` with its own `zone`, `manual`
and `claimed`. `MultiZone` implements it once per configured zone
(`MZ(i) == INSTANCE ManagedZone WITH zone <- zones[i], ...`). `Daemon` implements
`Controller` with `changed <- changed \/ notified`: a change and the event that
tells of it are two steps in the program, and a change that is notified without
having happened since the last read (its cycle was faster than its event) is a
change in the abstract loop. So what is proved of `Controller`'s safety carries over
to the loop inside the program: the refinement is proved (`DaemonImplementsController`).

**Names and values.** A DNS name is a host, the number of ownership prefixes in
front of it and whether it is spelt with a trailing dot, which string comparison
in the planner sees and the server does not. A target has a kind (what
`net.ParseIP` makes of it) and says whether it is spelt the way the provider
will spell it when reading it back; the conversions to and from resource records
forget the spelling where the code's do, raise the TTL to the floor and truncate
it to the wire's width. Endpoint lists are sets; because `indexEndpoints` lets
the last of equal keys win and nobody fixes the order, every possible index is
considered (in `MultiZone` this includes orders the code does not produce).

**Reconcile.** `pc[d]` is where daemon `d` is in its cycle: `FetchDesired` reads
the containers; `NothingToApply` or `SendUpdate` perform the transfer and the
diff, with `--dry-run`; `ServerApplies` is the server; `UpdateSucceeds`,
`UpdateRefused`, `ExchangeFails`, `ExchangeTimesOut` are the ways out of
`ApplyChanges`. A timed-out UPDATE may stay in `late` and be applied any time
afterwards. `Crash` restarts the process with nothing. `manual` and `claimed`
are history variables: the records people answer for, and the names each owner
has a claim to (a container asked for it, or the zone carried the owner's mark
at the start). `calm[d]` says that nothing else moved since the cycle began.

**MultiZone.** A host is its labels, top-level first; `zoneFor` is the loop of
the code as a recursive function, and `ServedBy` the independent definition it is
held against: the longest zone that a name lies in. Transfers return one by one in any order, the per-zone UPDATEs are
performed in configuration order, any set of servers may refuse all UPDATEs.
`claimed` is a history variable as in `Reconcile`: a name is claimed when a container
asked for it or one of the zones carried the owner's mark for it at the start
(`Claims`), because records are merged over the zones before they are compared.

**Controller.** `loop` is the goroutine of Run, `nextTimer` the timer it selects
on (armed, fired with a tick waiting, stopped), `debounceTimer` and `firing` the
debounce timer and the callbacks it has started, `reconcileCh` the channel.
There is no clock: an armed timer may fire at any time. go.mod asks for a Go
version in which `Stop` and `Reset` leave no stale tick in a channel. Durations
wrap at `HalfWord`.

**Daemon.** The goroutine of main registers the handler in two steps, because
`append` stores the slice's length before its element and nothing synchronises
the reader: `handlers` is "none", "torn" or "one". It then runs `Controller`'s
loop and afterwards waits for Watch. The goroutine of Watch subscribes, takes
events from `inbox` and calls the handler, and after a failure, which loses what
is on the stream, waits and subscribes again. `hung` is a container list that
Docker does not answer; it ends with the context. `told` is a history variable:
Docker has sent an event, on a stream that has not failed since, and the
containers have not been read since. `status` is the exit status; a panic is 2.

**Startup.** The inputs (flags, environment, zone variables, zone file) are
variables that never change. A value is the string that was typed, and a constant
says which strings parse and as what; a zone variable is the sequence of its
words, because suffixes are matched at underscores. `Rank` gives the place of a zone's
name in the alphabet, and `Sorted` says what `sort.Strings` returns rather than how. `ScanField` takes the
variables one by one in any order, `ScanReturns` validates, `SelectFile`,
`SelectEnv` and `SelectSingle` are the cases of the switch, `Query` is the
preflight query of one zone with a delay and an answer, `left` what remains of
the context that all queries share.

**Labels.** A label map is a function from field and index to text; constants give
what the two regular expressions, `ParseInt` and `TrimSpace` make of a text. The
containers are listed at once and parsed one by one.

Operators with a suffix such as `zoneFor_First`, marked *Fault injection*, are
plausible bugs; `PROJECT.json` pairs each property with one that TLC shows it to
detect. They are not part of any specification.

## Runs

| Run | Configuration | Checks |
|---|---|---|
| `reconcile_solo` | one daemon, beside a dry-run instance with the same owner ID | `NoOrphans`, `SuccessMeansInSync`, `OnlyOwnedChanged`, `NoNeedlessUpdate`, `Converges`, `Quiesces` |
| `reconcile_pair` | two owners, late UPDATEs | `TypeOK`, `UnclaimedUntouched`, `ImplementsManagedZone` |
| `multizone` | parent, delegated and unrelated zone | `TypeOK`, `AtHome`, `CompanionBeside`, `SuccessMeansInSync`, `Converges`, `ImplementsManagedZone` |
| `controller` | the loop, with and without `--once` | `TypeOK`, `NoLostWakeup`, `NeverStranded`, `BackoffBounded`, `BackoffGrows`, `ChangesAreRead`, `StopsWhenCancelled` |
| `daemon` | the loop, the event stream and main, without the periodic tick | `DaemonTypeOK`, `NoLostEvent`, `ExitStatus`, `ImplementsController`, `Exits`, `Reconnects`, `EventsAreRead` |
| `startup` | mixed and incomplete settings, late servers | `TypeOK`, `EnvZonesAsGiven`, `NoSilentMix`, `Verified` |
| `labels` | plain, indexed, invalid and padded labels | `TypeOK`, `NothingSpoiled` |
| `reconcile_hijack` | expected violation of `ManualUntouched` | finding 1 |
| `reconcile_dual_stack` | expected violation of `NoOrphans` | finding 2 |
| `reconcile_low_ttl` | expected violation of `NoNeedlessUpdate` | finding 3 |
| `multizone_rezone` | expected violation of `Converges` | finding 4 |
| `daemon_once` | expected violation of `OnceStatus` | finding 5 |

Run one with `tlc -config MCReconcileSolo.cfg MCReconcile`.

The following configurations are not among the runs of `PROJECT.json`. Each ends in
a counterexample that is short and shows one of the observations below:

| Configuration | Module | Property that fails |
|---|---|---|
| `MCReconcileLate.cfg`, `MCReconcileReleased.cfg` | `MCReconcile` | `OnlyOwnedChanged` |
| `MCControllerOverflow.cfg` | `Controller` | `BackoffBounded` |
| `MCStartupTSIG.cfg` | `MCStartup` | `NoSilentMixWithTSIG` |
| `MCStartupZero.cfg` | `MCStartup` | `HealthyStarts` |
| `MCReconcileMisfit.cfg` | `MCReconcile` | `CreatesAppear` |
| `MCReconcileObstructed.cfg` | `MCReconcile` | `NoNeedlessUpdate` |
| `MCMultiZoneTwin.cfg` | `MCMultiZone` | `SuccessMeansInSync` |
| `MCMultiZoneOwner.cfg` | `MCMultiZone` | `CompanionBeside` |
| `MCLabelsGap.cfg` | `MCLabels` | `EveryIndexCounts` |
| `MCStartupEmpty.cfg` | `MCStartup` | `ManagesSomething` |
| `MCDaemonOutage.cfg` | `Daemon` | `ChangesTrigger` |
| `MCDaemonHang.cfg` | `Daemon` | `KeepsCycling` |
| `MCDaemonRace.cfg` | `Daemon` | `WatchSurvives` |

**Bounds.** `MaxEdits` bounds what containers and operators do, `MaxFaults` the
failures and crashes, `MaxLate` the UPDATEs left behind at once, `MaxErrors` and
`MaxFiring` the failure count and the callbacks under way. In `reconcile_solo`
two edits and a fault are enough to change a record, take it back, and break a
request in between, starting from any set of running containers; the dry-run instance has
no containers, so that every record of the real one is surplus to it. In
`reconcile_pair` both daemons go through any number of cycles, with one edit, one
fault and one late UPDATE at any point; its labels include a trailing dot, a
label at an ownership name and a TTL below the floor. In `multizone` every set
of refusing servers and every set of running containers is an initial state. In
`controller` the failure count goes up to 22: the shift meets its cap at 21 failures, and
the maximum, which is a little below 7 * 2^20, cuts the wait off there. Two callbacks
can overlap; at `MaxErrors` failures in a row the next cycle succeeds,
which is all that liveness assumes about failures. In `daemon` `MaxInbox` and
`MaxChanges` allow a change before the handler is registered, one during a cycle
and one on a stream that fails. In `startup` two zones share words in their
names, and `MaxDelay` lets an answer be late for a zone's timeout, for the shared
context, or for neither; the zone's timeout is that of one phase of a query (dial, write,
read) and the context that of all of them; the scan of five or six variables goes through every
order. In `labels` two containers have seven label maps with indices up to
`MaxIndex`, and listing the containers may fail.

**What the convergence instances leave out.** `reconcile_solo` has one record
type per name, labels that read back as they were written, and an operator who
does not remove the daemon's ownership records; each of these, allowed, makes a
property fail. The first and the second are the findings below. The third is a
race: an operator removes an ownership record while an UPDATE that relies on it
is under way, and the record it writes is an orphan, or the record it deletes is the
operator's own again (`MCReconcileReleased.cfg`). A late UPDATE can leave
orphans in the same way (`MaxLate = 0` there), and take another owner's record
(`MCReconcileLate.cfg`). `reconcile_pair` allows all of these and shows what remains true: claims only
grow, so `ImplementsManagedZone` and `UnclaimedUntouched` say nothing of a name that has
changed hands, and `OnlyOwnedChanged` is the property that does.

**Fairness.** `Reconcile` and `MultiZone` assume that a cycle that can go on does
(weak fairness of `Cycle` per daemon that writes; a dry-run instance need not run): the loop always has a timer set
(`NeverStranded`), and calls return because AXFR and UPDATE have timeouts. Listing
containers has none (`docker.go:125` runs under the program's context alone):
that Docker answers, or fails, is an assumption about the environment.
Failures are unfair and bounded, late UPDATEs need never arrive. In `Controller`
armed tick timers fire, started callbacks run, and the loop makes progress; the
strong fairness of `Return` is Go's select, which chooses at random among ready
cases. Nothing is assumed about the debounce timer, which events can re-arm for
ever, nor about events arriving at all: `ChangesAreRead` rests on the periodic
tick alone.

`Daemon` states fairness per goroutine (`GoroutineFairness`): what can run runs; a
call to Docker returns once the context is done, and need not before if it hangs;
strong fairness of `ReturnStep` and `WatchLeaves` is select again; strong fairness
of `Subscribe` says that Docker is not down for ever. Nothing is assumed of the
shutdown timeout, so that `Exits` shows that the program does not need it.
`EventSpec`, which the run uses, assumes nothing of the periodic timer and lets the
debounce timer fire, which is justified there because the changes are bounded: so
`EventsAreRead` is about events and not about the next tick. `DaemonFairSpec` has
the periodic timer fire instead; `MCDaemonHang.cfg` uses it.

**Deadlock** is checked where the system goes on for ever. `Startup` and `Daemon` end
(the program runs or has exited), and their configurations say so.

## Findings

1. *Ownership is per name* (`reconcile_hijack`). A container's A record at a name
   where an operator keeps an AAAA record makes the name owned; the next cycle
   deletes the operator's record (`plan.go:93`), against the README's
   "Manually-created records are left untouched."
2. *Shared companion* (`reconcile_dual_stack`). Removing one of two records of a
   name deletes the one ownership record (`plan.go:98`); the other record is
   never updated or deleted again.
3. *TTL floor* (`reconcile_low_ttl`). The planner compares the label's TTL with
   the raised one it reads back and sends the same UPDATE every cycle.
4. *A new zone below an old one* (`multizone_rezone`). Records are merged without
   the zone they came from and deletions routed by name (`multizone.go:117`):
   what is left in the parent is never deleted and deleted in vain every cycle.
5. *Exit status of --once* (`daemon_once`). A cycle that a signal breaks off counts as a
   normal end (`main.go:304`), where the controller's specification asks for a status
   other than 0 on error. `ExitStatus` is what remains true.

Observations that the further configurations show:

* *A name that changed hands* (`MCReconcileLate.cfg`). An UPDATE carries no prerequisites.
  A deletion that its sender gave up on is sent again by the next cycle; if the first
  one is applied meanwhile and another owner creates the same record, the second takes
  that owner's record (`controller.go:240`), against the README's "Only records with a
  matching ownership TXT record are ever modified or deleted."
* *A record taken back*. An operator who removes an ownership record, to keep the record
  itself, loses it to a deletion that is under way (`rfc2136.go:181`).
* *Backoff overflow*. The cap on the shift, which is there "to prevent overflow", bounds
  the factor and not the product: for bases from about 2h26m36s the wait becomes negative
  after 21 failures (`controller.go:107`). `HalfWord` is scaled there: a unit is 2^40 ns.
* *A mark without a record*. An endpoint that cannot be converted, such as an IPv6
  target with record type A, is skipped (`rfc2136.go:207`), its ownership record is
  written, success is reported and the same UPDATE is sent in every cycle.
* *A CNAME beside an MX record*. The provider does not see types it does not know
  (`rfc2136.go:245`), and the server ignores a CNAME where other data exists: success is
  reported and the same UPDATE is sent in every cycle.
* *One zone, two servers*. The merged records hide a server that missed a change
  (`multizone.go:105`); the retry does nothing and succeeds.
* *A zone below the ownership label*. A companion is routed by its own name
  (`multizone.go:109`): a configured zone `external-dns-docker-owner.<name>` takes the
  companion of `<name>`, whose record is in the parent.
* *Gaps in indexed labels*. The loop ends at the first index without a host name
  (`docker.go:208`), without a warning.
* *TSIG flags beside a zone file* are ignored: only host and zone count as single-zone
  flags (`main.go:140`), where the provider's specification names the TSIG flags too.
  `NoSilentMix` is what remains true.
* *A timeout of zero* means ten seconds to the provider and an expired context to the
  preflight check (`main.go:247`). Many slow zones, each within its own timeout, expire
  it too: `HealthyStarts` fails in the instance of `startup` as well.
* *A zone file without zones* starts a daemon that manages nothing and is ready
  (`main.go:580`).
* *Changes during an outage* trigger nothing, also after the reconnect
  (`docker.go:155`); they wait for the periodic tick.
* *A hanging Docker* stops the loop: the container list has no timeout
  (`docker.go:125`). The program still ends when told to (`Exits`).
* *The handlers slice*. An event while `append` is under way calls a nil function
  (`docker.go:143`). The window is a few instructions long.

## Proofs

TLAPS proves the following for every value of the constants that satisfies the
ASSUMEs in the modules that declare them (which TLC evaluates in the runs). Each
theorem states a property that a run checks as well.

| Theorems | Module | Shown |
|---|---|---|
| `ReconcileTypeOK`, `ReconcileImplementsManagedZone`, `ReconcileUnclaimedUntouched` | `ReconcileProofs` | with any number of daemons, any labels and zone contents, any faults, crashes and late UPDATEs, an owner changes records only at names it has a claim to and their ownership names, never another owner's mark; an operator's record elsewhere is never lost |
| `ReconcileNoOrphans` | `ReconcileProofs` | under `Orderly` (below), a record that a daemon wrote never outlives its ownership record, whatever fails, is lost or is restarted |
| `ReconcileSuccessMeansInSync`, `ReconcileNoNeedlessUpdate` | `ReconcileProofs` | under `Orderly` and `Exact` (below), a cycle that reports success has left the zone in sync; with `Unobstructed`, every UPDATE sent has an effect |
| `ReconcileOnlyOwnedChanged` | `ReconcileProofs` | under `Orderly`, what an UPDATE takes away is its owner's at the moment it is performed |
| `MultiZoneTypeOK`, `MultiZoneImplementsManagedZone`, `MultiZoneAtHome` | `MultiZoneProofs` | the same promise in every zone of any list of zones; what the daemon adds to a zone belongs to it, the longest zone that the name lies in |
| `MultiZoneCompanionBeside` | `MultiZoneProofs` | under the `Orderly` of `MultiZone` (below), whichever UPDATE fails and wherever the process dies, a record and its companion are in one zone together |
| `MultiZoneSuccessMeansInSync` | `MultiZoneProofs` | under `Orderly`, `Exact` and `Unobstructed` of `MultiZone` (below), a cycle that reports success has left every zone in sync |
| `ControllerTypeOK`, `ControllerNeverStranded`, `ControllerNoLostWakeup` | `ControllerProofs` | the loop always has a timer, no notified change is forgotten |
| `ControllerBackoffBounded`, `ControllerBackoffGrows` | `ControllerProofs` | under `BaseFits` (base * 2^20 fits a duration), the condition that `MCControllerOverflow.cfg` lacks, waits stay within their bounds and do not shrink from failure to failure |
| `DaemonTypes`, `DaemonNoLostEvent`, `DaemonExitStatus`, `DaemonImplementsController` | `DaemonProofs` | the loop, the event stream and main together: no event is forgotten from the first moment on, a success is never reported as a failure nor a failure as a success unless a signal broke the cycle off, and the program implements `Controller` |
| `StartupTypes`, `StartupEnvZones`, `StartupNoSilentMix`, `StartupVerified` | `StartupProofs` | any settings, zone variables and zone files: each zone gets its own nine settings, modes are not mixed, a running daemon has heard from every server in time |
| `LabelsTypeOK`, `LabelsNothingSpoiled` | `LabelsProofs` | any labels and any number of indices: endpoints are well-formed, and are exactly those (name, target, type and TTL) that the valid labels ask for |

*Reconcile.* Neither the refinement nor `UnclaimedUntouched` is inductive: whether
an UPDATE is harmless was decided when it was computed, from a zone that has
changed since. The invariant `ClaimsInv` therefore speaks about everything under
way: names in the zone are complete (`NamesAreComplete`), every mark in the zone is
for a claimed name (`MarksAreClaims`), what containers ask for, and what a cycle
has read, is claimed (`WantsAreClaims`), and every message, sent or late, touches
only names its owner had a claim to and carries no other owner's mark
(`MessagesAreSafe`). Claims only grow, so a message that was safe when it was
computed is safe whenever it arrives. `PlanSafe` shows that `Calculate` and
`UpdateMessage` produce such messages, `ApplySafe` that the server, performing one
in any order and ignoring what conflicts, preserves the invariant. Each step then
maps to `Claim`, `Manage`, `Operate` or a stutter.

*NoOrphans* is false in general: finding 2 is a counterexample with two record types
at one name, and since an UPDATE carries no prerequisites, a late one or a second
writer can undo a mark. `Orderly` in `Reconcile` states what it takes, as a condition
on the constants: one daemon that writes (any number in dry-run mode), no late
UPDATEs, nobody removes ownership records, labels without a trailing dot or the
ownership prefix, one record type per name, and at the names that may be managed at
most one record to begin with, spelt as the provider spells it. The instance of
`reconcile_solo` satisfies it; those of `reconcile_pair`,
`reconcile_dual_stack` and `reconcile_hijack` do not. The property is not inductive:
a Delete takes the companion away, and is harmless only if it also takes the record.
`OrphanInv` adds that the zone is `Tidy` (each managed name has at most one record
that the provider sees, and what it reads there is what it would write) and that the
message under way is `Sound` for the zone as it is now: what it creates it marks,
what it replaces is there, and what it unmarks it removes. `PlanSound` shows that
`Calculate` produces such messages, `ApplySound` that the server, performing one in
any order, leaves no orphan, and `SoundStable` that the operators' edits between
transfer and UPDATE do not spoil it.

*OnlyOwnedChanged* is the same question for what is removed. Whether a record is the
daemon's was decided at the transfer, so the invariant `RemovalsAreOwned` follows the
message under way: the names it removes or replaces at still carry the owner's mark, or
the record is a mark of the owner. `PlanRemovesOwn` shows that `Calculate` produces such
messages, `LossesAreOwn` that the server takes nothing else away, whatever the order,
since what an added record replaces at a tidy name is one of those. Only the daemon
itself writes marks (`RemovalsQuiet`), which is what `MCReconcileLate.cfg` and `MCReconcileReleased.cfg` lack.

*SuccessMeansInSync* and *NoNeedlessUpdate* need more of the labels, and `Exact` says
what: a label is written as one record that reads back as that label. It excludes
TTLs below the floor (finding 3), targets that do not fit their record type
(`MCReconcileMisfit.cfg`) or are respelt, and records with TTL 0. `PlanShape` describes
what `Calculate` returns for a tidy zone; from it `PlanComplete` shows that the UPDATE
writes or keeps a record for every endpoint, unless the name is somebody else's, and
removes what nobody asks for (`Complete`), `CompleteSyncs` that the server then leaves
the zone in sync, and `PlanNeeded` with `NeededChanges` that an UPDATE from a plan that
is not empty has an effect. The invariant `SyncInv` follows a cycle: while nothing else
moves (`calm`), it has read what containers ask for, then sends a plan for the zone as
it is, and is in sync once that is applied. `NoNeedlessUpdate` needs `Unobstructed`
besides, which the attempt to prove it showed: the provider does not see an
operator's MX record at the name of a CNAME label, the server ignores the CNAME and
answers NOERROR, and every cycle sends the same UPDATE again
(`MCReconcileObstructed.cfg`). `SuccessMeansInSync` counts
that name as somebody else's place. The instance of `reconcile_solo` satisfies all
three conditions.

*MultiZone.* The operator lemmas are the same (`RFC2136Proofs`). What is new is the
routing. A mark in one zone gives a claim to its name in all of them, since the
merged records carry no zone; so the claims that `ManagedZone` starts from in each
zone are those of all zones (`Claims`). For `AtHome`, `ZoneForIsLongest` shows by
induction over the zone list that the loop of `zoneFor` finds the longest zone a
name lies in, `RoutedIsServed` that what is sent to a zone is served by it, and the
invariant `HomeInv` adds the messages not yet sent (`PendingAtHome`).

*CompanionBeside* and *SuccessMeansInSync* rest on one fact, `SplitPlans`: the daemon
makes one plan from the merged records of all zones and splits it, and each part is a
plan that `Calculate` could have made from that zone's own records and the labels whose
names it serves. So the lemmas about one zone apply to each of them. The fact is false
in general, and `Orderly` in `MultiZone` says when it holds. The zones differ:
otherwise the merged records hide a server that missed a change
(`MCMultiZoneTwin.cfg`). No zone begins with the ownership label: otherwise a companion
and its record are routed to different zones (`MCMultiZoneOwner.cfg`; `CompanionServed`
shows that nothing else parts them). What the provider sees at a managed name, and the
daemon's marks, are where they are served at first: otherwise deletions go to the wrong
zone (finding 4). The rest is what `Orderly` asks in `Reconcile`. `OneServes` and `AtHome`
then give that the merged list, taken at the names of a zone, is that zone's list
(`Housed`); `PlanRestricts` and `ChangesForNames` show that `Calculate` and `ChangesFor`
commute with taking some of the names, although each index may choose differently
among endpoints with one key.

`CompanionInv` adds to `CompanionBeside` that the merged list is still true when it is
used (`CurrentIsFresh`: no zone changes during the transfers), that every zone is `Kempt`
(`Tidy`, and its records attended), and that every UPDATE waiting for its turn is
`Sound` for its zone as it is now: the ones before it went to other zones. `SyncInv`
follows a cycle in which no container changes: a zone whose turn is still to come has a
plan pending for what it holds now, and every other zone is in sync, because its part
was carried out or was empty. `Exact` is the one of `Reconcile`. `Unobstructed` asks for
more than there, because `InSync` of `MultiZone` makes no exception for names that
somebody else holds: what the provider sees at a label's name is the daemon's.
The instance of `multizone` satisfies all three conditions, those of `multizone_rezone`
and `MCMultiZoneTwin.cfg` satisfy the last two and not `Orderly`. TLC evaluates the
three conditions in the run (`InstanceAssumption` in `MCMultiZone`), and `Orderly` of
`Reconcile` in `reconcile_solo` (`SoloAssumption` in `MCReconcile`).

*The loop.* `NoLostWakeup` is not inductive because of the cycle that takes a signal
and fails before reading the source; `WakeupInv` adds that the timer is set whenever
the loop selects and follows the token (armed timer, callback, channel, cycle begun)
that every notified change leaves behind. `BackoffGrows` needs that `delay` is what
the failure count makes it, and that doubling and capping are monotonic.

*Daemon.* A step of the program is a step of the loop, of the stream or of main, and
the refinement maps each to a step of `Controller` or a stutter. For `NoLostEvent` the
invariant ties the handler's registration to the state of the loop: before the
handler is there the first cycle is still to come and its timer is `Prompt`.

*Startup.* The invariant `StartupInv` says that the configurations collected so far
are those of the variables scanned so far. The heart is that a variable's words
have one reading: `KeyIsRead` and `ReadIsKey` show that the first suffix that
matches is the field that was meant, although `TSIG_SECRET` is the end of other
words and names may hold any of them. The rest follows the three modes to `Build`.

*Labels.* The invariant is that what is returned and what is still to be parsed
make up what the list asks for (`NothingLost`); `LoopFacts` shows what the loop over
the indices returns, by induction from the last index downwards.

*Induction.* The library states induction for an arbitrary predicate, which the
provers cannot apply. `SetInduction` in `Induction` states it for a set of numbers,
from the well-foundedness of the order, and a proof names the set of the numbers for
which its claim holds. The recursive functions `zoneFor` and `endpointsFromLabels`
also need that the recursion has a solution (`LoopExists`), by the same lemma.

What the proofs changed: `ValidIndices` called an index invalid when its TTL label
is there and empty, which the code accepts (`docker.go:247`); the claims of
`MultiZone` left out marks that are found in another zone; `NoLostEvent` had to
say which timer is a promise of a prompt read. The properties now say so, and the
instances have such labels and marks.

*Only model-checked*: everything temporal under fairness (`Converges`, `Quiesces`,
`ChangesAreRead`, `StopsWhenCancelled`, `Exits`, `Reconnects`, `EventsAreRead`), which
is out of the prover's reach. Every invariant and every other property of the passing
runs has a theorem. Some of the theorems have hypotheses: `Orderly`, `Exact`,
`Unobstructed` and `BaseFits` are conditions on the constants, not assumptions of the
modules, and the runs named with them show what happens without.

## Not modelled

* The health server and metrics: HTTP and Prometheus wiring. The bit it reports,
  `ready`, is a variable of `Reconcile` and `Controller`. That readiness is never
  taken back is what the comment on `IsReady` says, so no property is claimed.
* TSIG signing, transports and the options of the Docker client: they decide
  whether a call fails, and every call may fail in the models.
* Regular expressions, YAML and number syntax: constants say what is accepted. One table,
  `Numeral`, stands for the texts of integers, booleans and durations: a text that one
  option accepts is accepted by all.
* The letter case of names. The planner compares names as they are written and the server
  does not tell their cases apart; names in the models differ for both or for neither.
* In `MultiZone`: `--dry-run`, `ready`, several daemons and late UPDATEs, which are in
  `Reconcile`. The steps of one zone are the same code.
* A minimum TTL per zone: `RFC2136` has one, as a constant, and `MultiZone` uses it
  for all zones. What a floor does to convergence is finding 3.
* Logging, interfaces, and the fake provider and source, which only tests use.

## Plan

The plan this project began with is carried out. What could follow:

1. `MultiZone` with a minimum TTL per zone, and `Blocked` names as in `Reconcile`, which
   would let `Unobstructed` go.
2. The liveness properties by hand-made ranking arguments, should the prover come to
   support them.
