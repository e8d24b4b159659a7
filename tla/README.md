# A verification project for libunftp

libunftp is an FTP(S) server library. For every client it runs a control loop,
which shares a `Session` behind a mutex with the tasks that serve data
connections, storage calls and logins. This directory holds TLA+ models of the
library and of two of the crates around it, the TLC configurations that check
them, and TLAPS proofs of the properties that matter most. Paths below are
relative to the repository's `src/server` unless they start with `crates/`.

## Inventory

| Component | State | Operations | Interacts through | Hard behaviour | What makes it correct |
|---|---|---|---|---|---|
| Control loop (`controlchan/control_loop.rs`) | position in its `select!` | take a command, an internal message, the idle timeout, shutdown | `control_msg` channel (capacity 1), session mutex | handlers send to the loop that runs them; random `select!` | every command answered or the session over; no wedge |
| Session (`session.rs`) | channel ends, cwd, rename source, REST offset, login and TLS flags, `data_busy` | written by handlers and tasks | mutex | state copied or kept too long | flags and offsets have an owner that resets them |
| Command handlers (`controlchan/commands`) | none of their own | one per FTP command | session, channel, spawned tasks | results arrive in any order | one final reply per command |
| Data connections (`datachan.rs`, `commands/pasv.rs`, `port.rs`) | acceptor, then executor | accept, wait, transfer, report, finish | channel pair made by PASV/PORT | several at once, aborts, timeouts, panics | one transfer at a time; `data_busy` truthful |
| Failed-login policy (`failed_logins.rs`) | map of counters | `failed`, `success`, `sweeper` | read/write lock | two-step critical sections | nobody locked out early, no lockout lost |
| Login (`commands/user.rs`, `pass.rs`, `auth.rs`, `controlchan/auth.rs`) | state, user name, user, TLS flags, storage root | USER, PASS, AUTH, PBSZ, PROT, CCC, TLS upgrade | authentication tasks, `control_msg` | late results of earlier attempts; buffered plaintext | only an authenticated user gets in, to its own storage |
| Enforcement (`controlchan/ftps.rs`, `active_passive.rs`) | none | filter commands | session | checked and used at different times | no login in the clear where TLS is required |
| Notifications (`controlchan/notify.rs`) | sequence counter | presence and data events | listeners | messages name one user, the session another | a LoggedIn event names a user who logged in |
| Switchboard (`proxy_protocol.rs`, `ftpserver/listen_proxied.rs`) | port registrations | reserve, look up, unregister | proxy loop, session locks | stale entries across sessions; one loop for all | a port told is a port kept; every PASV answered |
| Listener and shutdown (`ftpserver.rs`, `ftpserver/listen*.rs`, `shutdown.rs`) | notifier, listeners | accept, spawn, notify, linger | dropping of channel ends | shutdown at any moment, blocked handlers | ends within the grace period, and cleanly if it says so |
| Parser and codec (`controlchan/line_parser`, `codecs.rs`), header of the PROXY protocol | receive buffers | peek, read, decode, parse | control loop | partial lines, CR NUL, buffer limits | no command lost, split or changed |
| JSON authenticator (`crates/unftp-auth-jsonfile`) | credentials | load, `authenticate`, `cert_auth_sufficient` | USER and PASS | two decisions that must agree | exactly the file's accounts, with all they ask for |
| GCS back-end (`crates/unftp-sbe-gcs`) | bucket | one or more HTTP requests per operation | other sessions on the bucket | directories that are only prefixes; pages; check and act | what is listed, entered and removed is what is there |
| Other back-ends and authenticators, metrics | outside world | trait methods | handlers | input and output | out of scope |

`PROJECT.json` lists the components with their status, the hazards at their
lines, and which definition models which lines.

## Modules

Every module is named after the part it models, `MC...` modules give its
constants values for TLC, `...Proofs` modules hold theorems about it.

* `FailedLogins`: the failed-login cache. `failed()` and `success()` take
  two steps, one per guard: a lookup under the read guard and, if needed,
  a write under the write guard. The sweeper scans entry by entry under its
  read guard and removes later. `Tick` is the clock that dates entries. Three
  history variables serve the properties: `consec` and `since` say what the
  policy asks for, `raced` marks keys whose two-step sections have overlapped.
* `Session`: what the tasks of a logged-in session share, namely the session
  record, the mutex as a FIFO queue (tokio's mutex is fair), the `control_msg`
  channel, the channel pairs and the number of commands still `owed` a final
  reply. `DataChan` extends it with acceptors and executors: `conn[c].pc`
  follows a data connection from `accept` over `spawn` (waiting for the lock in
  `spawn_processing`), `select`, `cmd` (waiting for the lock in `execute`),
  `transfer` and `send` (both with the lock) to `fin`. `ControlChan` extends
  that with the control loop and one action per handler, and so composes the
  session. `loop.pc` is `select`, `lock` (a handler waiting for the session),
  `port`, `send` (a handler sending to its own loop), `idle` or `exit`.
* `Access`: the abstract specification of a login, in terms of who may issue
  commands: a user becomes active only once proven, and stays the active one
  until he is logged out unless two attempts have overlapped.
* `Login` implements it. It has USER, PASS and the tasks that PASS spawns
  (`authenticate`, `enter` under the session lock with `Arc::get_mut` on the
  storage, report), AUTH and the upgrade of the connection with the commands
  already buffered, PBSZ, PROT, CCC, and the middlewares in their order. DELE
  stands for the commands that leave a task with a clone of the storage
  behind, PASV and PORT for those that leave a data connection. `Promise`
  instantiates `Access` with the mapping.
* `JsonFile`: the accounts of the JSON file, `authenticate` and
  `cert_auth_sufficient`, and USER and PASS as they use them, with upgrades
  that bring or change the client's certificate.
* `LineParser`: `parse` with every keyword, as operators. `ControlStream` feeds
  it: the header of the PROXY protocol, peeked at and read in chunks, then
  `Framed` and `FtpCodec` with the index it keeps between calls.
* `Switchboard`: the switchboard, the proxy loop with its one-place channel and
  the sessions that use it. The scan for a free port keeps the width
  of the integer type (`Width`).
* `Server`: `Server::listen` with its accept loop, helper processes, the
  control loops as far as shutdown is concerned, and the notifier. The set
  `complete` holds who owns a clone of `shutdown_complete_tx`.
* `CloudStorage`: every operation of the GCS back-end as the requests it makes.
  `objects.list` of the service is external, modelled from how the code calls
  it: a page is the set of the next entries up to a page token, and a listing
  the bag of the names on its pages, as nothing depends on their order there.

Abstractions of the session (`Session`, `DataChan`, `ControlChan`): a
directory, a file or a message's payload is a model value or left out;
`start_pos` is 0 or not; a storage call succeeds or fails; the lock that the
authentication check takes before the handler's is merged with the handler's,
as it only reads `state`, which nobody but the loop changes. PASV's first lock
only reads the binder and is merged the same way. Dropping the session guard
and asking for the lock again is one step. A command or an abort that a handler
hands to a spawned sender task is in the pair's channel at once; the executor
may look at it as late as it likes. The client is logged in; FTPS enforcement and the
proxy protocol are off, as `Login` and `Switchboard` are about them. The
constants `Pipelining` and `AfterQuit` say what the client does: whether it sends
commands before the last one is answered, and after QUIT. Where `AfterQuit` is
false, no command reaches the loop while `ExitControlLoop` is in its channel; the
`select!` itself would take one (`controlchan/control_loop.rs:194`).

Abstractions elsewhere. `Login`: an attempt is right or wrong when it is made;
the failed-login policy is left to `FailedLogins`. `JsonFile`: a certificate is
the set of names its subject contains, or unreadable; a password is a value,
stored either way. `LineParser`: a keyword, or a parameter that one of
them knows, counts as a single byte, because nothing looks inside it.
`Switchboard`: clients wait for the reply to PASV. `Server`: a session's own work is a
handler that ends, fails or blocks. `CloudStorage`: contents of files are left
out; getting a token, cached or not, is part of a request that may fail; without
a root inside the bucket the client's `/` has no object name, and no file command
names it.

Operators introduced as "Mutant of ..." are broken variants of the definition
that follows them; they show that a property depends on that definition.

## Runs

| Run | Instance | What it shows |
|---|---|---|
| `failed_logins` | 1 user, 2 PASS tasks, lockout after 2, sweeper | no early lockout; exact count and lasting lockout where sections do not overlap; expired entries are swept |
| `login` | a user and anonymous, 2 authentication tasks, 1 worker, 1 buffered command, servers that enforce FTPS in different ways | `Login` implements `Access`; events name proven users; FTPS holds at the moment of login; no plaintext command crosses the upgrade; a task keeps to its user's storage |
| `json_file` | every kind of account, alone or replaced by a second entry; two names, two addresses and an IPv6 one | the authenticator admits exactly those who gave all the last entry asks for, by USER alone too |
| `session_sync` | 2 connections, 8 commands with PROT, data TLS; the client waits for replies and sends nothing after QUIT | no deadlock; every command answered or session over, unless a TLS handshake of a data connection has failed; QUIT ends it; REST offset consumed |
| `session_all` | 2 connections, all 22 commands, 2 directories, data TLS; the same client | types; every pending reply answers a command; such a client never wedges the loop |
| `session_pipelined` | 2 connections, 2 storage tasks, 3 commands outstanding, data TLS, commands after QUIT | one transfer at a time; replies accounted for; only a hasty client wedges the loop; only a panicked executor leaves `data_busy` set |
| `session_quit_wedge` | QUIT and DELE, pipelined | see Findings |
| `switchboard` | 2 sessions, 2 addresses, 2 ports, ports modulo 5 | a session holds one port; a client told a port is expected there; a scan that does not wrap misses no free port below the upper limit of the range |
| `switchboard_live` | 2 sessions, 1 address, 1 port | every PASV answered; a session that exits keeps no port, for good |
| `control_stream` | headers up to one past the buffer's capacity, 12 keywords with parameters of CR, NUL, space and letters, encoded or not, 2 lines, any chunks | every line becomes the command that was meant; verdicts on headers are independent of chunks; no line waits for another |
| `server` | 3 connections, 1 may block for ever, shutdown or failure at any moment | shutdown ends; "ok" means no control loop left; loops end; only blocked handlers hold it up |
| `cloud_storage` | 2 sessions; the root, a directory, something in it and a name beside it; any initial bucket, any cut into pages | listings exact, and faithful where another session interferes; RMD and CWD truthful; only DELE removes files |

Bounds. Two data connections are what it takes for one to take the other's
receivers or to clear its `data_busy`. A third would repeat the second, as they
interact through one lock, one flag and one pair of channel ends. Two storage
tasks fill the channel of capacity 1 and leave one waiting. `MaxOwed = 3` lets
a wedge form with one command more than it takes; `FailureCap` bounds the
failures of a key one above the lockout. `session_sync` and
`session_pipelined` use one representative of commands with like handlers
(RETR for STOR and STOU, LIST for NLST, CWD for RMD and RNTO, DELE for the
other storage tasks), `session_all` has them all. In `Login` two authentication
tasks give an early and a late result, and one buffered command is one that was
sent in the clear and waits for the upgrade; `LoginProofs` removes these bounds.
`Switchboard`'s `Width = 5` is no multiple of the two ports, as 2^16 is
in general no multiple of the range's size, so that the sum wraps to a
different remainder. `ControlStream`'s `MinHeader` and `Capacity` are 2 and 4
instead of 13 and 108: every length below, at and above both occurs.
`CloudStorage` has a directory of two levels, so that it has a marker, a file, a
subdirectory, or any mix, and a name behind it, so that a page may end between
them. A data connection whose executor has panicked keeps its place among the
two, so that the properties can tell that it did.
Symmetry is used only where no liveness is checked. `CHECK_DEADLOCK FALSE`
stands where the modelled part may come to rest: a server that has ended, a
closed connection, the wedge of `session_pipelined`, which is real.

Fairness. Tasks that can run do run (the executor of tokio). `select!` picks
among ready branches at random and `mpsc` serves waiting senders in order,
hence strong fairness for taking messages and for sending, and for a session
that is to hear of the shutdown. The acceptor's 15 seconds, the executor's five
minutes, the idle timer and the grace period pass. Storage calls and transfers
end, and in `Switchboard` too the transfer that holds a session's lock: a peer
that neither reads nor hangs up is not covered. In `Server` a blocked handler
may block for ever. Nothing is assumed of the client's commands. In `FailedLogins` the clock
advances, and tasks and the sweeper proceed until it is shut down.

## Findings

QUIT, CWD, RMD and RNTO send to the control loop's own channel of capacity 1
from within the loop. If a pipelined command's task has filled it, the session
hangs, beyond the reach of the idle timeout (`commands/quit.rs:45`, run
`session_quit_wedge`). A client that waits for replies can get there too: a CWD
that it sends after QUIT, even after the 221, may be taken while
`ExitControlLoop` is still in the channel, and CWD's own message then finds no room.
`WedgeNeedsHaste` shows that it takes one or the other: a command sent before
the last was answered, or one after QUIT. With neither the loop is never
wedged (`session_all`).

The models also bear out the following, which no run singles out:

* Two first failures of a key at once count as one (`failed_logins.rs:104`); a
  success removes an entry locked since its lookup (`:139`); the sweeper removes
  an entry touched since its scan (`:165`). `NoEarlyLockout` shows that
  the races only ever err on the lenient side, `ExactWhenUncontended` that
  nothing else goes wrong.
* ABOR may lose to the command it is to abort, even one not yet begun; a
  transfer uses the working directory of the moment its data connection was
  made.
* A TLS handshake that fails on a data connection panics its executor
  (`datachan.rs:404`, `:421`). The 150 gets no final reply, `data_busy` stays set,
  and the branch of the idle timeout then loops without ending the session
  (`controlchan/control_loop.rs:209`). Hence the exception `Panicked` in
  `EveryCommandAnswered` and `OnlyPanicsLeaveBusy`; without it TLC refutes both
  with PROT, PASV and RETR.
* `data_busy` is cleared by the first of two executors (`datachan.rs:126`). The
  idle timeout may then end a session while the second one transfers, whereas
  the comment says that the flag is there "so that it doesn't time out while the
  session is still in progress" (`session.rs:109`).
* A second PASS before the first one's result can change the user of a session
  (`overlap` in `Access`). Without overlap it cannot.
* A stale `proxy_active_datachan` can unregister a port that another session of
  the same address has got since (`proxy_protocol.rs:275`); hence `Alone` in
  `PromiseKept`. A session that ends by timeout or error leaves its port
  registered (`controlchan/control_loop.rs:297`).
* The scan for a port adds in 16 bits: it may skip the one free port if it wraps
  (a debug build panics instead), hence the hypothesis of `ScanComplete`.
  The comment of `reserve_next_free_port` says "(inclusive of the upper limit)"
  (`proxy_protocol.rs:245`), but the scan counts modulo `range_size`, the
  difference of the limits, and never tries the upper one: it tries its
  first candidate twice instead. `Ports` follows the code, and `ScanComplete` is about
  these ports; a client may be refused while the upper limit is free. Without a
  proxy `try_port_range` does include it (`commands/pasv.rs:46`).
* If the lookup of `passive_host` fails, PASV is answered with an error and the
  port stays reserved, untold (`ftpserver/listen_proxied.rs:154`).
* A header whose line feed is at the capacity of the buffer panics the parsing
  task (`proxy_protocol.rs:82`); a peer that closes before its header is
  complete makes it spin.
* RMD of `/` with a root inside the bucket looks at the whole bucket
  (`crates/unftp-sbe-gcs`, `gcs_client.rs:205`). A listing asks for pages until
  there is no page token (`lib.rs:162`), without a bound: if others keep adding
  names behind the token it does not end, so that no termination is claimed.

Read in the code while modelling, and outside the models: executors of data
connections are not waited for at shutdown (the TODO at
`controlchan/control_loop.rs:217`); `service()` has a notifier of its own and
never hears of a shutdown; a passive range without ports divides by zero; in
proxy mode `session.source` is the proxy's address, so that `allowed_ip_ranges` and
lockouts by address apply to it (`control_loop.rs:114`); an entry of the JSON
file with malformed PBKDF2 fields falls back, by `#[serde(untagged)]`, to a
plaintext entry without a password, which nobody can log in to unless it also asks
for a certificate; a bare LF after CR NUL is rejected and a LIST path ends at
its first space; a token of Cloud Storage, cached per control connection, counts
as active up to five seconds after it has expired, where the comment has it "not
expired" and the constant is a `SAFETY_MARGIN`
(`crates/unftp-sbe-gcs/src/gcs_client.rs:438`).

## Proofs

All theorems hold for every value of the constants that satisfies the assumption
named in the component's module (`PolicyAssumption`, `SessionAssumption`,
`LoginAssumption`, `JsonFileAssumption`, `SwitchboardAssumption`,
`ServerAssumption`, `StreamAssumption`, `CloudAssumption`). Each proof has an
invariant that holds initially, is kept by every action, and implies the property.

`FailedLoginsProofs`: `TypeCorrect`; `NeverLockedEarly`, from the invariant
`Tracks` (an entry's count is at most the failures since the last success, and
it is no older than the last failure); `ExactlyCounted` and the action property
`LockoutHolds`, from `UncontendedInv`: for a key that was never raced the
entry is exact (`Exact`), at most one task is between lookup and write
(`OneDecides`), and what it decided at the lookup still holds
(`DecisionsHold`). The last part is what the properties lack to be inductive.

`SessionProofs`: `TypeCorrect` and `OneTransfer` from `Inv`, which adds the
mutex discipline `LockInv` to the types: an executor that transfers and a
handler that sends with the session locked are at the head of the lock's queue.
Types alone are not inductive, because leaving the queue must not leave an
empty one. `BusyOwned` proves `OnlyPanicsLeaveBusy` with and without data TLS,
from `BusyInv`: where `data_busy` is set some executor still runs or
has panicked. `AccountedReplies` and `WedgesNeedHaste` count: every
final reply under way, wherever it is (a handler, the channel, a storage task,
a command in a pair's channel, an executor), is one that a command waits for.
The count is not inductive by itself, because `ExitControlLoop` in the channel
answers nobody; `RepliesInv` adds that no executor sends it (`OnlyQuitExits`)
and that, unless the client sends commands after QUIT, no handler is under way
while it is the next message (`ExitIsNext`). A wedge then takes a reply in the
full channel and another one that waits, hence two commands, or
`ExitControlLoop` in the channel and a command taken after QUIT.
The cardinalities need finitely many connections and tasks, which
`SessionAssumption` says.

`LoginProofs`: `TypeCorrect`, `Implements` (`Login` implements `Access` under
the mapping of `Promise`: the initial states map to initial states and every
step to a step or a stutter) and `EventsTruthful` from one invariant, which
says of every task and message that reports success that its user is proven,
and that two attempts outstanding are an overlap; `Encrypted`, from `Plain`
(over a plain connection nobody is in, or on the way in, who must not be);
`WorkersKeepUser`, from the fact that `Arc::get_mut` fails while a worker holds
a clone; `NotInjected`, from `UpgradeOnly` (only the upgrade changes `cmd_tls`,
and it drops the codec's buffer).

`SwitchboardProofs`: `TypeCorrect`, `OnePort`, `Expected` and
`NothingOverlooked`. The invariant adds to the properties that only a loop in
`select!` has told its client of a port, that the session the proxy loop deals
with is not one of those, that a pending reply stands in the switchboard, and
that a session with a control connection under way has not begun. The scan
rests on `ScanCovers`: without a wrap around the candidates are every port of
the range, which takes division with remainder for an arbitrary range.

`ServerProofs`: `TypeCorrect` and `ShutdownComplete`, from `Counted` (every
control loop, and an accept loop that may spawn one, holds a clone of
`shutdown_complete_tx`) and `Serving` (nobody subscribes once listening is
over).

`JsonFileProofs`: `ExactAccess`, from `Loaded` (the map holds for each user the
entry that no later entry replaces) and `Authenticates`, the case analysis of
the checks.

`ControlStreamProofs`: `HeadersAreExact`, `LinesInOrder` (what has been parsed
is what the lines sent parse to, each line whole, once and in order),
`RequestsAreDelivered` and `NoLineIsLeft`, for every capacity of the buffer,
every header, all requests and all chunks. The invariant `StreamInv` places
the state in the text that proxy and client have sent: what was read of the
header, what the codec buffers and what is on the wire are the text from a
position on (`Tracked`), which is the end of a line or of the header; no line
feed is before `next_index` (`Scanned`) or in the unfinished header
(`InHeader`). `LineAssumption` says that every request and header sent is one
line; TLC evaluates it on the instance. `RequestsAreDelivered` has `ParserExact`
as its hypothesis: `parse` gives what was meant on each line by itself. The
client's `Encoded` puts a NUL after each CR of a parameter and `Kept` takes it
out again; that the one undoes the other, for every parameter, takes induction
over data. On the instance the run of `Delivered` covers it: every request
occurs there as the first one.

`CloudStorageProofs`: `ListingsAreExact`, `DirectoriesAreKnown` and the action
property `FilesGoByDelete`, for every set of paths, bucket, root and number of
sessions. `CloudInv` says what an operation knows while nobody else changes the
bucket: a listing under way shows the names of exactly the entries up to its
page token (`ListKnows`), and RMD between its two requests knows that there is
at most the marker (`RmdKnows`). The order of the entries is strict and total (`BeforeTotal`), so
that a page token splits them in two (`PageAdds`). A directory occurs as a
prefix and, if it has a marker, as an item, which may fall on different pages:
it is listed where its prefix is, and only there (`ListShows`, `NamesOfBoth`).
`ListingsAreFaithful` drops the assumption that nobody interferes. Its part of
`CloudInv` says of a listing under way that it shows what was there all
the time and lies before the page token, nothing that never was there or lies
behind the token, and nothing twice. A page keeps that (`PageRecalls`, with
`NameEntry`: the entry that shows a name is the same in every bucket), and so
does what others change (`DisturbedFits`).

Only model-checked: liveness (`EventuallySwept`, `EveryCommandAnswered`,
`QuitCloses`, `OffsetConsumed`, `PasvAnswered`, `PortFreedOnExit`,
`ShutdownEnds`, `LoopsEnd`, `OnlyBlockedHold`), which is out
of the prover's reach, and the hypothesis of `RequestsAreDelivered`. Every
safety invariant and action property of a run is also a theorem.

## Not modelled

* The file system back-end: every operation is one call of the file system, and
  confinement to the root is the capability library's.
* The REST and PAM authenticators: one request whose answer decides.
* Commands that reply from constants (ACCT, ALLO, FEAT, HELP, MODE, NOOP, OPTS,
  PWD, STRU, SYST, TYPE): they change no state; `LineParser` parses them and
  `Login` has NOOP as their representative.
* The server builder stores options; `service()` serves one connection without
  a listener.
* Formatting of replies and of listings, metrics, logging, tracing.
* The choice of a passive port without a proxy: up to ten random ports until
  one can be bound, which the session takes as success or failure.
* Cryptography: TLS, PBKDF2 and signatures are taken as the yes or no they give.
* Crashes: the library persists nothing, so a restart is a new `Init`.

## Plan

1. `Login` together with `FailedLogins`, so that lockouts meet overlapping
   attempts.
2. Type correctness of `CloudStorage` and `ControlStream` as theorems of their
   own; it is part of their invariants.
