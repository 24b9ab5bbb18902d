# A verification of wslcsession

`wslcsession` is a Go library that boots a private wslc VM on Windows, holds
it through COM, and hands out `net.Conn`s into it. This directory holds TLA+
models of it, the TLC runs that check them and the proofs
that TLAPS checks. File and line references are to the repository.

    tlc -config Session.cfg Session     # one run
    tlapm SessionProofs.tla             # the proofs of one component

`PROJECT.json` lists the runs, which definition models which lines, the mutant
that each property is known to catch, the hazards, findings and theorems.

## 1. The system

| Component | State | Operations | Modelled in |
|---|---|---|---|
| Session (`session.go`) | `reqCh`, `closed`, `closeMu`, `stopped`, `closeOnce`, COM references `mgr`, `sess` | `NewSession`, `comThread`, `do`, `Close` | `Session`, `ComExecutor` |
| Guest connections (`session.go`, `conn.go`) | `bridgeDone`; per connection `process`, two socket handles, two `sync.Once` | `dial`, `ensureBridgeMounted`, `releaseProcess`, `Read`, `Write`, `CloseWrite`, `Close` | `Dial` |
| Relay in the guest (`bridgesrc/bridge.c`) | two polled descriptors, one buffer | connect, poll loop, `write_all` | `Bridge`, `Pipe` |
| Provisioning (`bridge.go`, `bridgesrc/entrypoint.sh`) | sources in a host directory, cached binary in the guest | extract, build once, exec | `Provision` |
| COM and Winsock layer (`com.go`, `comapi.go`) | COM references and wrappers; per process: security, Winsock | `initCOM`, `activateSessionManager`, `CreateSession` ... `Release`, `send`, `recv` | `ComApi` |
| Options and flags (`options.go`, `types.go`, `cmd/wslcdemo/main.go`) | none; widths of numbers | `orDefault`, `volumeFlag.Set`, `validate`, `toOptions` | `ComApi` |
| Docker proxy (`cmd/wslcdemo/proxy.go`) | listener; per client a handler, two copying goroutines, the channel `done` | `runProxy`, `handleProxyConn` | `Proxy`, `Pipe` |
| Demo (`cmd/wslcdemo/demo.go`), stub (`unsupported.go`) | none | - | not modelled |

**How they interact.** One goroutine, `comThread`, is pinned to an OS thread
and makes every COM call of a session. `do` sends it a closure over `reqCh`
and waits; `dial`, `releaseProcess` and the accessors are sequences of `do`.
`dial` mounts the bridge sources in the guest, spawns `entrypoint.sh`, and
wraps the process's stdio sockets in a `guestConn`, whose `Read`, `Write` and
`CloseWrite` are Winsock calls made from any goroutine, and whose `Close` ends
in a `do` again. In the guest `entrypoint.sh` builds and execs the bridge,
which splices its stdio with a socket of the target. The proxy is a client of
all this: it accepts TCP connections, takes a `DockerConn` for each, and copies
in both directions until both are done.

**What is hard.** Any goroutine may call into a session or a connection that
another one is closing (`session.go:35-44` tells of such a panic). A `do` that
comes too late runs nothing and says nothing, and its caller goes on with zero
values. COM keeps some things per thread and some per process, and its results
come back in registers of which only half is defined. Socket handles are small numbers that the system reuses. Half-closes
come in either order and must not lose data. First calls race to build one
file. Any COM call may fail half way through a sequence.

**What makes each part correct.**

- *Session*: no send on a closed channel; closures run only on live references;
  `Close` returns after teardown, for every caller; volumes are all or nothing;
  nobody waits for ever.
- *Connections*: shutdown and closesocket hit only the connection's own
  sockets; nothing is leaked or released twice; no nil process on the COM
  thread; a dial without error is a connection.
- *Relay*: each direction is a reliable stream whose end is independent of the
  other's.
- *Provisioning*: torn files do not last; the binary is built once.
- *COM layer*: a reference for every object obtained, none left at the end;
  sessions of one process start in any order; numbers arrive as asked.
- *Proxy*: two hops in a row are a stream per direction; handlers end; every
  way out of `runProxy` closes the session and the listener.

## 2. The modules

`ComExecutor` is the contract of `NewSession`, `do` and `Close` in terms of
requests that are called, run or skipped, and returned. `Session` is the
code: `pc[c]` is the program counter of a goroutine inside `do` or `Close`,
`thread` that of `comThread`, `ctor` that of the goroutine in `NewSession`.
Each action is the code between two points that another goroutine can observe:

| Code | Actions of `Session` |
|---|---|
| `NewSession` | `NewSessionReject`, `NewSessionStart`, `NewSessionReturn` |
| `comThread`, startup | `InitCOM`, `ActivateSessionManager`, `CreateSession`, `CreateVolume`, `VolumesDone`, `Abandon`, `Fail`, `Ready` |
| `comThread`, loop and end | `Receive`, `RunRequest`, `DetectClosed`, `Terminate`, `ReleaseRefs`, `CloseClosed` |
| `do` | `DoCall`, `RLock`, `CheckStopped`, (`Receive`, `RunRequest`), `RUnlock` |
| `Close` | `CloseCall`, `OnceEnter`, `OnceWait`, `LockAnnounce`, `LockAcquire`, `StopAndCloseReqCh`, `Unlock`, `AwaitClosed` |

`closeMu` is modelled as Go's `RWMutex`: a writer first announces itself, which
holds back new readers, and then waits for those inside. The steps of
`Abandon` and of `ReleaseRefs` are one action each because no other goroutine
can tell them apart. A failed `Terminate` leaves the VM to the last release,
as sessions are never persistent (`README.md:77-83`).

`Dial` takes one step per `do`, which the refinement `Session` =>
`ComExecutor` justifies: a closure runs alone on the COM thread while the
session is open, or not at all, and its caller does nothing meanwhile.
`open` is the negation of `stopped`. `conn[d]` holds the locals of dial `d` and
then the fields of its connection. `owner` is the handle table of the process:
`GetStdHandles` takes free handles, `CloseSocket` frees a handle *whosever it
is*. A `Write` is several sends, with other goroutines between them.

`Pipe` is a reliable stream: bytes in order, end after close, unless broken. It is a
contract and translates no code, so the map does not list it.
`Bridge` has a record of the same fields per direction with the bounded queue
before and after the bridge; the loop of `bridge.c` is the same code for both
directions, so its actions take the direction as a parameter and `pc` gives
the order. `read` and `write` move any number of bytes that fits. A write to a
peer that is gone ends the process (by `EPIPE` or the `SIGPIPE` before it), as
does an error of poll or a failed connect. `Up` and `Down` are the instances
of `Pipe` that the two directions refine.

`Provision` has the three states of a source file that `writeIfChanged` can
meet (absent, other than embedded, as embedded), the truncation and the write
of `os.WriteFile` as separate steps, and the cache as the file under its name:
which run's linker wrote it, whether it is whole, whether it is executable.
It is the one module in which the map leans on tools that are not in the
repository: the linker unlinks an older output, makes the file under that
name executable at the end, and unlinks its output when it fails, which the script
does not do for it. `LinkKilled` is the case in which nobody does: the container
goes, what was written stays.

`ComApi` has one thread per session of the process, from its options to its
last `Release`, one action per COM or Winsock call. A call chooses the HRESULT
among `HResults`, and the register that holds it among those with that lower
half and any upper half of `Upper`; `hrErr`, `isHRESULT` and `Int32` are applied
to the register, as the code does it. `refs` is what the service has handed out,
`wrapper` the `ptr` fields in Go. Words are scaled: with `Half` = 8 an HRESULT
has 4 bits instead of 32 and a size 8 instead of 64, so that every wrap-around
happens among a few inputs; `MiB` and `PerMs` are scaled alike. `security` and
`winsock` belong to the process, `apartment` to the thread; `OtherSecurity` is
other code of the process that sets the security first. `InputTypes` gives an
input Go's types; a volume flag's size may be any integer. Strings are valid or
have a NUL. The interleavings inside one session are `Session`'s and `Dial`'s
and are left out here. `StackMoves` says whether the Go stack may move between
the conversion of `&sessionPtr` to a number and the system call.

`Proxy` has the steps of `runProxy` (`main`, `session`, `listening`), of each
`handleProxyConn` (`handler`, `done`) and of its two goroutines (`copier`), whose
`io.Copy` is a loop of `CopyRead` and `CopyWrite`. `flow[c][f]` is one direction of
one client: bytes waiting at the source, in the buffer and at the destination,
as counts, since queues keep their order. The guest connection, the bridge and
the target are one bounded queue per direction; that is the `Pipe` which
`Bridge` implements. The two queues are not independent in the system, since the
bridge is one loop that may sit in `write_all` towards a target that does not read.
For safety that makes no difference, it only removes behaviours; for liveness
`Fairness` allows for it: reads of the guest connection are only forced while
`BridgeFree`. `Dial` returns what `Dial.tla` finds: a connection, an error
or, while the session stops, a connection without sockets or without process.
`Interrupt` is the Ctrl+C goroutine, `Exit` the end of `main`, which no handler
survives.

`MCDial` and `MCProvision` add the symmetry sets of the safety runs, `MCComApi`
the inputs. Definitions marked
*Mutant* are wrong on purpose and used by no specification; each is the bug
that a property must detect when it replaces the definition after it.

## 3. The runs

The type invariant `TypeOK` of each module is checked in its safety run, next to
the properties below.

| Run | Bounds | Checks |
|---|---|---|
| `session` | 4 goroutines, 2 volumes, no symmetry; deadlock checked | `NoSendOnClosedChannel`, `RequestsMeetLiveSession`, `CloseReturnsAfterTeardown`, `AllOrNothing`, `IInv`, `ImplementsComExecutor`, `DoReturns`, `CloseReturns`, `NewSessionReturns` |
| `dial_safety` | 2 dials, 2 closing goroutines each, 3 handles | `TeardownOwnsSockets`, `ClosedConnHoldsNothing`, `ProcessReleasedOnce`, `HandlesNeedProcess`, `SpawnFindsBridge` |
| `dial_live` | 1 dial, 3 closing goroutines | `DialReturns`, `ConnCloseReturns` |
| `bridge` | 3 bytes each way, queues of 2, buffer of 2 | `UpIsPipe`, `DownIsPipe`, `EofArrives`, `RelayEnds` |
| `provision_safety` | 2 sessions, 3 runs in each guest | `MountedSourcesWhole`, `CacheHeals` |
| `comapi` | 2 sessions, words of 4 and 8 bits, 9 inputs, 3 HRESULTs with 2 upper halves, buffers of 2 | `ReferencesKept`, `InitComposes`, `SettingsAsAsked`, `VolumeAsAsked`, `IoIsExact` |
| `proxy` | 1 client, 2 bytes each way, queues of 2, buffer of 2 | `NoIoOnClosedGuest`, `CrashOnlyInShutdown`, `NothingLeftOnReturn`, `EndToEnd`, `ClientSeesEnd`, `HandlerEnds`, `ShutdownReturns` |

*Why these bounds.* With three goroutines one can hold `closeMu` for reading
while a second waits to write and a third waits behind it, and two can call
`Close` beside a `do`; the run has one more. Two volumes are the fewest with a partial success. Two
connections need four handles, so with three a second dial gets handles that
the first has closed, and the third `Close` of one connection meets both a
running and a finished once. A queue of two with a buffer of two gives short
reads, short writes and full queues; three bytes put data in every place of a
direction at once. Three runs give two racing builds and a run that starts
after one of them. The inputs of `comapi` are at the edges of the widths: nothing
set, the largest value, the first that wraps to 0 and to 1, less than a
millisecond, volumes whose bytes wrap to 0 and to one unit, and each malformed
flag; two sessions are enough to start second. The HRESULTs are `S_OK`, `S_FALSE`
and a failure, beside `RPC_E_TOO_LATE`. One client is enough for `Proxy` because
handlers share only the session, whose steps may come at any time, and a crash;
the short reads and writes of a buffer of two are those of `Bridge`.
Goroutines repeat their calls without bound in `Session`;
the only counters are the bytes of `Bridge`, `Proxy` and one buffer of `ComApi`,
the sends of one `Write` and the volumes.

*Fairness.* `Session`: weak fairness of every goroutine's own steps, since Go
schedules runnable goroutines and we assume that COM calls return; strong
fairness of `Receive(c)`, because Go serves blocked senders of a channel in
order. Nobody is forced to call `do` or `Close`. `Dial`: weak fairness of the
steps of dial and Close; that `do` returns is `Session`'s `DoReturns`.
`Bridge`: weak fairness of the bridge and, in `FairSpec`, of both readers;
`ClientReadSpec` drops the target's reader. `Proxy`: weak fairness of its
goroutines, of `DockerConn` (`DialReturns` in `Dial`) and of `session.Close`
(`CloseReturns` in `Session`); clients read, and the target does as long as its
client does. Reads of the guest connection (`CopyRead` and `CopyEnd` of the way
back) get on only while `BridgeFree`, that is, while the target has read
everything there is for it, because the bridge serves both directions in one loop.
That is weaker than what the loop does, which comes round whenever the target has
taken one buffer; with a bounded number of bytes it is enough. `Accept` is only
forced to fail once the listener is closed, and nobody is forced to press Ctrl+C,
to send or to close. Without the fairness of the target's reads TLC refutes
`ClientSeesEnd`, by the stall that `bridge_independent` shows; `HandlerEnds` and
`ShutdownReturns` hold without it. Deadlock is checked in `session`; in the
others everything may have been called, sent and closed.

### Findings

Five further runs state what a comment or doc says, and TLC refutes it.

- `dial_panics` (`NoPanic`): `Close` of the session before the spawn of a `dial`;
  the skipped closures leave a nil process and a nil error, and `dial` returns a
  `guestConn` on handle 0 without error. `Close` of that connection evaluates
  `process.Release` on a nil interface, before `do` could skip anything.
  `CrashOnlyInShutdown` shows what that means for the proxy: Ctrl+C while a
  handler is in `DockerConn` may end in a panic, and nothing else does.
- `dial_strays` (`OwnStreamOnly`): a `Write` has a send left when `Close` closes
  the handle; a new dial receives the same handle value; the send goes to the
  new connection's process. The same holds for `Read`.
- `bridge_independent` (`EofIndependentOfStdin`): the target answers and
  half-closes without reading the rest of the request; the bridge sits in
  `write_all` and never closes stdout. The proxy's client then waits with it, which
  is why `ClientSeesEnd` assumes a target that reads.
- `provision_once` (`BuiltOnce`): two first calls both find no binary and both
  build it. `CacheHeals` says what that may do to the cache: the chmod of one build
  can reach the file of another, and if that one's linker is then killed (but not if
  it fails), a half-written executable stays until the VM goes.
- `comapi_moves` (`CallsReachObjects`, with `StackMoves`): `vtblCall` takes plain
  numbers, so `&sessionPtr` is neither moved to the heap nor followed when the
  stack moves; the result is written to the old stack, and the next method is
  called through nil. `coCreateInstance` is safe because `LazyProc.Call` is
  compiled with `go:uintptrescapes`. The run `comapi` has `StackMoves` FALSE.

## 4. The proofs

`SessionProofs` proves for every set `Callers` and every `MaxVolumes`:
`TypeCorrect`, `NoPanicOnSend`, `LiveRequests`, `CloseBlocks`,
`AllOrNothingHolds`, and `Refinement`, `Spec => ImplementsComExecutor`. The
assumptions are `CallersAssumption` and `VolumesAssumption` of `Session`: the
value `Nobody` is no caller, and the bound is a natural number.

*The argument.* None of the properties is inductive. That a goroutine in the
send finds `reqCh` open depends on Close having waited for the readers; that it
did depends on who is in the read set, on the lock state being owned by the
one goroutine that `closeOnce` let in, and on what that goroutine has done so
far. `IInv` puts this together: `CtorInv` (until `NewSession` has returned
nobody else acts, and `comThread` answers once), `RefInv` (the references,
VM and volumes at each point of `comThread`) and `LockInv` (readers are the
goroutines between `RLock` and `RUnlock`; the writer's state follows one
goroutine inside Close; `stopped` is `~reqOpen` and excludes all of send, await
and ran; the end of `comThread` implies `stopped`). `InitIInv` and `StepIInv`
are its induction, one step per action. TLC checks `IInv` in
`session` too.

*Waiting.* `OnceBusy` (a running `closeOnce` has a goroutine inside) is proved on
top of `IInv`; with it every wait in `closeOnce`, `closeMu`, `reqCh`, `done` and
`closed` is for somebody further along that order, the last of whom can go on:
`EveryWaitIsAnswered`, and from it `DeadlockFree`, which the deadlock check of
`session` only shows for four goroutines. `CloseIsNotOvertaken` says that what an
announced Close waits for only becomes less. Together they are what `CloseReturns`
rests on besides fairness. `SynchronisationIsLegal` excludes Go's own panics: no
channel is closed twice, no lock given back by one who does not hold it, and
`initErr` is never full when an answer is put there. `CallerMoves`, `ThreadMoves`
and `CtorMoves` spell out the guards of the actions, for the prover does not
know ENABLED; TLC found them equal to it on the instance of `session`. For the refinement, `RequestStep` and `RequestQuiet` say
what a moved program counter does to the mapped request, and `StepRefines` maps
each action to one action of `ComExecutor` or to a stutter.

`DialProofs` proves the safety of `Dial` for all sets `Dials`, `Users` and
`Handles` and every `MaxSends`, from `DialConstants` (the zero handle is no
handle, `Nobody` is no dial, a Write makes at least one send): `TypeCorrect`,
`TeardownOwns`, `ClosedHoldsNothing`, `ReleasedOnce`, `HandlesHaveProcess` and
`SpawnsMounted`. `NoPanic` and `OwnStreamOnly` are refuted above and not proved.

*The argument.* That a goroutine about to close a handle still owns it depends
on nobody else having closed it, hence on who is inside `closeOnce`; and on no
shutdown coming later, hence on Close going on only after `writeCloseOnce` is
over. `IInv` has three parts per connection. `DialInv`: which process reference
there is at each point of `dial`. `OnceInv`: one goroutine at a time in each
`sync.Once`, and past CloseWrite only when that once is over. `SocketInv`: a
connection owns nothing but its two handles, which differ, and owns each of
them until the goroutine inside `closeOnce` has closed it. `Frame` and
`OneConnection` reduce a step to the connection it is about: a handle that is
taken was free and one that is freed was its own, so no other connection's
handles change. There is one lemma per action, and `StepIInv` puts them together.

*The edges of the findings.* `EdgesInv`, a second invariant on top of `IInv`,
follows what the two findings leave behind. `PanicIsLate`: the panic only
meets a connection handed out after the session had stopped, without sockets.
`StrayIsAfterClose`: bytes reach a foreign socket only from a connection whose own
Close is past its CloseWrite. `SocketsAreAccountedFor`: every open socket belongs to a
connection that Close has not finished with, or is the stdin of a failed dial;
that bounds the hazard of `session.go:229`, where it is never closed. And
`CloseIsNeverStuck`: while any goroutine is in Close or CloseWrite of a connection,
one of them can go on.

`ProvisionProofs` proves the safety of `Provision` for every set of `Sessions`
and every finite set of `Runs` (`RunsAssumption`): `TypeCorrect`, `SourcesWhole`
and `CacheHealsAlways`. `BuiltOnce` is refuted above and not proved.

*The argument.* On the host, `SourceInv` says of every source that a session has
done with (`Passed`), not only of those in a mounted directory, that it is whole
or being written or known to have failed; `SourceStep` lists what one session may
do to a source so that this survives for all others. In the guest, `CacheInv`
says that a file that is not whole belongs to a run in its link step, or killed in
it, also before chmod, and is executable only after another build has completed. `BuildInv` counts: completed builds and runs that may still
complete one are together no more than the runs. `HostStep` and `GuestStep`
separate the two halves, which share no variable.

*The edge of the finding.* `provision_once` shows two builds; two theorems say how
far they go. `ExecFailsByAnotherBuild`: an entrypoint that finds no usable binary at
its exec has another run to blame, which links, has failed or was killed. `BuildsEnd`: once the
binary is there and nobody builds, no run ever builds again or touches it, so "exactly
once" holds of calls that do not overlap the first build. Both rest on
`WholeIsExecutable` beside `IInv`.

`BridgeProofs` proves the safety of `Bridge` for any number of bytes and any
sizes of the queues and the buffer (`BridgeConstants`: the sizes are positive):
`TypeCorrect`, and `UpRefinesPipe` and `DownRefinesPipe`, the two refinements of
`Pipe`.

*The argument.* A step of the relay is a step of the abstract stream only if the
byte it delivers is the next one, and if an end of file it passes on comes after
the last. `StreamInv` says that what has been received, queued behind the bridge,
left to `write_all`, and queued before the bridge are consecutive parts of the
stream; that they are all of it unless the sender's end took something with it
(`lost`); and, piece by piece, what is left of that when the relay is aborted or
the receiver gone. `EndInv` says that a direction is closed only when it is no
longer polled, and no longer polled only when it was closed and drained, also
between `poll` and the look at its revents (`Ahead`). The lemmas on sequences say
what taking from the front and appending do to consecutive parts; since the code
of the loop is the same for both directions, so is the proof, in `f`, and
`Served` and `OneEnd` leave the other direction alone. `NextStream` maps each
step to one of `Pipe` or to a stutter.

*The loop.* `StreamsArriveWhole` cites `PipeProofs` under the refinement (the instances
`UpEnds` and `DownEnds`): the promise of a `Pipe` as a theorem about the relay's own
variables. `LoopInv` is a second invariant, on what `poll` has promised to the reads
that follow it: `ReadsDoNotBlock` (a read finds bytes or an end, though the other
direction was served in between) and `EndIsPassedOn` (an end not yet passed on is
either being worked towards, or held by a full queue behind `write_all`, which is
exactly what `bridge_independent` shows).

`PipeProofs` proves what that is worth to a reader: `Reliable` (in order, no loss,
no repetition, and complete at the end unless broken) and `EndIsFinal` (nothing
comes after the end, nothing is taken back).

`ProxyProofs` proves the safety of `Proxy` for any set of clients, any number of
bytes and any sizes (`ProxyConstants`, as for `Bridge`): `TypeCorrect`,
`GuestIsQuiet`, `CrashIsLate`, `ReturnLeavesNothing`, and `TwoHopsArePipes`, the
refinement of `Pipe` by every direction of every client.

*The argument.* That the guest connection is closed after both copies depends on
the handler having received twice, and that on what is in the channel: `HandlerInv`
counts the goroutines that have finished (`Finished`) against the messages that
are in `done` and those already taken. `MainInv` says which of session and
listener exist at each point of `runProxy`; no handler exists before it accepts.
`EndsInv` says that whatever end has failed is in `broken`, so that an early end
of file is allowed exactly where it happens, and that a connection without
process comes from a stopped session. `StreamInv` adds up the counts of a
direction: they are what was sent unless an end failed, and never more; the
destination is shut only after the source is closed and empty. `Sever`, what
happens to all streams of some clients when their connections end, gets lemmas of
its own, and the actions on one connection are reduced to it as in `DialProofs`.

*Waiting.* `HandlersAreAccountedFor` (a waiting handler has a goroutine that will
report, `done` has room for every report, an ended handler leaves nothing) follows
from `HandlerInv`. `BothHopsDeliverAll` is the promise of a `Pipe` in counts, and
`WritersHaveBytes` says that a goroutine that writes has something left; `BufferKept`
is its frame. `EndedStreamsFreeHandlers` is the safety part of `HandlerEnds`: once
both streams of a client are over (the precondition of `HandlerEnds`) they stay so,
and the waiting handler has a report to take, a goroutine that can go on, or a
client with a full queue to read. No silent peer appears in it: a target that has
seen the end of its input means that the goroutine of that direction is done, a
dead guest that the stream back has ended (`EndsPassedOn`, kept because of `Onward`,
which says how a step moves the ends). Nor does it use that the bridge serves one
queue while the other is full, since it has nothing left to write to a target that
has seen the end. `CopyMoves` are the guards of `Copy`, which TLC found equal to
ENABLED on the instance of `proxy`.

`ComApiProofs` proves the safety of `ComApi` for any set of sessions of a process,
any inputs, any width of a word and any upper halves of registers:
`TypeCorrect`, `ReferencesAreKept`, `ManagerIsGivenBack`, `SessionsCompose`,
`SettingsAreAsAsked`, `VolumeIsAsAsked` and `IoIsCounted`. The assumptions are
`ComApiConstants` (half a word is more than one, HRESULTs and defaults fit a
word, units are positive, a buffer's length fits an `int`) and `InputTypes`.
`ReferencesAreKept` is proved under `~StackMoves`, without which `comapi_moves`
refutes it; what survives a moving stack is `ManagerIsGivenBack`, since
`coCreateInstance` keeps its addresses alive. None of the others needs that
condition.

*The argument.* `Held` gives for each program point the references that a thread
must hold there, and `HeldInv` says that `refs` and `wrapper` both are exactly
that: every error path then has to give back just those. `StartInv` says what is
initialised at each point for the thread and for the process; that another
session cannot undo it is `OneSession`, the frame of every action, and that
`err` never is `RPC_E_TOO_LATE` is the part of it that `SessionsCompose` rests on.
`DataInv` relates what the service was given to what was asked. The arithmetic is
in lemmas: what Go's conversions make of a register whose upper half is undefined
(`LowerHalf`, `ErrorOfRegister`, `CountOfRegister`), and what truncation does to
defaults and to a timeout in milliseconds (`DefaultsFill`, `BootNotLonger`).

TLC has also checked each `IInv` on the instances of section 3; only `session`
lists it, the others belong to the proofs.

*Model-checked only.* All liveness (`DoReturns`, `CloseReturns`,
`NewSessionReturns`, `DialReturns`, `ConnCloseReturns`, `EofArrives`,
`RelayEnds`, `ClientSeesEnd`, `HandlerEnds`, `ShutdownReturns`), which is out of
the prover's reach; `DeadlockFree`, `CloseIsNotOvertaken`, `CloseIsNeverStuck`,
`EndIsPassedOn` and `EndedStreamsFreeHandlers` are the part of it that needs neither
fairness nor ENABLED. Every other property of a passing run is proved. The five
properties of section "Findings" are false of the code; how far each of the first
four can go is proved. Nothing composes the
theorems of different modules formally: that `do` is one step in `Dial`, and the
bridge one queue in `Proxy`, is the abstraction that `Refinement`,
`UpRefinesPipe` and `DownRefinesPipe` justify.

## 5. Not modelled

- Layouts: the vtable slots and struct fields of `types.go` are tables that only
  the service's interface definition could confirm; GUID parsing
  (`mustGUID`) is applied to constants; strings are valid or refused, and
  `makeStringArray` keeps no state. The errno of `GuestExecError`, which nothing
  reads.
- `GetDisplayName` is its call and its result; that it reads up to 256 units behind
  the returned pointer (`comapi.go:164`) is left out, as no property speaks of the
  name.
- In `Proxy`, the half-close of a goroutine and its report on `done` are one step
  (`proxy.go:93-96`). Nothing can come between them that matters: `done` has room for
  both reports (`TypeOK`), so the send never waits.
- A guest that reads a source between the truncation and the write of
  `os.WriteFile` in another session: its run fails (`Spawn`, `Compile`), and
  `MountedSourcesWhole` allows for it. What it excludes is a torn source that
  stays.
- Garbage collection: the finalizer of `session.go:76`. It could only run once
  `comThread` has ended, since that goroutine keeps the `Session` reachable.
- The service, the VM, the target's protocol, a crash of the host process (COM
  then releases every reference, outside this code).
- Panics inside closures, other than the nil process that `HandlesNeedProcess`
  excludes and the one that `NoPanic` finds.
- `Read` with an empty buffer, which `conn.go:41` turns into `io.EOF`.
- `demo.go`, a sequential script of Docker API calls over one connection after
  the other; `unsupported.go`, where every function returns the same error.

## 6. Plan

Done, in this order because everything else goes through `do`: `ComExecutor`
and `Session`; `Dial`; `Pipe` and `Bridge`; `Provision`; `Proxy`; `ComApi`; each
with the proofs of its safety; then the promise of `Pipe` for the streams of
`Bridge` and `Proxy`, who waits for whom in `Session`, `Dial` and `Proxy`, and the
edges of the findings.

Next:

1. A sequential target in `Bridge` (one that reads on only after it has written)
   for the two-way stall that one blocking loop makes possible.
2. A formal composition: `Dial` over `ComExecutor` and `Proxy` over `Pipe`, instead of
   the abstraction argued in section 4.
