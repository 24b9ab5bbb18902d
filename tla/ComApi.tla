------------------------------- MODULE ComApi -------------------------------
(***************************************************************************)
(* com.go, comapi.go and the types they pass: what happens at the border   *)
(* to COM and Winsock.  Results come back in a 64-bit register whose lower *)
(* half is the HRESULT or int of the callee and whose upper half is        *)
(* undefined; objects come back through a pointer to a local variable.     *)
(*                                                                         *)
(* Each thread is the COM thread of one session of the process, from the   *)
(* options it is given to its last Release.  Session has the interleavings *)
(* within one session, Dial those of its connections; here they meet in    *)
(* what COM and Winsock keep per process.                                  *)
(***************************************************************************)
EXTENDS Integers

CONSTANTS Threads,        \* sessions of the process, each with its COM thread
          Inputs,         \* the options and flags of a session
          Half,           \* 2^31, or less
          Upper,          \* what the upper half of a register may hold
          HResults,       \* the HRESULTs that calls return
          hrRPCETooLate,  \* RPC_E_TOO_LATE, which only one call returns
          DefaultCpu, DefaultMem, DefaultBoot,
          MiB, PerMs,     \* bytes in a MiB, time units in a millisecond
          BufLen,         \* the length of a buffer to read or write
          StackMoves      \* the stack may move between the conversion of an
                          \* address to uintptr and the call that uses it

Word  == 2 * Half      \* 2^32
DWord == Word * Word   \* 2^64

ASSUME ComApiConstants ==
  /\ Half \in Nat /\ Half > 1
  /\ Upper \subseteq 0..(Word - 1) /\ HResults \subseteq 0..(Word - 1)
  /\ hrRPCETooLate \in Half..(Word - 1) \ HResults
  /\ {DefaultCpu, DefaultMem, DefaultBoot} \subseteq 1..(Word - 1)
  /\ MiB \in Nat \ {0} /\ PerMs \in Nat \ {0}
  /\ BufLen \in 1..(Half - 1)
  /\ StackMoves \in BOOLEAN

\* Go's types of the options and flags: cpu and mem as the demo's flags have
\* them, before they become uint32; boot is a time.Duration; size is what the
\* text of the volume flag says, negative or too large included.
ASSUME InputTypes ==
  Inputs \subseteq [cpu : Nat, mem : Nat, boot : Int, store : BOOLEAN, nul : BOOLEAN,
                   vol : [parts : Nat, name : BOOLEAN, size : Int, fixed : STRING]]

VARIABLES
  pc,         \* pc[t]: the next call of thread t
  in,         \* in[t]: what session t was asked for
  err,        \* err[t]: the error of NewSession or of the last dial, 0 if nil
  apartment,  \* threads on which CoInitializeEx has succeeded
  security,   \* what the process' CoInitializeSecurity has set
  winsock,    \* WSAStartup has succeeded
  refs,       \* refs[t]: objects the service holds a reference of t on
  wrapper,    \* wrapper[t][o]: the ptr of the Go wrapper of object o
  settings,   \* settings[t]: the wslcSessionSettings the service was given
  volume,     \* volume[t]: the size of the volume it created, in bytes
  handle,     \* handle[t][fd]: the type of the handle in use as a socket
  io,         \* io[t][fd]: bytes the library reports and bytes moved
  fault       \* a call went through an address that is no object

comVars == <<apartment, security, winsock>>
objVars == <<refs, wrapper, fault>>
dataVars == <<settings, volume, handle, io>>
vars == <<pc, in, err, comVars, objVars, dataVars>>

Objects == {"mgr", "sess", "proc"}
Fds == {"stdin", "stdout"}
HandleTypes == {"Unknown", "File", "Pipe", "Socket"}
None == [cpu |-> 0]
Startup == {"flags", "ex", "security", "wsa"}

-----------------------------------------------------------------------------
(* Registers and errors: 0 is nil, a negative number an hresultError, 1 any
   other error *)

Register(v) == {v + Word * u : u \in Upper}

Int32(r) == IF r % Word < Half THEN r % Word ELSE (r % Word) - Word

Failed(hr) == hr >= Half

\* Mutant: the register is compared as it is.
hrErrWide(r) == IF r < Half THEN 0 ELSE Int32(r)

hrErr(r) == IF Int32(r) >= 0 THEN 0 ELSE Int32(r)

isHRESULT(e, code) == e < 0 /\ e % Word = code

Other == 1

-----------------------------------------------------------------------------
(* Options *)

toOptions(i) == [i EXCEPT !.cpu = @ % Word, !.mem = @ % Word]

\* Mutant: the flag is tested before it loses its upper half.
OrDefaultWide(i, f, d) == IF i[f] = 0 THEN d ELSE i[f] % Word

OrDefault(i, f, d) == IF toOptions(i)[f] = 0 THEN d ELSE toOptions(i)[f]

Settings(i) ==
  [cpu   |-> OrDefault(i, "cpu", DefaultCpu),
   mem   |-> OrDefault(i, "mem", DefaultMem),
   boot  |-> IF i.boot > 0 THEN (i.boot \div PerMs) % Word ELSE DefaultBoot,
   store |-> i.store]

\* What strconv takes for a boolean.
ParseBool == {"1", "t", "T", "TRUE", "true", "True", "0", "f", "F", "FALSE", "false", "False"}

\* volumeFlag.Set: parts, a number of 64 bits, a boolean.
Parses(v) == /\ v.parts >= 2 /\ v.size \in 0..(DWord - 1)
             /\ v.parts > 2 => v.fixed \in ParseBool

HasVolume(i) == i.vol.parts > 0

\* Mutant: the service is sent the number of the option.
BytesUnscaled(v) == v.size

Bytes(v) == (v.size * MiB) % DWord

-----------------------------------------------------------------------------
TypeOK ==
  /\ pc \in [Threads -> Startup \cup
               {"activate", "create", "volume", "ready", "stdin", "stdout", "conn",
                "relProc", "terminate", "relSess", "relMgr", "done"}]
  /\ in \in [Threads -> Inputs \cup {None}]
  /\ err \in [Threads -> (-Half)..1]
  /\ apartment \in SUBSET Threads
  /\ security \in {"none", "impersonate", "other"} /\ winsock \in BOOLEAN
  /\ refs \in [Threads -> SUBSET Objects]
  /\ wrapper \in [Threads -> [Objects -> {"none", "null", "object"}]]
  /\ settings \in [Threads -> {Settings(i) : i \in Inputs} \cup {None}]
  /\ volume \in [Threads -> 0..(DWord - 1)]
  /\ handle \in [Threads -> [Fds -> HandleTypes \cup {"none"}]]
  /\ io \in [Threads -> [Fds -> [claimed : 0..BufLen, moved : 0..BufLen]]]
  /\ fault \in BOOLEAN

Init ==
  /\ pc = [t \in Threads |-> "flags"] /\ in = [t \in Threads |-> None]
  /\ err = [t \in Threads |-> 0]
  /\ apartment = {} /\ security = "none" /\ winsock = FALSE
  /\ refs = [t \in Threads |-> {}]
  /\ wrapper = [t \in Threads |-> [o \in Objects |-> "none"]]
  /\ settings = [t \in Threads |-> None] /\ volume = [t \in Threads |-> 0]
  /\ handle = [t \in Threads |-> [fd \in Fds |-> "none"]]
  /\ io = [t \in Threads |-> [fd \in Fds |-> [claimed |-> 0, moved |-> 0]]]
  /\ fault = FALSE

-----------------------------------------------------------------------------
(* Parts of actions *)

Goto(t, l) == pc' = [pc EXCEPT ![t] = l]

\* The error e, or nil, is returned, and the thread goes on accordingly.
Return(t, e, ok, failed) ==
  err' = [err EXCEPT ![t] = e] /\ Goto(t, IF e = 0 THEN ok ELSE failed)

\* The address has to be that of an object: its vtable is read first.
vtblCall(t, o) == fault' = (fault \/ o \notin refs[t] \/ wrapper[t][o] # "object")

\* A call that returns an object through a variable of its caller.  LazyProc.Call
\* moves what its arguments point to to the heap; vtblCall, which takes plain
\* numbers, leaves it on the stack, and a stack that moves leaves it unset.
Obtain(t, o, local, ok, failed) ==
  \E hr \in HResults : \E r \in Register(hr) :
    /\ refs' = IF Failed(hr) THEN refs ELSE [refs EXCEPT ![t] = @ \cup {o}]
    /\ \E p \in IF Failed(hr) THEN {"null"}
                ELSE IF local /\ StackMoves THEN {"null", "object"} ELSE {"object"} :
         wrapper' = IF hrErr(r) = 0 THEN [wrapper EXCEPT ![t][o] = p] ELSE wrapper
    /\ Return(t, hrErr(r), ok, failed)

comRelease(t, o) ==
  /\ IF wrapper[t][o] = "null" THEN UNCHANGED <<refs, fault>>
     ELSE vtblCall(t, o) /\ refs' = [refs EXCEPT ![t] = @ \ {o}]
  /\ wrapper' = [wrapper EXCEPT ![t][o] = "none"]

-----------------------------------------------------------------------------
(* From the flags to the session *)

\* volumeFlag.Set, sessionFlags.validate and the check in NewSession.
Validate(t) ==
  /\ pc[t] = "flags"
  /\ \E i \in Inputs :
       /\ in' = [in EXCEPT ![t] = i]
       /\ Return(t, IF HasVolume(i) /\ ~(Parses(i.vol) /\ i.store) THEN Other ELSE 0,
                 "ex", "done")
  /\ UNCHANGED <<comVars, objVars, dataVars>>

\* S_OK and S_FALSE are both fine.
CoInitializeEx(t) ==
  /\ pc[t] = "ex"
  /\ \E hr \in HResults : \E r \in Register(hr) :
       /\ apartment' = IF Failed(hr) THEN apartment ELSE apartment \cup {t}
       /\ Return(t, hrErr(r), "security", "done")
  /\ UNCHANGED <<in, security, winsock, objVars, dataVars>>

\* Some other code of the process calls CoInitializeSecurity.
OtherSecurity ==
  /\ security = "none" /\ security' = "other"
  /\ UNCHANGED <<pc, in, err, apartment, winsock, objVars, dataVars>>

\* Mutant: no error of the call matters.
CoInitializeSecurityAnyway(t) ==
  /\ pc[t] = "security"
  /\ \E hr \in HResults :
       security' = IF security = "none" /\ ~Failed(hr) THEN "impersonate" ELSE security
  /\ Return(t, 0, "wsa", "done")
  /\ UNCHANGED <<in, apartment, winsock, objVars, dataVars>>

\* Once per process: whoever comes second is too late, which is not an error.
CoInitializeSecurity(t) ==
  /\ pc[t] = "security"
  /\ \E hr \in IF security = "none" THEN HResults ELSE {hrRPCETooLate} :
       \E r \in Register(hr) :
         /\ security' = IF Failed(hr) THEN security ELSE "impersonate"
         /\ Return(t, IF isHRESULT(hrErr(r), hrRPCETooLate) THEN 0 ELSE hrErr(r),
                   "wsa", "done")
  /\ UNCHANGED <<in, apartment, winsock, objVars, dataVars>>

\* Its result is compared with 0 as it is.
WSAStartup(t) ==
  /\ pc[t] = "wsa"
  /\ \E hr \in HResults : \E r \in Register(hr) :
       /\ winsock' = (winsock \/ hr = 0)
       /\ Return(t, IF r = 0 THEN 0 ELSE Other, "activate", "done")
  /\ UNCHANGED <<in, apartment, security, objVars, dataVars>>

activateSessionManager(t) ==
  /\ pc[t] = "activate"
  /\ Obtain(t, "mgr", FALSE, "create", "done")
  /\ UNCHANGED <<in, comVars, fault, dataVars>>

\* A string with a NUL in it is refused before anything is called.
CreateSession(t) ==
  /\ pc[t] = "create"
  /\ IF in[t].nul
       THEN Return(t, Other, "volume", "relMgr") /\ UNCHANGED <<objVars, settings>>
       ELSE /\ vtblCall(t, "mgr")
            /\ settings' = [settings EXCEPT ![t] = Settings(in[t])]
            /\ Obtain(t, "sess", TRUE, "volume", "relMgr")
  /\ UNCHANGED <<in, comVars, volume, handle, io>>

\* The checks of CreateVolume, and of BytePtrFromString.
VolumeValid(v) == v.name /\ v.size > 0

\* No size of 0 is accepted (VhdVolumeOptions.Parse, types.go:170-172).
CreateVolume(t) ==
  LET v == in[t].vol
  IN  /\ pc[t] = "volume"
      /\ IF ~HasVolume(in[t]) \/ ~VolumeValid(v)
           THEN /\ Return(t, IF HasVolume(in[t]) THEN Other ELSE 0, "ready", "terminate")
                /\ UNCHANGED <<fault, volume>>
           ELSE /\ vtblCall(t, "sess")
                /\ \E hr \in {h \in HResults : Failed(h) \/ Bytes(v) > 0} :
                     \E r \in Register(hr) :
                       /\ volume' = IF Failed(hr) THEN volume
                                    ELSE [volume EXCEPT ![t] = Bytes(v)]
                       /\ Return(t, hrErr(r), "ready", "terminate")
      /\ UNCHANGED <<in, comVars, refs, wrapper, settings, handle, io>>

-----------------------------------------------------------------------------
(* A session in use: one dial after the other *)

\* The string is read through the pointer that the call was to fill in.
GetDisplayName(t) ==
  /\ pc[t] = "ready"
  /\ vtblCall(t, "sess")
  /\ \E hr \in HResults : \E r \in Register(hr) : Return(t, hrErr(r), "ready", "ready")
  /\ UNCHANGED <<in, comVars, refs, wrapper, dataVars>>

\* With the path and the arguments in C arrays; nul: a target with a NUL in it.
CreateRootNamespaceProcess(t) ==
  /\ pc[t] = "ready"
  /\ \/ Return(t, Other, "ready", "ready") /\ UNCHANGED <<refs, wrapper, fault>>
     \/ vtblCall(t, "sess") /\ Obtain(t, "proc", TRUE, "stdin", "ready")
  /\ handle' = [handle EXCEPT ![t] = [fd \in Fds |-> "none"]]
  /\ io' = [io EXCEPT ![t] = [fd \in Fds |-> [claimed |-> 0, moved |-> 0]]]
  /\ UNCHANGED <<in, comVars, settings, volume>>

\* Mutant: the handle is taken for a socket, whatever its type.
GetStdHandleUnchecked(t, fd) ==
  /\ pc[t] = fd
  /\ vtblCall(t, "proc")
  /\ \E hr \in HResults, type \in HandleTypes : \E r \in Register(hr) :
       /\ handle' = IF hrErr(r) = 0 THEN [handle EXCEPT ![t][fd] = type] ELSE handle
       /\ Return(t, hrErr(r), IF fd = "stdin" THEN "stdout" ELSE "conn", "relProc")
  /\ UNCHANGED <<in, comVars, refs, wrapper, settings, volume, io>>

GetStdHandle(t, fd) ==
  /\ pc[t] = fd
  /\ vtblCall(t, "proc")
  /\ \E hr \in HResults, type \in HandleTypes : \E r \in Register(hr) :
       LET e == IF hrErr(r) = 0 /\ type # "Socket" THEN Other ELSE hrErr(r)
       IN  /\ handle' = IF e = 0 THEN [handle EXCEPT ![t][fd] = type] ELSE handle
           /\ Return(t, e, IF fd = "stdin" THEN "stdout" ELSE "conn", "relProc")
  /\ UNCHANGED <<in, comVars, refs, wrapper, settings, volume, io>>

\* Mutant: the upper half of the register counts.
CountWide(r) == r

\* int(int32(r))
Count(r) == Int32(r)

\* send and recv, called until the buffer is done with; SOCKET_ERROR is -1, and
\* at 0 Write gives up and Read returns io.EOF.
Transfer(t, fd) ==
  LET left == BufLen - io[t][fd].moved
  IN  /\ pc[t] = "conn" /\ left > 0
      /\ \E n \in 0..left \cup {Word - 1} : \E r \in Register(n) :
           /\ io' = [io EXCEPT ![t][fd] =
                       [claimed |-> IF Count(r) < 0 THEN @.claimed ELSE @.claimed + Count(r),
                        moved   |-> IF n = Word - 1 THEN @.moved ELSE @.moved + n]]
           /\ Return(t, IF Count(r) <= 0 THEN Other ELSE 0, "conn", "relProc")
      /\ UNCHANGED <<in, comVars, objVars, settings, volume, handle>>

CloseConn(t) ==
  /\ pc[t] = "conn" /\ Goto(t, "relProc")
  /\ UNCHANGED <<in, err, comVars, objVars, dataVars>>

ReleaseProcess(t) ==
  /\ pc[t] = "relProc" /\ Goto(t, "ready")
  /\ comRelease(t, "proc")
  /\ UNCHANGED <<in, err, comVars, dataVars>>

-----------------------------------------------------------------------------
(* Teardown *)

\* Session.Close, or a volume that could not be created.
Terminate(t) ==
  /\ pc[t] \in {"ready", "terminate"} /\ Goto(t, "relSess")
  /\ vtblCall(t, "sess")
  /\ UNCHANGED <<in, err, comVars, refs, wrapper, dataVars>>

ReleaseSession(t) ==
  /\ pc[t] = "relSess" /\ Goto(t, "relMgr")
  /\ comRelease(t, "sess")
  /\ UNCHANGED <<in, err, comVars, dataVars>>

ReleaseManager(t) ==
  /\ pc[t] = "relMgr" /\ Goto(t, "done")
  /\ comRelease(t, "mgr")
  /\ UNCHANGED <<in, err, comVars, dataVars>>

-----------------------------------------------------------------------------
(* The specification *)

Start(t) == \/ Validate(t) \/ CoInitializeEx(t) \/ CoInitializeSecurity(t)
            \/ WSAStartup(t) \/ activateSessionManager(t) \/ CreateSession(t)
            \/ CreateVolume(t)

Use(t) == \/ GetDisplayName(t) \/ CreateRootNamespaceProcess(t)
          \/ \E fd \in Fds : GetStdHandle(t, fd) \/ Transfer(t, fd)
          \/ CloseConn(t) \/ ReleaseProcess(t)

Stop(t) == Terminate(t) \/ ReleaseSession(t) \/ ReleaseManager(t)

Next == OtherSecurity \/ \E t \in Threads : Start(t) \/ Use(t) \/ Stop(t)

Spec == Init /\ [][Next]_vars

-----------------------------------------------------------------------------
(* Properties *)

\* "obj is a COM object address owned by the COM runtime" (com.go:181-182)
\* whenever vtblCall reads a vtable through it.
CallsReachObjects == ~fault

\* Every reference that the service has handed out is in exactly one wrapper
\* that is still to be released, and no method is called on anything else; a
\* COM thread that has ended leaves none behind.  For that each call's outcome
\* must be read right out of the register, on every error path (com.go:91-97;
\* comapi.go:142-145, 227-230; session.go:104-133).
ReferencesKept ==
  /\ CallsReachObjects
  /\ \A t \in Threads : /\ refs[t] = {o \in Objects : wrapper[t][o] = "object"}
                        /\ pc[t] = "done" => refs[t] = {}

\* "Order matters" (com.go:122-132): the service is called on an initialised
\* thread of a process whose security level has been set, with Winsock up,
\* whatever order the sessions of a process start in, and starting second is
\* no reason to fail (com.go:144-145).
InitComposes ==
  \A t \in Threads :
    /\ pc[t] \notin Startup \cup {"done"} =>
         t \in apartment /\ security # "none" /\ winsock
    /\ err[t] # hrRPCETooLate - Word

\* The service is asked for what the options or flags say where that fits its
\* 32 bits, for the default where they say nothing, never for no CPU and no
\* memory, and never to wait longer than BootTimeout (comapi.go:110-131,
\* main.go:107-116).
SettingsAsAsked ==
  \A t \in Threads : settings[t] # None =>
    LET i == in[t]  s == settings[t]
    IN  /\ s.cpu > 0 /\ s.mem > 0
        /\ i.cpu < Word => s.cpu = IF i.cpu = 0 THEN DefaultCpu ELSE i.cpu
        /\ i.mem < Word => s.mem = IF i.mem = 0 THEN DefaultMem ELSE i.mem
        /\ i.boot > 0 => s.boot * PerMs <= i.boot

\* A volume that exists has the asked size in bytes, if 64 bits hold that, is
\* never larger, and has a storage path to live under (comapi.go:254,
\* options.go:33-35).
VolumeAsAsked ==
  \A t \in Threads : volume[t] > 0 =>
    LET asked == in[t].vol.size * MiB
    IN  /\ in[t].store
        /\ IF asked < DWord THEN volume[t] = asked ELSE volume[t] < asked

\* Winsock is only ever given sockets, and the bytes Read and Write report are
\* the bytes that moved (com.go:201-223, comapi.go:296-302).
IoIsExact ==
  \A t \in Threads, fd \in Fds :
    /\ io[t][fd].claimed = io[t][fd].moved
    /\ pc[t] = "conn" => handle[t][fd] = "Socket"

=============================================================================
