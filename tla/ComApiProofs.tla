---------------------------- MODULE ComApiProofs ----------------------------
(***************************************************************************)
(* The safety of ComApi for any number of sessions, any inputs, any width  *)
(* of a word and anything in the upper half of a register.                 *)
(***************************************************************************)
EXTENDS ComApi, TLAPS

\* The objects that a thread holds a reference on before each call.
Held(l) ==
  CASE l \in {"create", "relMgr"} -> {"mgr"}
    [] l \in {"volume", "ready", "terminate", "relSess"} -> {"mgr", "sess"}
    [] l \in {"stdin", "stdout", "conn", "relProc"} -> Objects
    [] OTHER -> {}

\* What has been initialised when thread t is at pc[t].
StartInv(t) ==
  /\ pc[t] # "flags" => in[t] \in Inputs
  /\ pc[t] \notin {"flags", "done"} => (HasVolume(in[t]) => in[t].store)
  /\ pc[t] \notin {"flags", "ex", "done"} => t \in apartment
  /\ pc[t] \notin {"flags", "ex", "security", "done"} => security # "none"
  /\ pc[t] \notin Startup \cup {"done"} => winsock
  /\ err[t] # hrRPCETooLate - Word

\* What the service has been asked for, and what has moved since.
DataInv(t) ==
  /\ settings[t] # None => settings[t] = Settings(in[t])
  /\ pc[t] \in Startup => settings[t] = None
  /\ volume[t] # 0 => /\ HasVolume(in[t]) /\ in[t].store /\ in[t].vol.size > 0
                      /\ volume[t] = Bytes(in[t].vol)
  /\ pc[t] \in Startup => volume[t] = 0
  /\ \A fd \in Fds : io[t][fd].claimed = io[t][fd].moved
  /\ pc[t] \in {"stdout", "conn"} => handle[t]["stdin"] = "Socket"
  /\ pc[t] = "conn" => handle[t]["stdout"] = "Socket"

\* The wrappers are those of the references, of the session manager's in any
\* case and of the others' as long as no stack moves.
Sound(o) == o = "mgr" \/ ~StackMoves

HeldInv(t) ==
  \A o \in Objects : Sound(o) =>
    /\ o \in refs[t] <=> o \in Held(pc[t])
    /\ wrapper[t][o] = IF o \in Held(pc[t]) THEN "object" ELSE "none"

IInv ==
  /\ TypeOK
  /\ ~StackMoves => ~fault
  /\ \A t \in Threads : StartInv(t) /\ DataInv(t) /\ HeldInv(t)

-----------------------------------------------------------------------------
(* Arithmetic *)

LEMMA WordIsNat == Word \in Nat \ {0} /\ Word > 3 /\ Word = Half + Half /\ Half \in Nat
  BY ComApiConstants DEF Word

LEMMA DWordIsNat == DWord \in Nat \ {0} /\ DWord > Word
<1>1. Word \in Nat /\ Word >= 2
  BY WordIsNat
<1>2. Word * Word \in Nat /\ Word * Word >= 2 * Word
  BY <1>1
<1> QED
  BY <1>1, <1>2 DEF DWord

LEMMA DivMod ==
  ASSUME NEW x \in Int, NEW d \in Nat \ {0}
  PROVE  x \div d \in Int /\ x % d \in 0..(d - 1) /\ x = d * (x \div d) + (x % d)
  OBVIOUS

LEMMA TimesMonotonic ==
  ASSUME NEW d \in Nat \ {0}, NEW a \in Int, NEW b \in Int, a < b
  PROVE  d * a \in Int /\ d * b \in Int /\ d * a + d <= d * b
<1>1. b - a \in Nat /\ b - a >= 1 /\ d * (b - a) = d * b - d * a
  OBVIOUS
<1>2. d * (b - a) >= d
  BY <1>1
<1> QED
  BY <1>1, <1>2

LEMMA ModUnique ==
  ASSUME NEW d \in Nat \ {0}, NEW q \in Int, NEW v \in 0..(d - 1), NEW x \in Int,
         x = v + d * q
  PROVE  x % d = v
<1> DEFINE p == x \div d
           m == x % d
<1>1. p \in Int /\ m \in 0..(d - 1) /\ v + d * q = d * p + m
  BY DivMod
<1>2. d * p \in Int /\ d * q \in Int
  BY <1>1
<1> HIDE DEF p, m
<1>3. ~(p < q)
  BY <1>1, <1>2, TimesMonotonic
<1>4. ~(q < p)
  BY <1>1, <1>2, TimesMonotonic
<1>5. p = q
  BY <1>1, <1>3, <1>4
<1> QED
  BY <1>1, <1>2, <1>5 DEF m

LEMMA SmallMod == ASSUME NEW d \in Nat \ {0}, NEW v \in 0..(d - 1) PROVE v % d = v
  BY ModUnique, v = v + d * 0

LEMMA ModAtMost ==
  ASSUME NEW x \in Nat, NEW d \in Nat \ {0}
  PROVE  x % d \in 0..(d - 1) /\ x % d <= x /\ (x < d => x % d = x)
<1>1. x % d \in 0..(d - 1)
  BY DivMod
<1>2. x < d => x % d = x
  BY SmallMod
<1> QED
  BY <1>1, <1>2

-----------------------------------------------------------------------------
(* Registers *)

\* The lower half of a register is what the callee returned, whatever the upper
\* half holds.
LEMMA LowerHalf ==
  ASSUME NEW v \in 0..(Word - 1), NEW r \in Register(v)
  PROVE  r \in Nat /\ r % Word = v /\ (r = 0 => v = 0)
<1>1. PICK u \in Upper : r = v + Word * u
  BY DEF Register
<1>2. u \in Nat /\ Word \in Nat \ {0} /\ Word * u \in Nat
  BY WordIsNat, ComApiConstants
<1>3. r \in Nat /\ r >= v
  BY <1>1, <1>2
<1>4. r % Word = v
  BY <1>1, <1>2, <1>3, ModUnique
<1> QED
  BY <1>3, <1>4, <1>2

\* hrErr reads failure, and which failure, out of the register (com.go:83-97).
LEMMA ErrorOfRegister ==
  ASSUME NEW hr \in 0..(Word - 1), NEW r \in Register(hr)
  PROVE  /\ hrErr(r) \in (-Half)..0
         /\ hrErr(r) = 0 <=> ~Failed(hr)
         /\ Failed(hr) => hrErr(r) = hr - Word
<1>1. r % Word = hr
  BY LowerHalf
<1> QED
  BY <1>1, WordIsNat DEF hrErr, Int32, Failed

\* isHRESULT recognises the code it is asked for and no other (com.go:99-107).
LEMMA TooLateRecognised ==
  ASSUME NEW hr \in 0..(Word - 1), NEW r \in Register(hr)
  PROVE  isHRESULT(hrErr(r), hrRPCETooLate) <=> hr = hrRPCETooLate
<1>1. CASE Failed(hr)
  <2>1. hrErr(r) = hr - Word /\ hr - Word < 0
    BY <1>1, ErrorOfRegister, WordIsNat
  <2>2. hr - Word = hr + Word * (-1)
    BY WordIsNat
  <2>3. (hr - Word) % Word = hr
    BY <2>2, WordIsNat, ModUnique
  <2> QED
    BY <2>1, <2>3 DEF isHRESULT
<1>2. CASE ~Failed(hr)
  BY <1>2, ErrorOfRegister, ComApiConstants, WordIsNat DEF isHRESULT, Failed
<1> QED
  BY <1>1, <1>2

\* The number of bytes that send and recv report, and SOCKET_ERROR
\* (com.go:201-223).
LEMMA CountOfRegister ==
  /\ \A n \in 0..(Half - 1) : \A r \in Register(n) : Count(r) = n
  /\ \A r \in Register(Word - 1) : Count(r) = -1
<1>1. ASSUME NEW n \in 0..(Half - 1), NEW r \in Register(n) PROVE Count(r) = n
  <2>1. r % Word = n
    BY WordIsNat, LowerHalf
  <2> QED
    BY <2>1, WordIsNat DEF Count, Int32
<1>2. ASSUME NEW r \in Register(Word - 1) PROVE Count(r) = -1
  <2>1. r % Word = Word - 1
    BY WordIsNat, LowerHalf
  <2> QED
    BY <2>1, WordIsNat DEF Count, Int32
<1> QED
  BY <1>1, <1>2

-----------------------------------------------------------------------------
(* IInv is inductive *)

Calls == Startup \cup {"activate", "create", "volume", "ready", "stdin", "stdout",
                       "conn", "relProc", "terminate", "relSess", "relMgr", "done"}

LEMMA InitIInv == Init => IInv
<1> SUFFICES ASSUME Init PROVE IInv
  OBVIOUS
<1>1. TypeOK
  <2>1. 0 \in (-Half)..1 /\ 0 \in 0..(DWord - 1) /\ 0 \in 0..BufLen
    BY ComApiConstants, WordIsNat, DWordIsNat
  <2>2. pc \in [Threads -> Calls]
    BY DEF Init, Calls, Startup
  <2>3. io \in [Threads -> [Fds -> [claimed : 0..BufLen, moved : 0..BufLen]]]
    BY <2>1 DEF Init
  <2> QED
    BY <2>1, <2>2, <2>3 DEF Init, TypeOK, Calls
<1>2. ASSUME NEW t \in Threads PROVE StartInv(t) /\ DataInv(t) /\ HeldInv(t)
  BY ComApiConstants, WordIsNat DEF Init, StartInv, DataInv, HeldInv, Held, Startup
<1> QED
  BY <1>1, <1>2 DEF IInv, Init

\* What a step leaves of the session of another thread.
Same(s) ==
  /\ pc'[s] = pc[s] /\ in'[s] = in[s] /\ err'[s] = err[s]
  /\ refs'[s] = refs[s] /\ wrapper'[s] = wrapper[s]
  /\ settings'[s] = settings[s] /\ volume'[s] = volume[s]
  /\ handle'[s] = handle[s] /\ io'[s] = io[s]

\* What a process has initialised stays so, and no other session is disturbed.
LEMMA OneSession ==
  ASSUME IInv, NEW t \in Threads, \A s \in Threads \ {t} : Same(s),
         apartment \subseteq apartment', security # "none" => security' # "none",
         winsock => winsock', ~StackMoves => ~fault',
         TypeOK', StartInv(t)', DataInv(t)', HeldInv(t)'
  PROVE  IInv'
<1>1. ASSUME NEW s \in Threads \ {t} PROVE StartInv(s)' /\ DataInv(s)' /\ HeldInv(s)'
  <2>1. Same(s) /\ StartInv(s) /\ DataInv(s) /\ HeldInv(s)
    BY <1>1 DEF IInv
  <2>2. StartInv(s)'
    BY <2>1 DEF Same, StartInv
  <2>3. DataInv(s)'
    BY <2>1 DEF Same, DataInv
  <2>4. HeldInv(s)'
    BY <2>1 DEF Same, HeldInv
  <2> QED
    BY <2>2, <2>3, <2>4
<1> QED
  BY <1>1 DEF IInv

\* Where a thread goes on after a call.
LEMMA Returns ==
  ASSUME TypeOK, NEW t \in Threads, NEW e \in (-Half)..1, NEW ok \in Calls,
         NEW failed \in Calls, Return(t, e, ok, failed)
  PROVE  /\ pc' \in [Threads -> Calls] /\ err' \in [Threads -> (-Half)..1]
         /\ pc'[t] = IF e = 0 THEN ok ELSE failed
         /\ err'[t] = e
         /\ \A s \in Threads \ {t} : pc'[s] = pc[s] /\ err'[s] = err[s]
  BY DEF Return, Goto, TypeOK, Calls

LEMMA ValidateKeeps == ASSUME IInv, NEW t \in Threads, Validate(t) PROVE IInv'
<1> USE DEF IInv
<1> DEFINE e(i) == IF HasVolume(i) /\ ~(Parses(i.vol) /\ i.store) THEN Other ELSE 0
<1>1. PICK i \in Inputs :
        in' = [in EXCEPT ![t] = i] /\ Return(t, e(i), "ex", "done")
  BY DEF Validate
<1>2. pc[t] = "flags" /\ UNCHANGED <<comVars, objVars, dataVars>>
  BY DEF Validate
<1>3. e(i) \in {0, 1} /\ (e(i) = 0 => (HasVolume(i) => i.store))
  BY DEF Other
<1> HIDE DEF e
<1>4. /\ pc' \in [Threads -> Calls] /\ err' \in [Threads -> (-Half)..1]
      /\ pc'[t] = IF e(i) = 0 THEN "ex" ELSE "done"
      /\ err'[t] = e(i)
      /\ \A s \in Threads \ {t} : pc'[s] = pc[s] /\ err'[s] = err[s]
  <2>1. e(i) \in (-Half)..1
    BY <1>3, ComApiConstants
  <2>2. "ex" \in Calls /\ "done" \in Calls
    BY DEF Calls, Startup
  <2> QED
    BY <1>1, <2>1, <2>2, Returns
<1> USE DEF comVars, objVars, dataVars
<1>5. TypeOK'
  BY <1>1, <1>2, <1>4 DEF TypeOK, Calls
<1>6. ASSUME NEW s \in Threads \ {t} PROVE Same(s)
  BY <1>1, <1>2, <1>4 DEF Same, TypeOK
<1>7. StartInv(t)'
  BY <1>1, <1>2, <1>3, <1>4, ComApiConstants, WordIsNat DEF StartInv, Startup, TypeOK
<1>8. DataInv(t)'
  BY <1>1, <1>2, <1>4 DEF DataInv, Startup
<1>9. HeldInv(t)'
  BY <1>1, <1>2, <1>4 DEF HeldInv, Held, Sound
<1> QED
  BY <1>2, <1>5, <1>6, <1>7, <1>8, <1>9, OneSession

-----------------------------------------------------------------------------
(* What the parts of the actions keep *)

\* No call but CoInitializeSecurity fails with RPC_E_TOO_LATE.
LEMMA OtherErrors ==
  ASSUME NEW hr \in HResults, NEW r \in Register(hr)
  PROVE  /\ hrErr(r) \in (-Half)..1 /\ hrErr(r) # hrRPCETooLate - Word
         /\ hrErr(r) = 0 <=> ~Failed(hr)
<1>1. hr \in 0..(Word - 1) /\ hr # hrRPCETooLate /\ Failed(hrRPCETooLate)
  BY ComApiConstants DEF Failed
<1> QED
  BY <1>1, ErrorOfRegister, WordIsNat, ComApiConstants

\* A call on an object that the thread holds reaches it.
LEMMA Reaches ==
  ASSUME IInv, NEW t \in Threads, NEW o \in Held(pc[t]), o \in Objects, vtblCall(t, o)
  PROVE  fault' \in BOOLEAN /\ (~StackMoves => ~fault')
<1>1. ~StackMoves => ~fault /\ o \in refs[t] /\ wrapper[t][o] = "object"
  BY DEF IInv, HeldInv, Sound
<1>2. fault' = (fault \/ o \notin refs[t] \/ wrapper[t][o] # "object")
  BY DEF vtblCall
<1> QED
  BY <1>1, <1>2

\* A call that hands out an object, or fails to.
Obtained(t, o, ok, failed) ==
  /\ refs' \in [Threads -> SUBSET Objects]
  /\ wrapper' \in [Threads -> [Objects -> {"none", "null", "object"}]]
  /\ pc' \in [Threads -> Calls] /\ err' \in [Threads -> (-Half)..1]
  /\ err'[t] # hrRPCETooLate - Word
  /\ \/ /\ pc'[t] = ok /\ refs'[t] = refs[t] \cup {o}
        /\ \A x \in Objects \ {o} : wrapper'[t][x] = wrapper[t][x]
        /\ Sound(o) => wrapper'[t][o] = "object"
     \/ pc'[t] = failed /\ refs' = refs /\ wrapper' = wrapper
  /\ \A s \in Threads \ {t} : /\ pc'[s] = pc[s] /\ err'[s] = err[s]
                              /\ refs'[s] = refs[s] /\ wrapper'[s] = wrapper[s]

LEMMA Obtains ==
  ASSUME TypeOK, NEW t \in Threads, NEW o \in Objects, NEW ok \in Calls,
         NEW failed \in Calls,
         \/ Obtain(t, o, FALSE, ok, failed) /\ o = "mgr"
         \/ Obtain(t, o, TRUE, ok, failed) /\ o # "mgr"
  PROVE  Obtained(t, o, ok, failed)
<1>1. PICK local \in BOOLEAN : Obtain(t, o, local, ok, failed) /\ (local <=> o # "mgr")
  OBVIOUS
<1> DEFINE Outcome(hr, r) ==
      /\ refs' = IF Failed(hr) THEN refs ELSE [refs EXCEPT ![t] = @ \cup {o}]
      /\ \E p \in IF Failed(hr) THEN {"null"}
                  ELSE IF local /\ StackMoves THEN {"null", "object"} ELSE {"object"} :
           wrapper' = IF hrErr(r) = 0 THEN [wrapper EXCEPT ![t][o] = p] ELSE wrapper
      /\ Return(t, hrErr(r), ok, failed)
<1>2. PICK hr \in HResults : \E r \in Register(hr) : Outcome(hr, r)
  BY <1>1 DEF Obtain
<1>3. PICK r \in Register(hr) : Outcome(hr, r)
  BY <1>2
<1>4. /\ hrErr(r) \in (-Half)..1 /\ hrErr(r) # hrRPCETooLate - Word
      /\ hrErr(r) = 0 <=> ~Failed(hr)
  BY OtherErrors
<1>5. /\ pc' \in [Threads -> Calls] /\ err' \in [Threads -> (-Half)..1]
      /\ pc'[t] = IF hrErr(r) = 0 THEN ok ELSE failed
      /\ err'[t] = hrErr(r)
      /\ \A s \in Threads \ {t} : pc'[s] = pc[s] /\ err'[s] = err[s]
  BY <1>3, <1>4, Returns
<1>6. CASE Failed(hr)
  BY <1>3, <1>4, <1>5, <1>6 DEF TypeOK, Obtained
<1>7. CASE ~Failed(hr)
  <2>1. refs' = [refs EXCEPT ![t] = @ \cup {o}]
    BY <1>3, <1>7
  <2>2. PICK p \in {"null", "object"} :
          /\ wrapper' = [wrapper EXCEPT ![t][o] = p]
          /\ Sound(o) => p = "object"
    BY <1>1, <1>3, <1>4, <1>7 DEF Sound
  <2> QED
    BY <1>4, <1>5, <1>7, <2>1, <2>2 DEF TypeOK, Obtained
<1> QED
  BY <1>6, <1>7

\* Release gives back the reference of a wrapper that holds one.
LEMMA Releases ==
  ASSUME IInv, NEW t \in Threads, NEW o \in Objects, o \in Held(pc[t]), comRelease(t, o)
  PROVE  /\ refs' \in [Threads -> SUBSET Objects]
         /\ wrapper' \in [Threads -> [Objects -> {"none", "null", "object"}]]
         /\ fault' \in BOOLEAN /\ (~StackMoves => ~fault')
         /\ \A s \in Threads \ {t} : refs'[s] = refs[s] /\ wrapper'[s] = wrapper[s]
         /\ \A x \in Objects : Sound(x) =>
              /\ x \in refs'[t] <=> x \in refs[t] /\ x # o
              /\ wrapper'[t][x] = IF x = o THEN "none" ELSE wrapper[t][x]
<1>1. wrapper' = [wrapper EXCEPT ![t][o] = "none"]
  BY DEF comRelease
<1>2. Sound(o) => wrapper[t][o] = "object"
  BY DEF IInv, HeldInv
<1>3. CASE wrapper[t][o] = "null"
  <2>1. refs' = refs /\ fault' = fault
    BY <1>3 DEF comRelease
  <2> QED
    BY <1>1, <1>2, <1>3, <2>1 DEF IInv, TypeOK
<1>4. CASE wrapper[t][o] # "null"
  <2>1. vtblCall(t, o) /\ refs' = [refs EXCEPT ![t] = @ \ {o}]
    BY <1>4 DEF comRelease
  <2>2. fault' \in BOOLEAN /\ (~StackMoves => ~fault')
    BY <2>1, Reaches
  <2> QED
    BY <1>1, <2>1, <2>2 DEF IInv, TypeOK
<1> QED
  BY <1>3, <1>4

\* Once everything is initialised it stays so.
LEMMA StaysStarted ==
  ASSUME IInv, NEW t \in Threads, pc[t] \notin Startup \cup {"done"},
         pc'[t] \notin Startup, UNCHANGED <<in, comVars>>,
         err'[t] # hrRPCETooLate - Word
  PROVE  StartInv(t)'
  BY DEF IInv, StartInv, Startup, comVars

\* Data that a step does not touch is still right.
LEMMA DataStays ==
  ASSUME IInv, NEW t \in Threads, UNCHANGED <<in, dataVars>>,
         pc[t] \in Startup \/ pc'[t] \notin Startup, pc'[t] \notin {"stdout", "conn"}
  PROVE  DataInv(t)'
  BY DEF IInv, DataInv, dataVars

-----------------------------------------------------------------------------
(* From COM to the session *)

LEMMA CoInitializeExKeeps ==
  ASSUME IInv, NEW t \in Threads, CoInitializeEx(t) PROVE IInv'
<1> USE DEF IInv
<1>1. pc[t] = "ex" /\ UNCHANGED <<in, security, winsock, objVars, dataVars>>
  BY DEF CoInitializeEx
<1>2. PICK hr \in HResults : \E r \in Register(hr) :
        /\ apartment' = IF Failed(hr) THEN apartment ELSE apartment \cup {t}
        /\ Return(t, hrErr(r), "security", "done")
  BY DEF CoInitializeEx
<1>3. PICK r \in Register(hr) : Return(t, hrErr(r), "security", "done")
  BY <1>2
<1>4. /\ hrErr(r) \in (-Half)..1 /\ hrErr(r) # hrRPCETooLate - Word
      /\ hrErr(r) = 0 <=> ~Failed(hr)
  BY OtherErrors
<1>5. /\ pc' \in [Threads -> Calls] /\ err' \in [Threads -> (-Half)..1]
      /\ pc'[t] = IF hrErr(r) = 0 THEN "security" ELSE "done"
      /\ err'[t] = hrErr(r)
      /\ \A s \in Threads \ {t} : pc'[s] = pc[s] /\ err'[s] = err[s]
  BY <1>3, <1>4, Returns DEF Calls, Startup
<1> USE DEF objVars, dataVars
<1>6. TypeOK'
  BY <1>1, <1>2, <1>5 DEF TypeOK, Calls
<1>7. ASSUME NEW s \in Threads \ {t} PROVE Same(s)
  BY <1>1, <1>5 DEF Same
<1>8. StartInv(t)'
  BY <1>1, <1>2, <1>4, <1>5 DEF StartInv, Startup
<1>9. DataInv(t)'
  BY <1>1, <1>5, DataStays DEF Startup
<1>10. HeldInv(t)'
  BY <1>1, <1>5 DEF HeldInv, Held
<1> QED
  BY <1>1, <1>2, <1>6, <1>7, <1>8, <1>9, <1>10, OneSession

LEMMA OtherSecurityKeeps == ASSUME IInv, OtherSecurity PROVE IInv'
<1>1. /\ security' = "other"
      /\ UNCHANGED <<pc, in, err, apartment, winsock, objVars, dataVars>>
  BY DEF OtherSecurity
<1>2. TypeOK'
  BY <1>1 DEF IInv, TypeOK, objVars, dataVars
<1>3. ASSUME NEW t \in Threads PROVE StartInv(t)' /\ DataInv(t)' /\ HeldInv(t)'
  <2>1. StartInv(t) /\ DataInv(t) /\ HeldInv(t)
    BY DEF IInv
  <2> QED
    BY <1>1, <2>1 DEF StartInv, DataInv, HeldInv, objVars, dataVars
<1> QED
  BY <1>1, <1>2, <1>3 DEF IInv, objVars

\* Whoever sets the security level, it is set when the next call is made.
LEMMA CoInitializeSecurityKeeps ==
  ASSUME IInv, NEW t \in Threads, CoInitializeSecurity(t) PROVE IInv'
<1> USE DEF IInv
<1> DEFINE e(r) == IF isHRESULT(hrErr(r), hrRPCETooLate) THEN 0 ELSE hrErr(r)
<1>1. pc[t] = "security" /\ UNCHANGED <<in, apartment, winsock, objVars, dataVars>>
  BY DEF CoInitializeSecurity
<1>2. PICK hr \in IF security = "none" THEN HResults ELSE {hrRPCETooLate} :
        \E r \in Register(hr) :
          /\ security' = IF Failed(hr) THEN security ELSE "impersonate"
          /\ Return(t, e(r), "wsa", "done")
  BY DEF CoInitializeSecurity
<1>3. PICK r \in Register(hr) : Return(t, e(r), "wsa", "done")
  BY <1>2
<1>4. hr \in 0..(Word - 1) /\ Failed(hrRPCETooLate)
  BY <1>2, ComApiConstants, WordIsNat DEF Failed
<1>5. /\ e(r) \in (-Half)..1 /\ e(r) # hrRPCETooLate - Word
      /\ e(r) = 0 <=> hr = hrRPCETooLate \/ ~Failed(hr)
  BY <1>4, ErrorOfRegister, TooLateRecognised, ComApiConstants, WordIsNat
<1> HIDE DEF e
<1>6. /\ pc' \in [Threads -> Calls] /\ err' \in [Threads -> (-Half)..1]
      /\ pc'[t] = IF e(r) = 0 THEN "wsa" ELSE "done"
      /\ err'[t] = e(r)
      /\ \A s \in Threads \ {t} : pc'[s] = pc[s] /\ err'[s] = err[s]
  BY <1>3, <1>5, Returns DEF Calls, Startup
<1> USE DEF objVars, dataVars
<1>7. TypeOK'
  BY <1>1, <1>2, <1>6 DEF TypeOK, Calls
<1>8. security # "none" => security' # "none"
  BY <1>2
<1>9. ASSUME NEW s \in Threads \ {t} PROVE Same(s)
  BY <1>1, <1>6 DEF Same
<1>10. e(r) = 0 => security' # "none"
  BY <1>2, <1>4, <1>5, ComApiConstants
<1>11. StartInv(t)'
  BY <1>1, <1>5, <1>6, <1>10 DEF StartInv, Startup
<1>12. DataInv(t)'
  BY <1>1, <1>6, DataStays DEF Startup
<1>13. HeldInv(t)'
  BY <1>1, <1>6 DEF HeldInv, Held
<1> QED
  BY <1>1, <1>7, <1>8, <1>9, <1>11, <1>12, <1>13, OneSession

LEMMA WSAStartupKeeps ==
  ASSUME IInv, NEW t \in Threads, WSAStartup(t) PROVE IInv'
<1> USE DEF IInv
<1> DEFINE e(r) == IF r = 0 THEN 0 ELSE Other
<1>1. pc[t] = "wsa" /\ UNCHANGED <<in, apartment, security, objVars, dataVars>>
  BY DEF WSAStartup
<1>2. PICK hr \in HResults : \E r \in Register(hr) :
        /\ winsock' = (winsock \/ hr = 0)
        /\ Return(t, e(r), "activate", "done")
  BY DEF WSAStartup
<1>3. PICK r \in Register(hr) : Return(t, e(r), "activate", "done")
  BY <1>2
<1>4. /\ e(r) \in (-Half)..1 /\ e(r) # hrRPCETooLate - Word
      /\ e(r) = 0 => hr = 0
  BY LowerHalf, ComApiConstants, WordIsNat DEF Other
<1> HIDE DEF e
<1>5. /\ pc' \in [Threads -> Calls] /\ err' \in [Threads -> (-Half)..1]
      /\ pc'[t] = IF e(r) = 0 THEN "activate" ELSE "done"
      /\ err'[t] = e(r)
      /\ \A s \in Threads \ {t} : pc'[s] = pc[s] /\ err'[s] = err[s]
  BY <1>3, <1>4, Returns DEF Calls, Startup
<1> USE DEF objVars, dataVars
<1>6. winsock' \in BOOLEAN /\ (winsock => winsock') /\ (e(r) = 0 => winsock')
  BY <1>2, <1>4
<1>7. TypeOK'
  BY <1>1, <1>5, <1>6 DEF TypeOK, Calls
<1>8. ASSUME NEW s \in Threads \ {t} PROVE Same(s)
  BY <1>1, <1>5 DEF Same
<1>9. StartInv(t)'
  BY <1>1, <1>4, <1>5, <1>6 DEF StartInv, Startup
<1>10. DataInv(t)'
  BY <1>1, <1>5 DEF DataInv, Startup
<1>11. HeldInv(t)'
  BY <1>1, <1>5 DEF HeldInv, Held
<1> QED
  BY <1>1, <1>6, <1>7, <1>8, <1>9, <1>10, <1>11, OneSession

LEMMA activateSessionManagerKeeps ==
  ASSUME IInv, NEW t \in Threads, activateSessionManager(t) PROVE IInv'
<1> USE DEF IInv
<1>1. pc[t] = "activate" /\ UNCHANGED <<in, comVars, fault, dataVars>>
  BY DEF activateSessionManager
<1>2. Obtain(t, "mgr", FALSE, "create", "done")
  BY DEF activateSessionManager
<1>3. "create" \in Calls /\ "done" \in Calls /\ "mgr" \in Objects
  BY DEF Calls, Objects
<1>4. Obtained(t, "mgr", "create", "done")
  BY <1>2, <1>3, Obtains
<1> USE DEF comVars, dataVars, Obtained
<1>5. TypeOK'
  BY <1>1, <1>4 DEF TypeOK, Calls
<1>6. ASSUME NEW s \in Threads \ {t} PROVE Same(s)
  BY <1>1, <1>4 DEF Same
<1>7. StartInv(t)'
  BY <1>1, <1>4, StaysStarted DEF Startup
<1>8. DataInv(t)'
  BY <1>1, <1>4, DataStays DEF Startup
<1>9. HeldInv(t)'
  BY <1>1, <1>4 DEF HeldInv, Held, Objects, Sound
<1> QED
  BY <1>1, <1>5, <1>6, <1>7, <1>8, <1>9, OneSession

\* A session is given the settings of its own options, and a refused name calls
\* nothing.
LEMMA CreateSessionKeeps ==
  ASSUME IInv, NEW t \in Threads, CreateSession(t) PROVE IInv'
<1> USE DEF IInv
<1>1. pc[t] = "create" /\ UNCHANGED <<in, comVars, volume, handle, io>>
  BY DEF CreateSession
<1>2. /\ "volume" \in Calls /\ "relMgr" \in Calls
      /\ "mgr" \in Objects /\ "sess" \in Objects /\ TypeOK
  BY DEF Calls, Objects
<1>3. in[t] \in Inputs
  BY <1>1 DEF StartInv
<1> USE DEF comVars
<1>4. CASE in[t].nul
  <2>1. Return(t, 1, "volume", "relMgr") /\ UNCHANGED <<objVars, settings>>
    BY <1>4 DEF CreateSession, Other
  <2>2. /\ pc' \in [Threads -> Calls] /\ err' \in [Threads -> (-Half)..1]
        /\ pc'[t] = "relMgr" /\ err'[t] = 1
        /\ \A s \in Threads \ {t} : pc'[s] = pc[s] /\ err'[s] = err[s]
    BY <1>2, <2>1, WordIsNat, Returns
  <2>3. 1 # hrRPCETooLate - Word
    BY ComApiConstants, WordIsNat
  <2> USE DEF objVars
  <2>4. TypeOK'
    BY <1>1, <2>1, <2>2 DEF TypeOK, Calls
  <2>5. ASSUME NEW s \in Threads \ {t} PROVE Same(s)
    BY <1>1, <2>1, <2>2 DEF Same
  <2>6. StartInv(t)'
    BY <1>1, <2>2, <2>3, StaysStarted DEF Startup
  <2>7. DataInv(t)'
    BY <1>1, <2>1, <2>2, DataStays DEF Startup, dataVars
  <2>8. HeldInv(t)'
    BY <1>1, <2>1, <2>2 DEF HeldInv, Held
  <2> QED
    BY <1>1, <2>1, <2>4, <2>5, <2>6, <2>7, <2>8, OneSession
<1>5. CASE ~in[t].nul
  <2>1. /\ vtblCall(t, "mgr")
        /\ settings' = [settings EXCEPT ![t] = Settings(in[t])]
    BY <1>5 DEF CreateSession
  <2>2. Obtain(t, "sess", TRUE, "volume", "relMgr")
    BY <1>5 DEF CreateSession
  <2>3. Obtained(t, "sess", "volume", "relMgr")
    BY <1>2, <2>2, Obtains
  <2> USE DEF Obtained
  <2>4. "mgr" \in Held(pc[t])
    BY <1>1 DEF Held
  <2>5. fault' \in BOOLEAN /\ (~StackMoves => ~fault')
    BY <1>2, <2>1, <2>4, Reaches
  <2>6. TypeOK'
    BY <1>1, <1>3, <2>1, <2>3, <2>5 DEF TypeOK, Calls
  <2>7. ASSUME NEW s \in Threads \ {t} PROVE Same(s)
    BY <1>1, <2>1, <2>3 DEF Same, TypeOK
  <2>8. StartInv(t)'
    BY <1>1, <2>3, StaysStarted DEF Startup
  <2>9. settings'[t] = Settings(in[t])
    BY <2>1 DEF TypeOK
  <2>10. DataInv(t)'
    BY <1>1, <2>3, <2>9 DEF DataInv, Startup
  <2>11. HeldInv(t)'
    BY <1>1, <2>3 DEF HeldInv, Held, Objects, Sound
  <2> QED
    BY <1>1, <2>5, <2>6, <2>7, <2>8, <2>10, <2>11, OneSession
<1> QED
  BY <1>4, <1>5

\* A volume is only created where its size and its path have been accepted.
LEMMA CreateVolumeKeeps ==
  ASSUME IInv, NEW t \in Threads, CreateVolume(t) PROVE IInv'
<1> USE DEF IInv
<1> DEFINE v == in[t].vol
           e == IF HasVolume(in[t]) THEN Other ELSE 0
           made == HasVolume(in[t]) /\ VolumeValid(v)
<1>1. /\ pc[t] = "volume"
      /\ UNCHANGED <<in, comVars, refs, wrapper, settings, handle, io>>
  BY DEF CreateVolume
<1>2. {"ready", "terminate"} \subseteq Calls /\ "sess" \in Objects /\ "sess" \in Held(pc[t])
  BY <1>1 DEF Calls, Objects, Held
<1>3. in[t] \in Inputs /\ v.size \in Int
  BY <1>1, InputTypes DEF StartInv
<1>4. HasVolume(in[t]) => in[t].store
  BY <1>1 DEF StartInv
<1>5. Bytes(v) \in 0..(DWord - 1)
  BY <1>3, ComApiConstants, DWordIsNat, DivMod DEF Bytes
<1> DEFINE Kept(x) ==
      /\ pc' \in [Threads -> Calls] /\ err' \in [Threads -> (-Half)..1]
      /\ pc'[t] \in {"ready", "terminate"} /\ err'[t] = x
      /\ \A s \in Threads \ {t} : pc'[s] = pc[s] /\ err'[s] = err[s]
<1>6. /\ fault' \in BOOLEAN /\ (~StackMoves => ~fault')
      /\ \E x \in (-Half)..1 : x # hrRPCETooLate - Word /\ Kept(x)
      /\ \/ volume' = volume
         \/ made /\ volume' = [volume EXCEPT ![t] = Bytes(v)]
  <2>1. CASE ~made
    <3>1. Return(t, e, "ready", "terminate") /\ UNCHANGED <<fault, volume>>
      BY <2>1 DEF CreateVolume
    <3>2. e \in (-Half)..1 /\ e # hrRPCETooLate - Word
      BY ComApiConstants, WordIsNat DEF Other
    <3> HIDE DEF e
    <3>3. Kept(e)
      BY <1>2, <3>1, <3>2, Returns
    <3> QED
      BY <3>1, <3>2, <3>3 DEF TypeOK
  <2>2. CASE made
    <3>1. vtblCall(t, "sess")
      BY <2>2 DEF CreateVolume
    <3>2. PICK hr \in HResults : \E r \in Register(hr) :
            /\ volume' = IF Failed(hr) THEN volume ELSE [volume EXCEPT ![t] = Bytes(v)]
            /\ Return(t, hrErr(r), "ready", "terminate")
      BY <2>2 DEF CreateVolume
    <3>3. PICK r \in Register(hr) : Return(t, hrErr(r), "ready", "terminate")
      BY <3>2
    <3>4. hrErr(r) \in (-Half)..1 /\ hrErr(r) # hrRPCETooLate - Word
      BY OtherErrors
    <3>5. Kept(hrErr(r))
      BY <1>2, <3>3, <3>4, Returns
    <3>6. fault' \in BOOLEAN /\ (~StackMoves => ~fault')
      BY <1>2, <3>1, Reaches
    <3>7. volume' = volume \/ volume' = [volume EXCEPT ![t] = Bytes(v)]
      BY <3>2
    <3> QED
      BY <2>2, <3>4, <3>5, <3>6, <3>7
  <2> QED
    BY <2>1, <2>2
<1>7. PICK x \in (-Half)..1 : x # hrRPCETooLate - Word /\ Kept(x)
  BY <1>6
<1> HIDE DEF made, v
<1>8. /\ volume' \in [Threads -> 0..(DWord - 1)]
      /\ \A s \in Threads \ {t} : volume'[s] = volume[s]
      /\ volume'[t] = volume[t] \/ (made /\ volume'[t] = Bytes(v))
  <2> DEFINE sizes == 0..(DWord - 1)
             b == Bytes(v)
  <2>1. volume \in [Threads -> sizes] /\ b \in sizes
    BY <1>5 DEF TypeOK
  <2>2. volume' = volume \/ (made /\ volume' = [volume EXCEPT ![t] = b])
    BY <1>6
  <2> HIDE DEF sizes, b
  <2>3. /\ volume' \in [Threads -> sizes]
        /\ \A s \in Threads \ {t} : volume'[s] = volume[s]
        /\ volume'[t] = volume[t] \/ (made /\ volume'[t] = b)
    BY <2>1, <2>2
  <2> QED
    BY <2>3 DEF sizes, b
<1> USE DEF comVars
<1>9. TypeOK'
  BY <1>1, <1>6, <1>7, <1>8 DEF TypeOK, Calls
<1>10. ASSUME NEW s \in Threads \ {t} PROVE Same(s)
  BY <1>1, <1>7, <1>8 DEF Same
<1>11. StartInv(t)'
  BY <1>1, <1>7, StaysStarted DEF Startup
<1>12. DataInv(t)'
  BY <1>1, <1>4, <1>7, <1>8 DEF DataInv, Startup, made, v, VolumeValid
<1>13. HeldInv(t)'
  BY <1>1, <1>7 DEF HeldInv, Held
<1> QED
  BY <1>1, <1>6, <1>9, <1>10, <1>11, <1>12, <1>13, OneSession

-----------------------------------------------------------------------------
(* The session in use and its end *)

LEMMA GetDisplayNameKeeps ==
  ASSUME IInv, NEW t \in Threads, GetDisplayName(t) PROVE IInv'
<1> USE DEF IInv
<1>1. /\ pc[t] = "ready" /\ vtblCall(t, "sess")
      /\ UNCHANGED <<in, comVars, refs, wrapper, dataVars>>
  BY DEF GetDisplayName
<1>2. PICK hr \in HResults : \E r \in Register(hr) : Return(t, hrErr(r), "ready", "ready")
  BY DEF GetDisplayName
<1>3. PICK r \in Register(hr) : Return(t, hrErr(r), "ready", "ready")
  BY <1>2
<1>4. hrErr(r) \in (-Half)..1 /\ hrErr(r) # hrRPCETooLate - Word
  BY OtherErrors
<1>5. "ready" \in Calls /\ "sess" \in Objects /\ "sess" \in Held(pc[t])
  BY <1>1 DEF Calls, Objects, Held
<1>6. /\ pc' \in [Threads -> Calls] /\ err' \in [Threads -> (-Half)..1]
      /\ pc'[t] = "ready" /\ err'[t] = hrErr(r)
      /\ \A s \in Threads \ {t} : pc'[s] = pc[s] /\ err'[s] = err[s]
  BY <1>3, <1>4, <1>5, Returns
<1>7. fault' \in BOOLEAN /\ (~StackMoves => ~fault')
  BY <1>1, <1>5, Reaches
<1> USE DEF comVars, dataVars
<1>8. TypeOK'
  BY <1>1, <1>6, <1>7 DEF TypeOK, Calls
<1>9. ASSUME NEW s \in Threads \ {t} PROVE Same(s)
  BY <1>1, <1>6 DEF Same
<1>10. StartInv(t)'
  BY <1>1, <1>4, <1>6, StaysStarted DEF Startup
<1>11. DataInv(t)'
  BY <1>1, <1>6, DataStays DEF Startup
<1>12. HeldInv(t)'
  BY <1>1, <1>6 DEF HeldInv, Held
<1> QED
  BY <1>1, <1>7, <1>8, <1>9, <1>10, <1>11, <1>12, OneSession

\* A dial begins with no handles and nothing moved.
LEMMA CreateRootNamespaceProcessKeeps ==
  ASSUME IInv, NEW t \in Threads, CreateRootNamespaceProcess(t) PROVE IInv'
<1> USE DEF IInv
<1>1. /\ pc[t] = "ready"
      /\ handle' = [handle EXCEPT ![t] = [fd \in Fds |-> "none"]]
      /\ io' = [io EXCEPT ![t] = [fd \in Fds |-> [claimed |-> 0, moved |-> 0]]]
      /\ UNCHANGED <<in, comVars, settings, volume>>
  BY DEF CreateRootNamespaceProcess
<1>2. /\ "ready" \in Calls /\ "stdin" \in Calls
      /\ "proc" \in Objects /\ "sess" \in Objects /\ "sess" \in Held(pc[t])
  BY <1>1 DEF Calls, Objects, Held
<1>3. /\ fault' \in BOOLEAN /\ (~StackMoves => ~fault')
      /\ Obtained(t, "proc", "stdin", "ready")
  <2>1. CASE Return(t, Other, "ready", "ready") /\ UNCHANGED <<refs, wrapper, fault>>
    <3>1. Other \in (-Half)..1 /\ Other # hrRPCETooLate - Word
      BY ComApiConstants, WordIsNat DEF Other
    <3>2. /\ pc' \in [Threads -> Calls] /\ err' \in [Threads -> (-Half)..1]
          /\ pc'[t] = "ready" /\ err'[t] = Other
          /\ \A s \in Threads \ {t} : pc'[s] = pc[s] /\ err'[s] = err[s]
      BY <1>2, <2>1, <3>1, Returns
    <3> QED
      BY <2>1, <3>1, <3>2 DEF Obtained, TypeOK
  <2>2. CASE vtblCall(t, "sess") /\ Obtain(t, "proc", TRUE, "stdin", "ready")
    <3>1. fault' \in BOOLEAN /\ (~StackMoves => ~fault')
      BY <1>2, <2>2, Reaches
    <3>2. "proc" # "mgr"
      OBVIOUS
    <3>3. Obtained(t, "proc", "stdin", "ready")
      BY <1>2, <2>2, <3>2, Obtains
    <3> QED
      BY <3>1, <3>3
  <2> QED
    BY <2>1, <2>2 DEF CreateRootNamespaceProcess
<1> USE DEF comVars, Obtained
<1>4. [fd \in Fds |-> [claimed |-> 0, moved |-> 0]] \in
        [Fds -> [claimed : 0..BufLen, moved : 0..BufLen]]
  BY ComApiConstants
<1>5. TypeOK'
  BY <1>1, <1>3, <1>4 DEF TypeOK, Calls
<1>6. ASSUME NEW s \in Threads \ {t} PROVE Same(s)
  BY <1>1, <1>3 DEF Same, TypeOK
<1>7. StartInv(t)'
  BY <1>1, <1>3, StaysStarted DEF Startup
<1>8. \A fd \in Fds : io'[t][fd].claimed = io'[t][fd].moved
  BY <1>1 DEF TypeOK
<1>9. DataInv(t)'
  BY <1>1, <1>3, <1>8 DEF DataInv, Startup
<1>10. HeldInv(t)'
  BY <1>1, <1>3 DEF HeldInv, Held, Objects, Sound
<1> QED
  BY <1>1, <1>3, <1>5, <1>6, <1>7, <1>9, <1>10, OneSession

\* A handle is kept only if it is a socket.
LEMMA GetStdHandleKeeps ==
  ASSUME IInv, NEW t \in Threads, NEW fd \in Fds, GetStdHandle(t, fd) PROVE IInv'
<1> USE DEF IInv
<1> DEFINE next == IF fd = "stdin" THEN "stdout" ELSE "conn"
           e(r, type) == IF hrErr(r) = 0 /\ type # "Socket" THEN Other ELSE hrErr(r)
<1>1. /\ pc[t] = fd /\ vtblCall(t, "proc")
      /\ UNCHANGED <<in, comVars, refs, wrapper, settings, volume, io>>
  BY DEF GetStdHandle
<1>2. PICK hr \in HResults, type \in HandleTypes : \E r \in Register(hr) :
        /\ handle' = IF e(r, type) = 0 THEN [handle EXCEPT ![t][fd] = type] ELSE handle
        /\ Return(t, e(r, type), next, "relProc")
  BY DEF GetStdHandle
<1>3. PICK r \in Register(hr) :
        /\ handle' = IF e(r, type) = 0 THEN [handle EXCEPT ![t][fd] = type] ELSE handle
        /\ Return(t, e(r, type), next, "relProc")
  BY <1>2
<1>4. /\ e(r, type) \in (-Half)..1 /\ e(r, type) # hrRPCETooLate - Word
      /\ e(r, type) = 0 => type = "Socket"
  BY OtherErrors, ComApiConstants, WordIsNat DEF Other
<1> HIDE DEF e
<1>5. /\ next \in Calls /\ "relProc" \in Calls /\ fd \in {"stdin", "stdout"}
      /\ "proc" \in Objects /\ "proc" \in Held(pc[t])
  BY <1>1 DEF Calls, Objects, Held, Fds
<1>6. /\ pc' \in [Threads -> Calls] /\ err' \in [Threads -> (-Half)..1]
      /\ pc'[t] = IF e(r, type) = 0 THEN next ELSE "relProc"
      /\ err'[t] = e(r, type)
      /\ \A s \in Threads \ {t} : pc'[s] = pc[s] /\ err'[s] = err[s]
  BY <1>3, <1>4, <1>5, Returns
<1>7. fault' \in BOOLEAN /\ (~StackMoves => ~fault')
  BY <1>1, <1>5, Reaches
<1>8. /\ handle' \in [Threads -> [Fds -> HandleTypes \cup {"none"}]]
      /\ \A s \in Threads \ {t} : handle'[s] = handle[s]
      /\ e(r, type) = 0 => /\ handle'[t][fd] = "Socket"
                           /\ \A x \in Fds \ {fd} : handle'[t][x] = handle[t][x]
  BY <1>3, <1>4 DEF TypeOK
<1> USE DEF comVars
<1>9. TypeOK'
  BY <1>1, <1>6, <1>7, <1>8 DEF TypeOK, Calls
<1>10. ASSUME NEW s \in Threads \ {t} PROVE Same(s)
  BY <1>1, <1>6, <1>8 DEF Same
<1>11. StartInv(t)'
  BY <1>1, <1>4, <1>5, <1>6, StaysStarted DEF Startup
<1>12. DataInv(t)'
  BY <1>1, <1>5, <1>6, <1>8 DEF DataInv, Startup, Fds
<1>13. HeldInv(t)'
  BY <1>1, <1>5, <1>6 DEF HeldInv, Held
<1> QED
  BY <1>1, <1>7, <1>9, <1>10, <1>11, <1>12, <1>13, OneSession

\* What send and recv report is what they moved, in the type of Go's int.
LEMMA TransferKeeps ==
  ASSUME IInv, NEW t \in Threads, NEW fd \in Fds, Transfer(t, fd) PROVE IInv'
<1> USE DEF IInv
<1> DEFINE was == io[t][fd]
           left == BufLen - was.moved
           e(r) == IF Count(r) <= 0 THEN Other ELSE 0
           now(n, r) ==
             [claimed |-> IF Count(r) < 0 THEN was.claimed ELSE was.claimed + Count(r),
              moved   |-> IF n = Word - 1 THEN was.moved ELSE was.moved + n]
<1>1. /\ pc[t] = "conn" /\ left > 0
      /\ UNCHANGED <<in, comVars, objVars, settings, volume, handle>>
  BY DEF Transfer
<1>2. PICK n \in 0..left \cup {Word - 1} : \E r \in Register(n) :
        /\ io' = [io EXCEPT ![t][fd] = now(n, r)]
        /\ Return(t, e(r), "conn", "relProc")
  BY DEF Transfer
<1>3. PICK r \in Register(n) : /\ io' = [io EXCEPT ![t][fd] = now(n, r)]
                               /\ Return(t, e(r), "conn", "relProc")
  BY <1>2
<1>4. was \in [claimed : 0..BufLen, moved : 0..BufLen] /\ was.claimed = was.moved
  BY <1>1 DEF DataInv, TypeOK
<1>5. e(r) \in (-Half)..1 /\ e(r) # hrRPCETooLate - Word
  BY ComApiConstants, WordIsNat DEF Other
<1>6. "conn" \in Calls /\ "relProc" \in Calls
  BY DEF Calls
<1> HIDE DEF e
<1>7. /\ pc' \in [Threads -> Calls] /\ err' \in [Threads -> (-Half)..1]
      /\ pc'[t] = IF e(r) = 0 THEN "conn" ELSE "relProc"
      /\ err'[t] = e(r)
      /\ \A s \in Threads \ {t} : pc'[s] = pc[s] /\ err'[s] = err[s]
  BY <1>3, <1>5, <1>6, Returns
<1>8. /\ now(n, r) \in [claimed : 0..BufLen, moved : 0..BufLen]
      /\ now(n, r).claimed = now(n, r).moved
  <2>1. CASE n = Word - 1
    <3>1. Count(r) = -1
      BY <2>1, CountOfRegister
    <3> QED
      BY <1>4, <2>1, <3>1
  <2>2. CASE n # Word - 1
    <3>1. n \in 0..left /\ n \in 0..(Half - 1)
      BY <1>2, <1>4, <2>2, ComApiConstants, WordIsNat
    <3>2. Count(r) = n
      BY <3>1, CountOfRegister
    <3> QED
      BY <1>4, <2>2, <3>1, <3>2, ComApiConstants, WordIsNat
  <2> QED
    BY <2>1, <2>2
<1> HIDE DEF now, was, left
<1>9. /\ io' \in [Threads -> [Fds -> [claimed : 0..BufLen, moved : 0..BufLen]]]
      /\ \A s \in Threads \ {t} : io'[s] = io[s]
      /\ \A x \in Fds : io'[t][x].claimed = io'[t][x].moved
  BY <1>1, <1>3, <1>8 DEF TypeOK, DataInv
<1> USE DEF comVars, objVars
<1>10. TypeOK'
  BY <1>1, <1>7, <1>9 DEF TypeOK, Calls
<1>11. ASSUME NEW s \in Threads \ {t} PROVE Same(s)
  BY <1>1, <1>7, <1>9 DEF Same
<1>12. StartInv(t)'
  BY <1>1, <1>5, <1>7, StaysStarted DEF Startup
<1>13. DataInv(t)'
  BY <1>1, <1>7, <1>9 DEF DataInv, Startup
<1>14. HeldInv(t)'
  BY <1>1, <1>7 DEF HeldInv, Held
<1> QED
  BY <1>1, <1>10, <1>11, <1>12, <1>13, <1>14, OneSession

\* A step that calls no more than a method or nothing at all, and leaves the
\* errors alone: CloseConn and Terminate.
LEMMA QuietStepKeeps ==
  ASSUME IInv, NEW t \in Threads, NEW l \in {"relProc", "relSess"}, Goto(t, l),
         pc[t] \notin Startup \cup {"done"}, Held(pc[t]) = Held(l),
         UNCHANGED <<in, err, comVars, refs, wrapper, dataVars>>,
         fault' \in BOOLEAN, ~StackMoves => ~fault'
  PROVE  IInv'
<1> USE DEF IInv, comVars, dataVars
<1>1. /\ pc' \in [Threads -> Calls] /\ pc'[t] = l
      /\ \A s \in Threads \ {t} : pc'[s] = pc[s]
  BY DEF Goto, TypeOK, Calls
<1>2. TypeOK'
  BY <1>1 DEF TypeOK, Calls
<1>3. ASSUME NEW s \in Threads \ {t} PROVE Same(s)
  BY <1>1 DEF Same
<1>4. StartInv(t)'
  BY <1>1 DEF StartInv, Startup
<1>5. DataInv(t)'
  BY <1>1, DataStays DEF Startup
<1>6. HeldInv(t)'
  BY <1>1 DEF HeldInv
<1> QED
  BY <1>2, <1>3, <1>4, <1>5, <1>6, OneSession

LEMMA CloseConnKeeps == ASSUME IInv, NEW t \in Threads, CloseConn(t) PROVE IInv'
<1>1. /\ pc[t] = "conn" /\ Goto(t, "relProc")
      /\ UNCHANGED <<in, err, comVars, objVars, dataVars>>
  BY DEF CloseConn
<1>2. Held(pc[t]) = Held("relProc") /\ pc[t] \notin Startup \cup {"done"}
  BY <1>1 DEF Held, Startup
<1>3. fault' \in BOOLEAN /\ (~StackMoves => ~fault')
  BY <1>1 DEF IInv, TypeOK, objVars
<1> QED
  BY <1>1, <1>2, <1>3, QuietStepKeeps DEF objVars

LEMMA TerminateKeeps == ASSUME IInv, NEW t \in Threads, Terminate(t) PROVE IInv'
<1>1. /\ pc[t] \in {"ready", "terminate"} /\ Goto(t, "relSess") /\ vtblCall(t, "sess")
      /\ UNCHANGED <<in, err, comVars, refs, wrapper, dataVars>>
  BY DEF Terminate
<1>2. /\ Held(pc[t]) = Held("relSess") /\ "sess" \in Held(pc[t]) /\ "sess" \in Objects
      /\ pc[t] \notin Startup \cup {"done"}
  BY <1>1 DEF Held, Objects, Startup
<1>3. fault' \in BOOLEAN /\ (~StackMoves => ~fault')
  BY <1>1, <1>2, Reaches
<1> QED
  BY <1>1, <1>2, <1>3, QuietStepKeeps

\* Release takes the thread to a point where it holds one object less.
LEMMA ReleaseKeeps ==
  ASSUME IInv, NEW t \in Threads, NEW o \in Objects, NEW l \in {"ready", "relMgr", "done"},
         Goto(t, l), comRelease(t, o), pc[t] \notin Startup \cup {"done"},
         o \in Held(pc[t]), Held(l) = Held(pc[t]) \ {o},
         UNCHANGED <<in, err, comVars, dataVars>>
  PROVE  IInv'
<1> USE DEF IInv, comVars, dataVars
<1>1. /\ pc' \in [Threads -> Calls] /\ pc'[t] = l
      /\ \A s \in Threads \ {t} : pc'[s] = pc[s]
  BY DEF Goto, TypeOK, Calls
<1>2. /\ refs' \in [Threads -> SUBSET Objects]
      /\ wrapper' \in [Threads -> [Objects -> {"none", "null", "object"}]]
      /\ fault' \in BOOLEAN /\ (~StackMoves => ~fault')
      /\ \A s \in Threads \ {t} : refs'[s] = refs[s] /\ wrapper'[s] = wrapper[s]
      /\ \A x \in Objects : Sound(x) =>
           /\ x \in refs'[t] <=> x \in refs[t] /\ x # o
           /\ wrapper'[t][x] = IF x = o THEN "none" ELSE wrapper[t][x]
  BY Releases
<1>3. TypeOK'
  BY <1>1, <1>2 DEF TypeOK, Calls
<1>4. ASSUME NEW s \in Threads \ {t} PROVE Same(s)
  BY <1>1, <1>2 DEF Same
<1>5. StartInv(t)'
  BY <1>1 DEF StartInv, Startup
<1>6. DataInv(t)'
  BY <1>1, DataStays DEF Startup
<1>7. HeldInv(t)'
  BY <1>1, <1>2 DEF HeldInv, Sound
<1> QED
  BY <1>2, <1>3, <1>4, <1>5, <1>6, <1>7, OneSession

LEMMA ReleasesKeep ==
  ASSUME IInv, NEW t \in Threads,
         ReleaseProcess(t) \/ ReleaseSession(t) \/ ReleaseManager(t)
  PROVE  IInv'
<1>1. CASE ReleaseProcess(t)
  <2>1. /\ pc[t] = "relProc" /\ Goto(t, "ready") /\ comRelease(t, "proc")
        /\ UNCHANGED <<in, err, comVars, dataVars>>
    BY <1>1 DEF ReleaseProcess
  <2>2. /\ "proc" \in Objects /\ "proc" \in Held(pc[t]) /\ pc[t] \notin Startup \cup {"done"}
        /\ Held("ready") = Held(pc[t]) \ {"proc"}
    BY <2>1 DEF Held, Objects, Startup
  <2> QED
    BY <2>1, <2>2, ReleaseKeeps
<1>2. CASE ReleaseSession(t)
  <2>1. /\ pc[t] = "relSess" /\ Goto(t, "relMgr") /\ comRelease(t, "sess")
        /\ UNCHANGED <<in, err, comVars, dataVars>>
    BY <1>2 DEF ReleaseSession
  <2>2. /\ "sess" \in Objects /\ "sess" \in Held(pc[t]) /\ pc[t] \notin Startup \cup {"done"}
        /\ Held("relMgr") = Held(pc[t]) \ {"sess"}
    BY <2>1 DEF Held, Objects, Startup
  <2> QED
    BY <2>1, <2>2, ReleaseKeeps
<1>3. CASE ReleaseManager(t)
  <2>1. /\ pc[t] = "relMgr" /\ Goto(t, "done") /\ comRelease(t, "mgr")
        /\ UNCHANGED <<in, err, comVars, dataVars>>
    BY <1>3 DEF ReleaseManager
  <2>2. /\ "mgr" \in Objects /\ "mgr" \in Held(pc[t]) /\ pc[t] \notin Startup \cup {"done"}
        /\ Held("done") = Held(pc[t]) \ {"mgr"}
    BY <2>1 DEF Held, Objects, Startup
  <2> QED
    BY <2>1, <2>2, ReleaseKeeps
<1> QED
  BY <1>1, <1>2, <1>3

LEMMA StepIInv == IInv /\ [Next]_vars => IInv'
<1> SUFFICES ASSUME IInv, [Next]_vars PROVE IInv'
  OBVIOUS
<1>1. CASE OtherSecurity
  BY <1>1, OtherSecurityKeeps
<1>2. ASSUME NEW t \in Threads, Start(t) PROVE IInv'
  BY <1>2, ValidateKeeps, CoInitializeExKeeps, CoInitializeSecurityKeeps, WSAStartupKeeps,
     activateSessionManagerKeeps, CreateSessionKeeps, CreateVolumeKeeps DEF Start
<1>3. ASSUME NEW t \in Threads, Use(t) PROVE IInv'
  BY <1>3, GetDisplayNameKeeps, CreateRootNamespaceProcessKeeps, GetStdHandleKeeps,
     TransferKeeps, CloseConnKeeps, ReleasesKeep DEF Use
<1>4. ASSUME NEW t \in Threads, Stop(t) PROVE IInv'
  BY <1>4, TerminateKeeps, ReleasesKeep DEF Stop
<1>5. CASE UNCHANGED vars
  <2>1. TypeOK'
    BY <1>5 DEF IInv, TypeOK, vars, comVars, objVars, dataVars
  <2>2. ASSUME NEW t \in Threads PROVE StartInv(t)' /\ DataInv(t)' /\ HeldInv(t)'
    <3>1. StartInv(t) /\ DataInv(t) /\ HeldInv(t)
      BY DEF IInv
    <3> QED
      BY <1>5, <3>1 DEF StartInv, DataInv, HeldInv, vars, comVars, objVars, dataVars
  <2> QED
    BY <1>5, <2>1, <2>2 DEF IInv, vars, objVars
<1> QED
  BY <1>1, <1>2, <1>3, <1>4, <1>5 DEF Next

\* What is initialised, which references are held and what the service has been
\* asked for at every call of every session (session.go:60-150,
\* comapi.go:98-262).
THEOREM Invariance == Spec => []IInv
  BY InitIInv, StepIInv, PTL DEF Spec

-----------------------------------------------------------------------------
(* The properties of the runs *)

\* Every variable keeps its type.
THEOREM TypeCorrect == Spec => []TypeOK
<1>1. IInv => TypeOK
  BY DEF IInv
<1> QED
  BY <1>1, Invariance, PTL

\* If no stack moves between the conversion of an address and its use, then on
\* every path, and for every outcome of every call, each reference is in the
\* wrapper that gives it back, and methods are called on objects only
\* (com.go:91-97, comapi.go:142-145 and 227-230).  ComApi_moves shows that the
\* condition is needed.
THEOREM ReferencesAreKept ==
  ASSUME ~StackMoves
  PROVE  Spec => []ReferencesKept
<1>1. IInv => ReferencesKept
  <2> SUFFICES ASSUME IInv, NEW t \in Threads
               PROVE  /\ ~fault
                      /\ refs[t] = {o \in Objects : wrapper[t][o] = "object"}
                      /\ pc[t] = "done" => refs[t] = {}
    BY DEF ReferencesKept, CallsReachObjects, IInv
  <2>1. /\ refs[t] \subseteq Objects /\ ~fault
        /\ \A o \in Objects : /\ o \in refs[t] <=> o \in Held(pc[t])
                              /\ o \in Held(pc[t]) <=> wrapper[t][o] = "object"
    BY DEF IInv, TypeOK, HeldInv, Sound
  <2>2. pc[t] = "done" => Held(pc[t]) = {}
    BY DEF Held
  <2> QED
    BY <2>1, <2>2
<1> QED
  BY <1>1, Invariance, PTL

\* Whatever the stack does, a session manager that a thread has obtained, it
\* gives back: its address comes through LazyProc.Call (comapi.go:70-85).
ManagerGivenBack == \A t \in Threads : pc[t] = "done" => "mgr" \notin refs[t]

THEOREM ManagerIsGivenBack == Spec => []ManagerGivenBack
<1>1. IInv => ManagerGivenBack
  BY DEF IInv, HeldInv, Held, Sound, Objects, ManagerGivenBack
<1> QED
  BY <1>1, Invariance, PTL

\* However the sessions of a process start, and with other code that sets the
\* security level, the service is called with COM, security and Winsock up, and
\* nobody fails for having come second (com.go:122-150).
THEOREM SessionsCompose == Spec => []InitComposes
<1>1. IInv => InitComposes
  BY DEF IInv, StartInv, InitComposes, Startup
<1> QED
  BY <1>1, Invariance, PTL

\* A number of the options as the service gets it.
LEMMA DefaultsFill ==
  ASSUME NEW x \in Nat, NEW d \in 1..(Word - 1)
  PROVE  /\ (IF x % Word = 0 THEN d ELSE x % Word) \in 1..(Word - 1)
         /\ x < Word => (IF x % Word = 0 THEN d ELSE x % Word) = (IF x = 0 THEN d ELSE x)
<1>1. x % Word \in 0..(Word - 1) /\ (x < Word => x % Word = x)
  BY WordIsNat, ModAtMost
<1> QED
  BY <1>1, WordIsNat

\* The wait in milliseconds is never longer than the one asked for.
LEMMA BootNotLonger ==
  ASSUME NEW b \in Nat
  PROVE  (b \div PerMs) % Word \in Nat /\ ((b \div PerMs) % Word) * PerMs <= b
<1> DEFINE q == b \div PerMs
           w == q % Word
<1>1. q \in Nat /\ b % PerMs \in Nat /\ b = PerMs * q + (b % PerMs)
  BY ComApiConstants
<1> HIDE DEF q
<1>2. w \in Nat /\ w <= q
  <2>1. q % Word \in 0..(Word - 1) /\ q % Word <= q
    BY <1>1, WordIsNat, ModAtMost
  <2> QED
    BY <2>1, WordIsNat
<1> HIDE DEF w
<1>3. PerMs * q \in Nat /\ PerMs * w \in Nat /\ PerMs * w <= PerMs * q
  <2>1. CASE w = q
    BY <1>1, <2>1, ComApiConstants
  <2>2. CASE w < q
    BY <1>1, <1>2, <2>2, TimesMonotonic, ComApiConstants
  <2> QED
    BY <1>1, <1>2, <2>1, <2>2
<1>4. w * PerMs = PerMs * w
  BY <1>2, ComApiConstants
<1>5. w * PerMs <= b
  BY <1>1, <1>3, <1>4
<1> QED
  BY <1>2, <1>5 DEF q, w

\* The service is asked for what fits and never for nothing, and a timeout that
\* wraps only shortens the wait (comapi.go:110-131, main.go:107-116).
THEOREM SettingsAreAsAsked == Spec => []SettingsAsAsked
<1>1. IInv => SettingsAsAsked
  <2> SUFFICES ASSUME IInv, NEW t \in Threads, settings[t] # None
               PROVE  LET i == in[t]  s == settings[t]
                      IN  /\ s.cpu > 0 /\ s.mem > 0
                          /\ i.cpu < Word => s.cpu = IF i.cpu = 0 THEN DefaultCpu ELSE i.cpu
                          /\ i.mem < Word => s.mem = IF i.mem = 0 THEN DefaultMem ELSE i.mem
                          /\ i.boot > 0 => s.boot * PerMs <= i.boot
    BY DEF SettingsAsAsked
  <2> DEFINE i == in[t]
             s == settings[t]
  <2>1. i \in Inputs /\ s = Settings(i)
    BY DEF IInv, DataInv, StartInv, Startup
  <2>2. i.cpu \in Nat /\ i.mem \in Nat /\ i.boot \in Int
    BY <2>1, InputTypes
  <2>3. /\ toOptions(i)["cpu"] = i.cpu % Word
        /\ toOptions(i)["mem"] = i.mem % Word
    BY <2>1, InputTypes DEF toOptions
  <2>4. /\ s.cpu = IF i.cpu % Word = 0 THEN DefaultCpu ELSE i.cpu % Word
        /\ s.mem = IF i.mem % Word = 0 THEN DefaultMem ELSE i.mem % Word
        /\ i.boot > 0 => s.boot = (i.boot \div PerMs) % Word
    BY <2>1, <2>3 DEF Settings, OrDefault
  <2> HIDE DEF i, s
  <2>5. /\ s.cpu \in 1..(Word - 1)
        /\ i.cpu < Word => s.cpu = IF i.cpu = 0 THEN DefaultCpu ELSE i.cpu
    BY <2>2, <2>4, DefaultsFill, ComApiConstants
  <2>6. /\ s.mem \in 1..(Word - 1)
        /\ i.mem < Word => s.mem = IF i.mem = 0 THEN DefaultMem ELSE i.mem
    BY <2>2, <2>4, DefaultsFill, ComApiConstants
  <2>7. i.boot > 0 => s.boot * PerMs <= i.boot
    BY <2>2, <2>4, BootNotLonger
  <2> QED
    BY <2>5, <2>6, <2>7, WordIsNat DEF i, s
<1> QED
  BY <1>1, Invariance, PTL

\* A volume is as large as asked where 64 bits hold its bytes, and never larger
\* (comapi.go:240-262).
THEOREM VolumeIsAsAsked == Spec => []VolumeAsAsked
<1>1. IInv => VolumeAsAsked
  <2> SUFFICES ASSUME IInv, NEW t \in Threads, volume[t] > 0
               PROVE  /\ in[t].store
                      /\ IF in[t].vol.size * MiB < DWord
                         THEN volume[t] = in[t].vol.size * MiB
                         ELSE volume[t] < in[t].vol.size * MiB
    BY DEF VolumeAsAsked
  <2> DEFINE v == in[t].vol
             asked == v.size * MiB
  <2>1. in[t] \in Inputs /\ in[t].store /\ v.size > 0 /\ volume[t] = Bytes(v)
    BY DEF IInv, TypeOK, DataInv, StartInv, Startup
  <2>2. v.size \in Nat
    BY <2>1, InputTypes
  <2>3. asked \in Nat /\ volume[t] = asked % DWord
    BY <2>1, <2>2, ComApiConstants DEF Bytes
  <2> HIDE DEF asked
  <2>4. asked % DWord \in 0..(DWord - 1) /\ (asked < DWord => asked % DWord = asked)
    BY <2>3, DWordIsNat, ModAtMost
  <2>5. IF asked < DWord THEN volume[t] = asked ELSE volume[t] < asked
    BY <2>3, <2>4, DWordIsNat
  <2> QED
    BY <2>1, <2>5 DEF asked
<1> QED
  BY <1>1, Invariance, PTL

\* Only sockets are read and written, and every byte is counted
\* (com.go:201-223, comapi.go:296-302).
THEOREM IoIsCounted == Spec => []IoIsExact
<1>1. IInv => IoIsExact
  BY DEF IInv, DataInv, IoIsExact, Fds
<1> QED
  BY <1>1, Invariance, PTL
=============================================================================
