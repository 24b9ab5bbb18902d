-------------------------- MODULE ProvisionProofs --------------------------
(***************************************************************************)
(* The safety of Provision for any number of sessions on a host and any    *)
(* finite number of runs in each guest.                                    *)
(***************************************************************************)
EXTENDS Provision, FiniteSetTheorems, TLAPS

\* Runs that may still complete a build.
Ahead(s) == {r \in Runs : run[s][r] \in {"idle", "check", "build", "link"}}

\* Every completed build is that of another run.
BuildInv(s) == builds[s] + Cardinality(Ahead(s)) <= Cardinality(Runs)

\* A file that is not whole has its linker at work, or that was killed; and only
\* the chmod of another build makes it executable.
CacheInv(s) ==
  /\ cache[s].by = None => ~cache[s].x
  /\ cache[s].by # None /\ ~cache[s].whole => run[s][cache[s].by] \in {"link", "killed"}
  /\ cache[s].x /\ ~cache[s].whole => builds[s] > 0

\* The source files that extractBridgeBinary has done with in session s.
Passed(s, f) == \/ extract[s] = <<"", "mounted">>
                \/ f = "bridge.c" /\ \E l \in {"compare", "open", "write"} :
                                       extract[s] = <<"entrypoint.sh", l>>

\* Such a file is whole unless another session is writing it or has failed to.
SourceInv(s, f) ==
  Passed(s, f) => \/ file[f] = "whole" \/ f \in failed
                  \/ \E t \in Sessions : extract[t] = <<f, "write">>

IInv ==
  /\ TypeOK
  /\ \A s \in Sessions : BuildInv(s) /\ CacheInv(s)
  /\ \A s \in Sessions, f \in Files : SourceInv(s, f)

-----------------------------------------------------------------------------
(* IInv is inductive *)

\* Nothing has been extracted by this process and nothing built.
LEMMA InitIInv == Init => IInv
<1> SUFFICES ASSUME Init PROVE IInv
  OBVIOUS
<1>1. Cardinality(Runs) \in Nat
  BY RunsAssumption, FS_CardinalityType
<1>2. TypeOK
  <2>1. 0 \in 0..Cardinality(Runs)
    BY <1>1
  <2>2. extract \in [Sessions -> (Files \X {"compare", "open", "write"})
                                  \cup {<<"", "idle">>, <<"", "mounted">>}]
    BY DEF Init
  <2> QED
    BY <2>1, <2>2 DEF Init, TypeOK
<1>3. ASSUME NEW s \in Sessions PROVE BuildInv(s) /\ CacheInv(s)
  <2>1. Ahead(s) = Runs
    BY DEF Ahead, Init
  <2>2. BuildInv(s)
    <3>1. builds[s] = 0
      BY DEF Init
    <3> QED
      BY <1>1, <2>1, <3>1 DEF BuildInv
  <2>3. CacheInv(s)
    <3>1. cache[s] = [by |-> None, whole |-> FALSE, x |-> FALSE]
      BY DEF Init
    <3> QED
      BY <3>1 DEF CacheInv
  <2> QED
    BY <2>2, <2>3
<1>4. ASSUME NEW s \in Sessions, NEW f \in Files PROVE SourceInv(s, f)
  BY DEF Init, SourceInv, Passed
<1> QED
  BY <1>2, <1>3, <1>4 DEF IInv

\* A run that moves on never moves back to the builds.
LEMMA BuildsBounded ==
  ASSUME IInv, NEW s \in Sessions, NEW r \in Runs,
         NEW to \in {"check", "build", "link", "exec", "bridge", "failed", "killed"},
         run' = [run EXCEPT ![s][r] = to],
         \/ UNCHANGED builds
            /\ (run[s][r] \notin {"idle", "check", "build", "link"} =>
                  to \in {"bridge", "failed", "killed"})
         \/ /\ builds' = [builds EXCEPT ![s] = @ + 1]
            /\ run[s][r] = "link" /\ to = "exec"
  PROVE  /\ \A t \in Sessions : BuildInv(t)'
         /\ builds' \in [Sessions -> 0..Cardinality(Runs)]
<1>a. Cardinality(Runs) \in Nat
  BY RunsAssumption, FS_CardinalityType
<1>0. /\ builds \in [Sessions -> Nat]
      /\ \A t \in Sessions : builds[t] \in 0..Cardinality(Runs) /\ BuildInv(t)
      /\ \A t \in Sessions : DOMAIN run[t] = Runs
      /\ DOMAIN run = Sessions
  <2>1. builds \in [Sessions -> 0..Cardinality(Runs)]
    BY DEF IInv, TypeOK
  <2>2. run \in [Sessions -> [Runs -> {"idle", "check", "build", "link", "exec",
                                      "bridge", "failed", "killed"}]]
    BY DEF IInv, TypeOK
  <2>3. \A t \in Sessions : BuildInv(t)
    BY DEF IInv
  <2> QED
    BY <1>a, <2>1, <2>2, <2>3
<1>1. ASSUME NEW t \in Sessions
      PROVE  /\ IsFiniteSet(Ahead(t)) /\ Cardinality(Ahead(t)) \in Nat
             /\ Cardinality(Ahead(t)) <= Cardinality(Runs)
  <2>1. Ahead(t) \subseteq Runs
    BY DEF Ahead
  <2> QED
    BY <2>1, RunsAssumption, FS_Subset, FS_CardinalityType
<1>2. ASSUME NEW t \in Sessions, t # s PROVE Ahead(t)' = Ahead(t) /\ builds'[t] = builds[t]
  BY <1>0, <1>2 DEF Ahead
<1>3. CASE /\ UNCHANGED builds
           /\ run[s][r] \notin {"idle", "check", "build", "link"} =>
                to \in {"bridge", "failed", "killed"}
  <2>1. Ahead(s)' \subseteq Ahead(s)
    BY <1>0, <1>3 DEF Ahead
  <2>2. Cardinality(Ahead(s)') <= Cardinality(Ahead(s)) /\ Cardinality(Ahead(s)') \in Nat
    BY <1>1, <2>1, FS_Subset, FS_CardinalityType
  <2>3. BuildInv(s)'
    BY <1>a, <1>0, <1>1, <1>3, <2>2 DEF BuildInv
  <2>4. ASSUME NEW t \in Sessions, t # s PROVE BuildInv(t)'
    BY <1>0, <1>2, <2>4 DEF BuildInv
  <2> QED
    BY <1>0, <1>3, <2>3, <2>4
<1>4. CASE /\ builds' = [builds EXCEPT ![s] = @ + 1]
           /\ run[s][r] = "link" /\ to = "exec"
  <2>1. Ahead(s)' = Ahead(s) \ {r} /\ r \in Ahead(s)
    BY <1>0, <1>4 DEF Ahead
  <2>2. Cardinality(Ahead(s)') = Cardinality(Ahead(s)) - 1
    BY <1>1, <2>1, FS_RemoveElement
  <2>3. BuildInv(s)' /\ builds'[s] \in 0..Cardinality(Runs)
    <3>1. builds[s] \in Nat /\ builds'[s] = builds[s] + 1
      BY <1>0, <1>4
    <3>2. Cardinality(Ahead(s)) >= 1
      BY <1>1, <2>1, FS_EmptySet
    <3> QED
      BY <1>a, <1>0, <1>1, <2>2, <3>1, <3>2 DEF BuildInv
  <2>4. ASSUME NEW t \in Sessions, t # s PROVE BuildInv(t)'
    BY <1>0, <1>2, <2>4 DEF BuildInv
  <2>5. builds' \in [Sessions -> 0..Cardinality(Runs)]
    BY <1>0, <1>4, <2>3
  <2> QED
    BY <2>3, <2>4, <2>5
<1> QED
  BY <1>3, <1>4

\* The host changes nothing that the guests' half of the invariant speaks of.
LEMMA HostKeepsGuests ==
  ASSUME IInv, HostUnchanged
  PROVE  \A s \in Sessions : BuildInv(s)' /\ CacheInv(s)'
BY DEF IInv, HostUnchanged, BuildInv, Ahead, CacheInv

\* Nor do the guests change anything in the host's half.
LEMMA GuestKeepsSources ==
  ASSUME IInv, GuestUnchanged
  PROVE  \A s \in Sessions, f \in Files : SourceInv(s, f)'
BY DEF IInv, GuestUnchanged, SourceInv, Passed

\* So a step of the host only has to keep the types of its variables and what is
\* said of the sources.
LEMMA HostStep ==
  ASSUME IInv, HostUnchanged,
         NEW s \in Sessions, NEW p \in (Files \X {"compare", "open", "write"})
                                          \cup {<<"", "idle">>, <<"", "mounted">>},
         extract' = [extract EXCEPT ![s] = p],
         file' \in [Files -> {"absent", "torn", "whole"}], failed' \in SUBSET Files,
         \A t \in Sessions, f \in Files : SourceInv(t, f)'
  PROVE  IInv'
<1>1. TypeOK'
  BY DEF IInv, TypeOK, HostUnchanged
<1> QED
  BY <1>1, HostKeepsGuests DEF IInv

\* What session s may do to source g: forget that it is whole only in order to
\* write it, stop writing it only when it is whole or the failure is known, and
\* pass it only when it is whole.
LEMMA SourceStep ==
  ASSUME IInv, NEW s \in Sessions, NEW g \in Files, NEW p,
         extract' = [extract EXCEPT ![s] = p],
         file[g] = "whole" => file'[g] = "whole" \/ p = <<g, "write">>,
         g \in failed => g \in failed' \/ file'[g] = "whole",
         extract[s] = <<g, "write">> =>
           p = <<g, "write">> \/ file'[g] = "whole" \/ g \in failed',
         Passed(s, g)' => Passed(s, g) \/ file'[g] = "whole"
  PROVE  \A t \in Sessions : SourceInv(t, g)'
<1> SUFFICES ASSUME NEW t \in Sessions, Passed(t, g)'
             PROVE  \/ file'[g] = "whole" \/ g \in failed'
                    \/ \E u \in Sessions : extract'[u] = <<g, "write">>
  BY DEF SourceInv
<1>1. DOMAIN extract = Sessions
  BY DEF IInv, TypeOK
<1>2. Passed(t, g) \/ file'[g] = "whole"
  <2>1. CASE t = s
    BY <2>1
  <2>2. CASE t # s
    BY <1>1, <2>2 DEF Passed
  <2> QED
    BY <2>1, <2>2
<1>3. CASE Passed(t, g) /\ file[g] = "whole"
  BY <1>1, <1>3
<1>4. CASE Passed(t, g) /\ g \in failed
  BY <1>4
<1>5. CASE \E u \in Sessions : extract[u] = <<g, "write">>
  <2>1. PICK u \in Sessions : extract[u] = <<g, "write">>
    BY <1>5
  <2>2. CASE u = s
    BY <1>1, <2>1, <2>2
  <2>3. CASE u # s
    BY <1>1, <2>1, <2>3
  <2> QED
    BY <2>2, <2>3
<1> QED
  BY <1>2, <1>3, <1>4, <1>5 DEF IInv, SourceInv

\* A session that starts to extract has passed nothing yet.
LEMMA ExtractKeeps == ASSUME IInv, NEW s \in Sessions, Extract(s) PROVE IInv'
<1>1. /\ extract' = [extract EXCEPT ![s] = <<"bridge.c", "compare">>]
      /\ extract[s] = <<"", "idle">>
      /\ UNCHANGED <<file, failed>> /\ HostUnchanged
      /\ file \in [Files -> {"absent", "torn", "whole"}] /\ failed \in SUBSET Files
      /\ DOMAIN extract = Sessions
  BY DEF IInv, TypeOK, Extract
<1>2. ASSUME NEW f \in Files PROVE \A t \in Sessions : SourceInv(t, f)'
  <2>1. <<"", "idle">> # <<f, "write">>
    OBVIOUS
  <2>2. ~Passed(s, f)'
    BY <1>1 DEF Passed
  <2> QED
    BY <1>1, <2>1, <2>2, SourceStep
<1>3. <<"bridge.c", "compare">> \in Files \X {"compare", "open", "write"}
  BY DEF Files
<1> QED
  BY <1>1, <1>2, <1>3, HostStep

\* A source that is whole is passed as it is.
LEMMA WriteIfChangedKeeps ==
  ASSUME IInv, NEW s \in Sessions, NEW f \in Files, WriteIfChanged(s, f) PROVE IInv'
<1>1. /\ extract[s] = <<f, "compare">>
      /\ \/ file[f] = "whole" /\ extract' = [extract EXCEPT ![s] = Following(f)]
         \/ extract' = [extract EXCEPT ![s] = <<f, "open">>]
      /\ UNCHANGED <<file, failed>> /\ HostUnchanged
      /\ file \in [Files -> {"absent", "torn", "whole"}] /\ failed \in SUBSET Files
      /\ DOMAIN extract = Sessions
  BY DEF IInv, TypeOK, WriteIfChanged
<1>2. ASSUME NEW g \in Files PROVE \A t \in Sessions : SourceInv(t, g)'
  <2>1. <<f, "compare">> # <<g, "write">>
    OBVIOUS
  <2>2. CASE file[f] = "whole" /\ extract' = [extract EXCEPT ![s] = Following(f)]
    <3>1. Passed(s, g)' => Passed(s, g) \/ file'[g] = "whole"
      <4>1. CASE f = "bridge.c"
        BY <1>1, <2>2, <4>1 DEF Passed, Files, Following
      <4>2. CASE f = "entrypoint.sh"
        BY <1>1, <2>2, <4>2 DEF Passed, Files, Following
      <4> QED
        BY <4>1, <4>2 DEF Files
    <3> QED
      BY <1>1, <2>1, <2>2, <3>1, SourceStep
  <2>3. CASE extract' = [extract EXCEPT ![s] = <<f, "open">>]
    <3>1. Passed(s, g)' => Passed(s, g)
      BY <1>1, <2>3 DEF Passed
    <3> QED
      BY <1>1, <2>1, <2>3, <3>1, SourceStep
  <2> QED
    BY <1>1, <2>2, <2>3
<1>3. Following(f) \in (Files \X {"compare", "open", "write"}) \cup {<<"", "mounted">>}
  BY DEF Files, Following
<1> QED
  BY <1>1, <1>2, <1>3, HostStep

\* A source is only truncated by a session that goes on to write it.
LEMMA OpenTruncateKeeps ==
  ASSUME IInv, NEW s \in Sessions, NEW f \in Files, OpenTruncate(s, f) PROVE IInv'
<1>1. /\ extract[s] = <<f, "open">>
      /\ \/ /\ file' = [file EXCEPT ![f] = "torn"]
            /\ extract' = [extract EXCEPT ![s] = <<f, "write">>]
         \/ extract' = [extract EXCEPT ![s] = <<"", "idle">>] /\ UNCHANGED file
      /\ UNCHANGED failed /\ HostUnchanged
      /\ file \in [Files -> {"absent", "torn", "whole"}] /\ failed \in SUBSET Files
      /\ DOMAIN extract = Sessions
  BY DEF IInv, TypeOK, OpenTruncate
<1>2. ASSUME NEW g \in Files PROVE \A t \in Sessions : SourceInv(t, g)'
  <2>1. <<f, "open">> # <<g, "write">>
    OBVIOUS
  <2>2. CASE /\ file' = [file EXCEPT ![f] = "torn"]
             /\ extract' = [extract EXCEPT ![s] = <<f, "write">>]
    <3>1. Passed(s, g)' => Passed(s, g)
      BY <1>1, <2>2 DEF Passed
    <3>2. file[g] = "whole" => file'[g] = "whole" \/ <<f, "write">> = <<g, "write">>
      BY <1>1, <2>2
    <3> QED
      BY <1>1, <2>1, <2>2, <3>1, <3>2, SourceStep
  <2>3. CASE extract' = [extract EXCEPT ![s] = <<"", "idle">>] /\ UNCHANGED file
    <3>1. ~Passed(s, g)'
      BY <1>1, <2>3 DEF Passed
    <3> QED
      BY <1>1, <2>1, <2>3, <3>1, SourceStep
  <2> QED
    BY <1>1, <2>2, <2>3
<1>3. file' \in [Files -> {"absent", "torn", "whole"}] /\ failed' \in SUBSET Files
  BY <1>1
<1>4. PICK p \in {<<f, "write">>, <<"", "idle">>} : extract' = [extract EXCEPT ![s] = p]
  BY <1>1
<1>5. p \in (Files \X {"compare", "open", "write"}) \cup {<<"", "idle">>, <<"", "mounted">>}
  <2>1. <<f, "write">> \in Files \X {"compare", "open", "write"}
    OBVIOUS
  <2> QED
    BY <1>4, <2>1
<1>6. \A t \in Sessions, g \in Files : SourceInv(t, g)'
  BY <1>2
<1>7. IInv /\ HostUnchanged
  BY <1>1
<1> QED
  BY <1>3, <1>4, <1>5, <1>6, <1>7, HostStep

\* After its write a source is whole, or the failure is known.
LEMMA WriteContentKeeps ==
  ASSUME IInv, NEW s \in Sessions, NEW f \in Files, WriteContent(s, f) PROVE IInv'
<1>1. /\ extract[s] = <<f, "write">>
      /\ \/ /\ file' = [file EXCEPT ![f] = "whole"] /\ failed' = failed \ {f}
            /\ extract' = [extract EXCEPT ![s] = Following(f)]
         \/ /\ failed' = failed \cup {f} /\ UNCHANGED file
            /\ extract' = [extract EXCEPT ![s] = <<"", "idle">>]
      /\ HostUnchanged
      /\ file \in [Files -> {"absent", "torn", "whole"}] /\ failed \in SUBSET Files
      /\ DOMAIN extract = Sessions
  BY DEF IInv, TypeOK, WriteContent
<1>2. ASSUME NEW g \in Files PROVE \A t \in Sessions : SourceInv(t, g)'
  <2>1. f # g => <<f, "write">> # <<g, "write">>
    OBVIOUS
  <2>2. CASE /\ file' = [file EXCEPT ![f] = "whole"] /\ failed' = failed \ {f}
             /\ extract' = [extract EXCEPT ![s] = Following(f)]
    <3>1. Passed(s, g)' => Passed(s, g) \/ file'[g] = "whole"
      <4>1. CASE f = "bridge.c"
        BY <1>1, <2>2, <4>1 DEF Passed, Files, Following
      <4>2. CASE f = "entrypoint.sh"
        BY <1>1, <2>2, <4>2 DEF Passed, Files, Following
      <4> QED
        BY <4>1, <4>2 DEF Files
    <3>2. /\ file[g] = "whole" => file'[g] = "whole"
          /\ g \in failed => g \in failed' \/ file'[g] = "whole"
          /\ f = g => file'[g] = "whole"
      BY <1>1, <2>2
    <3> QED
      BY <1>1, <2>1, <2>2, <3>1, <3>2, SourceStep
  <2>3. CASE /\ failed' = failed \cup {f} /\ UNCHANGED file
             /\ extract' = [extract EXCEPT ![s] = <<"", "idle">>]
    <3>1. ~Passed(s, g)'
      BY <1>1, <2>3 DEF Passed
    <3> QED
      BY <1>1, <2>1, <2>3, <3>1, SourceStep
  <2> QED
    BY <1>1, <2>2, <2>3
<1>3. Following(f) \in (Files \X {"compare", "open", "write"}) \cup {<<"", "mounted">>}
  BY DEF Files, Following
<1>4. file' \in [Files -> {"absent", "torn", "whole"}] /\ failed' \in SUBSET Files
  BY <1>1
<1>5. PICK p \in (Files \X {"compare", "open", "write"}) \cup {<<"", "idle">>, <<"", "mounted">>} :
        extract' = [extract EXCEPT ![s] = p]
  <2> DEFINE Pair == Files \X {"compare", "open", "write"}
             idle == <<"", "idle">>
             next == Following(f)
  <2>1. /\ next \in Pair \cup {<<"", "mounted">>}
        /\ extract' = [extract EXCEPT ![s] = next] \/ extract' = [extract EXCEPT ![s] = idle]
    BY <1>1, <1>3
  <2> HIDE DEF Pair, idle, next
  <2>2. \E p \in Pair \cup {idle, <<"", "mounted">>} : extract' = [extract EXCEPT ![s] = p]
    BY <2>1
  <2> QED
    BY <2>2 DEF Pair, idle
<1>6. \A t \in Sessions, g \in Files : SourceInv(t, g)'
  BY <1>2
<1>7. IInv /\ HostUnchanged
  BY <1>1
<1> QED
  BY <1>4, <1>5, <1>6, <1>7, HostStep
\* And a step of a guest the types of its variables and what is said of its
\* runs and of its cache.
LEMMA GuestStep ==
  ASSUME IInv, GuestUnchanged, NEW s \in Sessions, NEW r \in Runs,
         NEW to \in {"check", "build", "link", "exec", "bridge", "failed", "killed"},
         NEW c \in [by : Runs \cup {None}, whole : BOOLEAN, x : BOOLEAN],
         run' = [run EXCEPT ![s][r] = to], cache' = [cache EXCEPT ![s] = c],
         \/ UNCHANGED builds
            /\ (run[s][r] \notin {"idle", "check", "build", "link"} =>
                  to \in {"bridge", "failed", "killed"})
         \/ /\ builds' = [builds EXCEPT ![s] = @ + 1]
            /\ run[s][r] = "link" /\ to = "exec",
         c.by = None => ~c.x,
         c.by # None /\ ~c.whole => \/ c.by = r /\ to \in {"link", "killed"}
                                    \/ c.by # r /\ c.by = cache[s].by /\ ~cache[s].whole,
         c.x /\ ~c.whole => builds'[s] > 0
  PROVE  IInv'
<1>1. /\ \A t \in Sessions : BuildInv(t)'
      /\ builds' \in [Sessions -> 0..Cardinality(Runs)]
  BY BuildsBounded
<1>2. TypeOK'
  BY <1>1 DEF IInv, TypeOK, GuestUnchanged
<1>3. ASSUME NEW t \in Sessions PROVE CacheInv(t)'
  <2>1. CacheInv(t)
    BY DEF IInv
  <2>2. /\ cache \in [Sessions -> [by : Runs \cup {None}, whole : BOOLEAN, x : BOOLEAN]]
        /\ DOMAIN run = Sessions /\ \A v \in Sessions : DOMAIN run[v] = Runs
        /\ DOMAIN builds = Sessions
    BY DEF IInv, TypeOK
  <2>3. CASE t = s
    BY <2>1, <2>2, <2>3 DEF CacheInv
  <2>4. CASE t # s
    <3>1. builds'[t] = builds[t] /\ cache'[t] = cache[t] /\ run'[t] = run[t]
      BY <2>2, <2>4
    <3> QED
      BY <2>1, <3>1 DEF CacheInv
  <2> QED
    BY <2>3, <2>4
<1> QED
  BY <1>1, <1>2, <1>3, GuestKeepsSources DEF IInv

\* A run may find any cache, but only a linker at work or killed leaves one that
\* is not whole.
LEMMA GuestKeeps ==
  ASSUME IInv, NEW s \in Sessions, NEW r \in Runs,
         \/ Spawn(s, r) \/ CheckCache(s, r) \/ Compile(s, r)
         \/ Linked(s, r) \/ LinkFails(s, r) \/ LinkKilled(s, r) \/ Exec(s, r)
  PROVE  IInv'
<1> DEFINE c == cache[s]
           Caches == [by : Runs \cup {None}, whole : BOOLEAN, x : BOOLEAN]
<1>1. /\ c \in Caches /\ c.by \in Runs \cup {None}
      /\ cache = [cache EXCEPT ![s] = c]
      /\ c.by = None => ~c.x
      /\ c.by = r /\ ~c.whole => run[s][r] \in {"link", "killed"}
      /\ c.x /\ ~c.whole => builds[s] > 0
      /\ None # r
  BY RunsAssumption DEF IInv, TypeOK, CacheInv
<1>2. CASE Spawn(s, r)
  <2>1. PICK to \in {"check", "failed"} : run' = [run EXCEPT ![s][r] = to]
    BY <1>2 DEF Spawn, Goto
  <2>2. run[s][r] = "idle" /\ UNCHANGED <<cache, builds>> /\ GuestUnchanged
    BY <1>2 DEF Spawn, Goto
  <2> QED
    BY <1>1, <2>1, <2>2, GuestStep
<1>3. CASE CheckCache(s, r)
  <2>1. PICK to \in {"exec", "build"} : run' = [run EXCEPT ![s][r] = to]
    BY <1>3 DEF CheckCache, Goto
  <2>2. run[s][r] = "check" /\ UNCHANGED <<cache, builds>> /\ GuestUnchanged
    BY <1>3 DEF CheckCache, Goto
  <2> QED
    BY <1>1, <2>1, <2>2, GuestStep
<1>4. CASE Compile(s, r)
  <2>1. run[s][r] = "build" /\ UNCHANGED builds /\ GuestUnchanged
    BY <1>4 DEF Compile, Goto
  <2>2. CASE run' = [run EXCEPT ![s][r] = "failed"] /\ UNCHANGED cache
    BY <1>1, <2>1, <2>2, GuestStep
  <2>3. CASE /\ run' = [run EXCEPT ![s][r] = "link"]
             /\ cache' = [cache EXCEPT ![s] = [by |-> r, whole |-> FALSE, x |-> FALSE]]
    <3>1. [by |-> r, whole |-> FALSE, x |-> FALSE] \in Caches
      OBVIOUS
    <3> QED
      BY <1>1, <2>1, <2>3, <3>1, GuestStep
  <2> QED
    BY <1>4, <2>2, <2>3 DEF Compile, Goto
<1>5. CASE Linked(s, r)
  <2>1. /\ run[s][r] = "link" /\ run' = [run EXCEPT ![s][r] = "exec"]
        /\ builds' = [builds EXCEPT ![s] = @ + 1] /\ GuestUnchanged
        /\ c.by # None
    BY <1>5 DEF Linked, Goto
  <2>2. PICK w \in BOOLEAN : /\ cache' = [cache EXCEPT ![s] = [c EXCEPT !.whole = w, !.x = TRUE]]
                             /\ w <=> (c.whole \/ c.by = r)
    BY <1>1, <1>5 DEF Linked
  <2> DEFINE linked == [c EXCEPT !.whole = w, !.x = TRUE]
  <2>3. /\ linked \in Caches /\ linked.by = c.by /\ linked.x = TRUE /\ linked.whole = w
        /\ cache' = [cache EXCEPT ![s] = linked]
    BY <1>1, <2>2
  <2> HIDE DEF linked
  <2>4. /\ linked.by = None => ~linked.x
        /\ linked.by # None /\ ~linked.whole =>
             linked.by # r /\ linked.by = cache[s].by /\ ~cache[s].whole
    BY <2>1, <2>2, <2>3
  <2>5. builds'[s] > 0
    <3>1. Cardinality(Runs) \in Nat
      BY RunsAssumption, FS_CardinalityType
    <3>2. builds \in [Sessions -> 0..Cardinality(Runs)]
      BY DEF IInv, TypeOK
    <3>3. builds[s] \in Nat /\ builds'[s] = builds[s] + 1
      BY <2>1, <3>1, <3>2
    <3> QED
      BY <3>3
  <2> QED
    BY <2>1, <2>3, <2>4, <2>5, GuestStep
<1>6. CASE LinkFails(s, r)
  <2>1. [by |-> None, whole |-> FALSE, x |-> FALSE] \in Caches
    OBVIOUS
  <2> QED
    BY <1>6, <2>1, GuestStep DEF LinkFails, Goto
<1>7. CASE LinkKilled(s, r)
  <2>1. /\ run[s][r] = "link" /\ run' = [run EXCEPT ![s][r] = "killed"]
        /\ UNCHANGED <<cache, builds>> /\ GuestUnchanged
    BY <1>7 DEF LinkKilled, Goto
  <2> QED
    BY <1>1, <2>1, GuestStep
<1>8. CASE Exec(s, r)
  <2>1. PICK to \in {"bridge", "failed"} : run' = [run EXCEPT ![s][r] = to]
    BY <1>8 DEF Exec, Goto
  <2>2. run[s][r] = "exec" /\ UNCHANGED <<cache, builds>> /\ GuestUnchanged
    BY <1>8 DEF Exec, Goto
  <2> QED
    BY <1>1, <2>1, <2>2, GuestStep
<1> QED
  BY <1>2, <1>3, <1>4, <1>5, <1>6, <1>7, <1>8

\* Every step of a session on the host or in its guest preserves it.
LEMMA StepIInv == IInv /\ [Next]_vars => IInv'
<1> SUFFICES ASSUME IInv, [Next]_vars PROVE IInv'
  OBVIOUS
<1>1. ASSUME NEW s \in Sessions,
             Extract(s) \/ \E f \in Files : WriteIfChanged(s, f) \/ OpenTruncate(s, f)
                                           \/ WriteContent(s, f)
      PROVE  IInv'
  BY <1>1, ExtractKeeps, WriteIfChangedKeeps, OpenTruncateKeeps, WriteContentKeeps
<1>2. ASSUME NEW s \in Sessions,
             \E r \in Runs : \/ Spawn(s, r) \/ CheckCache(s, r) \/ Compile(s, r)
                            \/ Linked(s, r) \/ LinkFails(s, r) \/ LinkKilled(s, r) \/ Exec(s, r)
      PROVE  IInv'
  BY <1>2, GuestKeeps
<1>3. CASE UNCHANGED vars
  <2>1. TypeOK'
    BY <1>3 DEF IInv, TypeOK, vars
  <2>2. HostUnchanged /\ GuestUnchanged
    BY <1>3 DEF vars, HostUnchanged, GuestUnchanged
  <2> QED
    BY <2>1, <2>2, HostKeepsGuests, GuestKeepsSources DEF IInv
<1> QED
  BY <1>1, <1>2, <1>3 DEF Next

\* What sessions on one host may find in the shared directory, and what the
\* runs of one guest may find in its cache, at every point of
\* extractBridgeBinary and entrypoint.sh (bridge.go:36-57, entrypoint.sh:18-34).
THEOREM Invariance == Spec => []IInv
  BY InitIInv, StepIInv, PTL DEF Spec

-----------------------------------------------------------------------------
(* The properties of the run *)

\* Every variable keeps its type, and there are no more builds than runs.
THEOREM TypeCorrect == Spec => []TypeOK
<1>1. IInv => TypeOK
  BY DEF IInv
<1> QED
  BY <1>1, Invariance, PTL

\* A session that mounts the directory meets a torn source only while somebody
\* writes it or has failed to (bridge.go:51-57).
THEOREM SourcesWhole == Spec => []MountedSourcesWhole
<1>1. IInv => MountedSourcesWhole
  BY DEF IInv, SourceInv, Passed, MountedSourcesWhole
<1> QED
  BY <1>1, Invariance, PTL

\* However many runs build at once, fail and are killed, an executable that is
\* not whole takes a completed build beside its own, and its linker is still at
\* work or was killed (entrypoint.sh:18-34).
THEOREM CacheHealsAlways == Spec => []CacheHeals
<1>1. IInv => CacheHeals
  BY DEF IInv, CacheInv, CacheHeals
<1> QED
  BY <1>1, Invariance, PTL

-----------------------------------------------------------------------------
(* When a build disturbs another run, and when it cannot any more *)

Usable(s) == cache[s].by # None /\ cache[s].whole /\ cache[s].x

\* A run that is about to exec a binary that is not usable has another run to
\* blame, which links, has failed or was killed.
ExecMeetsBuild ==
  \A s \in Sessions, r \in Runs : run[s][r] = "exec" /\ ~Usable(s) =>
    \E q \in Runs \ {r} : run[s][q] \in {"link", "failed", "killed"}

\* The binary is there, and nobody is building.
Settled(s) == Usable(s) /\ \A r \in Runs : run[s][r] \notin {"build", "link"}

\* From then on it is what every run finds: there are no more builds.
SettledForGood ==
  [][\A s \in Sessions : Settled(s) =>
       Settled(s)' /\ cache'[s] = cache[s] /\ builds'[s] = builds[s]]_vars

\* A whole file is executable: its linker finishes both at once.
WholeIsExecutable == \A s \in Sessions : cache[s].whole => Usable(s)

\* What a step does to one guest: nothing, or one run moves on.
LEMMA OneGuest ==
  ASSUME IInv, [Next]_vars, NEW s \in Sessions
  PROVE  \/ UNCHANGED <<cache[s], run[s], builds[s]>>
         \/ \E r \in Runs : \/ Spawn(s, r) \/ CheckCache(s, r) \/ Compile(s, r)
                            \/ Linked(s, r) \/ LinkFails(s, r) \/ LinkKilled(s, r) \/ Exec(s, r)
<1>1. CASE UNCHANGED vars
  BY <1>1 DEF vars
<1>2. ASSUME NEW t \in Sessions,
             Extract(t) \/ \E f \in Files : WriteIfChanged(t, f) \/ OpenTruncate(t, f)
                                           \/ WriteContent(t, f)
      PROVE  UNCHANGED <<cache[s], run[s], builds[s]>>
  BY <1>2 DEF Extract, WriteIfChanged, OpenTruncate, WriteContent, HostUnchanged
<1>3. ASSUME NEW t \in Sessions, t # s, NEW r \in Runs,
             \/ Spawn(t, r) \/ CheckCache(t, r) \/ Compile(t, r)
             \/ Linked(t, r) \/ LinkFails(t, r) \/ LinkKilled(t, r) \/ Exec(t, r)
      PROVE  UNCHANGED <<cache[s], run[s], builds[s]>>
  <2>1. PICK to : run' = [run EXCEPT ![t][r] = to]
    BY <1>3 DEF Spawn, CheckCache, Compile, Linked, LinkFails, LinkKilled, Exec, Goto
  <2>2. cache' = cache \/ \E c : cache' = [cache EXCEPT ![t] = c]
    BY <1>3 DEF Spawn, CheckCache, Compile, Linked, LinkFails, LinkKilled, Exec
  <2>3. builds' = builds \/ \E n : builds' = [builds EXCEPT ![t] = n]
    BY <1>3 DEF Spawn, CheckCache, Compile, Linked, LinkFails, LinkKilled, Exec
  <2>4. s \in DOMAIN run /\ s \in DOMAIN cache /\ s \in DOMAIN builds
    BY DEF IInv, TypeOK
  <2>5. run'[s] = run[s] /\ cache'[s] = cache[s] /\ builds'[s] = builds[s]
    BY <1>3, <2>1, <2>2, <2>3, <2>4
  <2> QED
    BY <2>5
<1> QED
  BY <1>1, <1>2, <1>3 DEF Next

\* The run that moves, and the others of its guest.
Moves(s, r, to) == run' = [run EXCEPT ![s][r] = to]

LEMMA Moved ==
  ASSUME IInv, NEW s \in Sessions, NEW r \in Runs, NEW to, Moves(s, r, to)
  PROVE  run'[s][r] = to /\ \A q \in Runs \ {r} : run'[s][q] = run[s][q]
BY DEF IInv, TypeOK, Moves

LEMMA CacheOf ==
  ASSUME IInv, NEW s \in Sessions, NEW c, cache' = [cache EXCEPT ![s] = c]
  PROVE  cache'[s] = c
BY DEF IInv, TypeOK

\* What Linked leaves in the cache.
LEMMA LinkedCache ==
  ASSUME IInv, NEW s \in Sessions, NEW r \in Runs, Linked(s, r)
  PROVE  /\ cache[s].by # None /\ cache'[s].by = cache[s].by /\ cache'[s].x = TRUE
         /\ cache'[s].whole <=> cache[s].whole \/ cache[s].by = r
<1>1. cache \in [Sessions -> [by : Runs \cup {None}, whole : BOOLEAN, x : BOOLEAN]]
  BY DEF IInv, TypeOK
<1>2. PICK w \in BOOLEAN : /\ w <=> cache[s].whole \/ cache[s].by = r
                           /\ cache' = [cache EXCEPT ![s].whole = w, ![s].x = TRUE]
  BY <1>1 DEF Linked
<1>3. cache'[s] = [cache[s] EXCEPT !.whole = w, !.x = TRUE]
  BY <1>1, <1>2
<1> QED
  BY <1>1, <1>2, <1>3 DEF Linked

LEMMA WholeStep ==
  ASSUME IInv, [Next]_vars, WholeIsExecutable, NEW s \in Sessions, cache'[s].whole
  PROVE  Usable(s)'
<1>1. CASE cache'[s] = cache[s]
  BY <1>1 DEF WholeIsExecutable, Usable
<1>2. CASE \E r \in Runs : cache'[s] = [by |-> r, whole |-> FALSE, x |-> FALSE]
  BY <1>2
<1>3. CASE cache'[s] = [by |-> None, whole |-> FALSE, x |-> FALSE]
  BY <1>3
<1>4. CASE \E r \in Runs : Linked(s, r)
  BY <1>4, LinkedCache DEF Usable
<1>5. CASE \E r \in Runs : Compile(s, r)
  BY <1>1, <1>2, <1>5, CacheOf DEF Compile
<1>6. CASE \E r \in Runs : LinkFails(s, r)
  BY <1>3, <1>6, CacheOf DEF LinkFails
<1>7. CASE \E r \in Runs : Spawn(s, r) \/ CheckCache(s, r) \/ LinkKilled(s, r) \/ Exec(s, r)
  BY <1>1, <1>7 DEF Spawn, CheckCache, LinkKilled, Exec
<1> QED
  BY <1>1, <1>4, <1>5, <1>6, <1>7, OneGuest

LEMMA ExecStep ==
  ASSUME IInv, [Next]_vars, WholeIsExecutable, ExecMeetsBuild, NEW s \in Sessions,
         NEW p \in Runs, run'[s][p] = "exec", ~Usable(s)'
  PROVE  \E q \in Runs \ {p} : run'[s][q] \in {"link", "failed", "killed"}
<1> DEFINE c == cache[s]
<1>1. /\ run[s][p] = "exec" /\ ~Usable(s) =>
           \E q \in Runs \ {p} : run[s][q] \in {"link", "failed", "killed"}
      /\ c.whole => Usable(s)
      /\ c.by \in Runs \cup {None}
      /\ c.by # None /\ ~c.whole => run[s][c.by] \in {"link", "killed"}
  BY DEF ExecMeetsBuild, WholeIsExecutable, IInv, TypeOK, CacheInv
<1>2. CASE UNCHANGED <<cache[s], run[s]>>
  BY <1>1, <1>2 DEF Usable
\* A run that moves without touching the cache was no one's excuse.
<1>3. ASSUME NEW r \in Runs, NEW to, Moves(s, r, to), cache'[s] = cache[s],
             run[s][r] \notin {"link", "failed", "killed"} \/ to = "failed", p # r
      PROVE  \E q \in Runs \ {p} : run'[s][q] \in {"link", "failed", "killed"}
  <2>1. run'[s][r] = to /\ \A q \in Runs \ {r} : run'[s][q] = run[s][q]
    BY <1>3, Moved
  <2>2. ~Usable(s) /\ run[s][p] = "exec"
    BY <1>3, <2>1 DEF Usable
  <2>3. PICK q \in Runs \ {p} : run[s][q] \in {"link", "failed", "killed"}
    BY <1>1, <2>2
  <2>4. CASE q = r
    BY <1>3, <2>1, <2>3, <2>4
  <2>5. CASE q # r
    BY <2>1, <2>3, <2>5
  <2> QED
    BY <2>4, <2>5
<1>4. ASSUME NEW r \in Runs, Spawn(s, r)
      PROVE  \E q \in Runs \ {p} : run'[s][q] \in {"link", "failed", "killed"}
  <2>1. PICK to \in {"check", "failed"} : Moves(s, r, to)
    BY <1>4 DEF Spawn, Goto, Moves
  <2>2. run'[s][r] = to
    BY <2>1, Moved
  <2>3. p # r /\ run[s][r] = "idle" /\ cache'[s] = cache[s]
    BY <1>4, <2>1, <2>2 DEF Spawn, Goto, Moves
  <2> QED
    BY <1>3, <2>1, <2>3
<1>5. ASSUME NEW r \in Runs, CheckCache(s, r)
      PROVE  \E q \in Runs \ {p} : run'[s][q] \in {"link", "failed", "killed"}
  <2>1. PICK to : /\ Moves(s, r, to)
                  /\ to = IF c.by # None /\ c.x THEN "exec" ELSE "build"
    BY <1>5 DEF CheckCache, Goto, Moves
  <2>2. run'[s][r] = to /\ \A q \in Runs \ {r} : run'[s][q] = run[s][q]
    BY <2>1, Moved
  <2>3. run[s][r] = "check" /\ cache'[s] = cache[s]
    BY <1>5 DEF CheckCache, Goto, Moves
  <2>4. CASE p = r
    <3>1. c.by # None /\ c.x /\ ~c.whole
      BY <2>1, <2>2, <2>3, <2>4 DEF Usable
    <3>2. c.by \in Runs /\ run[s][c.by] \in {"link", "killed"} /\ c.by # r
      BY <1>1, <2>3, <3>1
    <3> QED
      BY <2>2, <2>4, <3>2
  <2>5. CASE p # r
    BY <1>3, <2>1, <2>3, <2>5
  <2> QED
    BY <2>4, <2>5
<1>6. ASSUME NEW r \in Runs, Compile(s, r)
      PROVE  \E q \in Runs \ {p} : run'[s][q] \in {"link", "failed", "killed"}
  <2>1. PICK to \in {"link", "failed"} : Moves(s, r, to)
    BY <1>6 DEF Compile, Goto, Moves
  <2>2. run'[s][r] = to
    BY <2>1, Moved
  <2> QED
    BY <2>2
\* The file belongs to another linker, which is still at work or was killed.
<1>7. ASSUME NEW r \in Runs, Linked(s, r)
      PROVE  \E q \in Runs \ {p} : run'[s][q] \in {"link", "failed", "killed"}
  <2>1. Moves(s, r, "exec")
    BY <1>7 DEF Linked, Goto, Moves
  <2>2. run'[s][r] = "exec" /\ \A q \in Runs \ {r} : run'[s][q] = run[s][q]
    BY <2>1, Moved
  <2>3. c.by # None /\ ~c.whole /\ c.by # r
    BY <1>7, LinkedCache DEF Usable
  <2>4. c.by \in Runs \ {r} /\ run'[s][c.by] \in {"link", "killed"}
    BY <1>1, <2>2, <2>3
  <2>5. c.by # p
    BY <2>4
  <2> QED
    BY <2>4, <2>5
<1>8. ASSUME NEW r \in Runs, LinkFails(s, r)
      PROVE  \E q \in Runs \ {p} : run'[s][q] \in {"link", "failed", "killed"}
  <2>1. Moves(s, r, "failed")
    BY <1>8 DEF LinkFails, Goto, Moves
  <2>2. run'[s][r] = "failed"
    BY <2>1, Moved
  <2> QED
    BY <2>2
<1>9. ASSUME NEW r \in Runs, LinkKilled(s, r)
      PROVE  \E q \in Runs \ {p} : run'[s][q] \in {"link", "failed", "killed"}
  <2>1. Moves(s, r, "killed")
    BY <1>9 DEF LinkKilled, Goto, Moves
  <2>2. run'[s][r] = "killed"
    BY <2>1, Moved
  <2> QED
    BY <2>2
<1>10. ASSUME NEW r \in Runs, Exec(s, r)
      PROVE  \E q \in Runs \ {p} : run'[s][q] \in {"link", "failed", "killed"}
  <2>1. PICK to \in {"bridge", "failed"} : Moves(s, r, to)
    BY <1>10 DEF Exec, Goto, Moves
  <2>2. run'[s][r] = to
    BY <2>1, Moved
  <2>3. p # r /\ run[s][r] = "exec" /\ cache'[s] = cache[s]
    BY <1>10, <2>1, <2>2 DEF Exec, Goto, Moves
  <2> QED
    BY <1>3, <2>1, <2>3
<1> QED
  BY <1>2, <1>4, <1>5, <1>6, <1>7, <1>8, <1>9, <1>10, OneGuest

\* A run that starts now finds the binary, and one that has found it leaves it
\* alone.
LEMMA SettledStep ==
  ASSUME IInv, [Next]_vars, NEW s \in Sessions, Settled(s)
  PROVE  Settled(s)' /\ cache'[s] = cache[s] /\ builds'[s] = builds[s]
<1>1. CASE UNCHANGED <<cache[s], run[s], builds[s]>>
  BY <1>1 DEF Settled, Usable
<1>2. ASSUME NEW r \in Runs, NEW to, Moves(s, r, to),
             to \notin {"build", "link"}, UNCHANGED <<cache, builds>>
      PROVE  Settled(s)' /\ cache'[s] = cache[s] /\ builds'[s] = builds[s]
  <2>1. run'[s][r] = to /\ \A q \in Runs \ {r} : run'[s][q] = run[s][q]
    BY <1>2, Moved
  <2>2. \A q \in Runs : run'[s][q] \notin {"build", "link"}
    BY <1>2, <2>1 DEF Settled
  <2> QED
    BY <1>2, <2>2 DEF Settled, Usable
<1>3. ASSUME NEW r \in Runs, Spawn(s, r)
      PROVE  Settled(s)' /\ cache'[s] = cache[s] /\ builds'[s] = builds[s]
  <2>1. PICK to \in {"check", "failed"} : Moves(s, r, to)
    BY <1>3 DEF Spawn, Goto, Moves
  <2>2. to \notin {"build", "link"} /\ UNCHANGED <<cache, builds>>
    BY <1>3 DEF Spawn
  <2> QED
    BY <1>2, <2>1, <2>2
<1>4. ASSUME NEW r \in Runs, CheckCache(s, r)
      PROVE  Settled(s)' /\ cache'[s] = cache[s] /\ builds'[s] = builds[s]
  <2>1. Moves(s, r, "exec") /\ UNCHANGED <<cache, builds>>
    BY <1>4 DEF CheckCache, Goto, Moves, Settled, Usable
  <2> QED
    BY <1>2, <2>1
<1>5. ASSUME NEW r \in Runs, Exec(s, r)
      PROVE  Settled(s)' /\ cache'[s] = cache[s] /\ builds'[s] = builds[s]
  <2>1. PICK to \in {"bridge", "failed"} : Moves(s, r, to)
    BY <1>5 DEF Exec, Goto, Moves
  <2>2. to \notin {"build", "link"} /\ UNCHANGED <<cache, builds>>
    BY <1>5 DEF Exec
  <2> QED
    BY <1>2, <2>1, <2>2
<1>6. ASSUME NEW r \in Runs
      PROVE  ~(Compile(s, r) \/ Linked(s, r) \/ LinkFails(s, r) \/ LinkKilled(s, r))
  BY DEF Settled, Compile, Linked, LinkFails, LinkKilled, Goto
<1> QED
  BY <1>1, <1>3, <1>4, <1>5, <1>6, OneGuest

\* Only a build of another run, under way, failed or killed, can let the exec of an
\* entrypoint fail: how far a second build (BuiltOnce) can disturb a first one
\* (entrypoint.sh:18-34).
THEOREM ExecFailsByAnotherBuild == Spec => []ExecMeetsBuild
<1>1. Init => WholeIsExecutable /\ ExecMeetsBuild
  <2> SUFFICES ASSUME Init PROVE WholeIsExecutable /\ ExecMeetsBuild
    OBVIOUS
  <2>1. \A s \in Sessions : ~cache[s].whole /\ \A r \in Runs : run[s][r] = "idle"
    BY DEF Init
  <2> QED
    BY <2>1 DEF WholeIsExecutable, ExecMeetsBuild
<1>2. IInv /\ [Next]_vars /\ WholeIsExecutable => WholeIsExecutable'
  BY WholeStep DEF WholeIsExecutable
<1>3. IInv /\ [Next]_vars /\ WholeIsExecutable /\ ExecMeetsBuild => ExecMeetsBuild'
  BY ExecStep DEF ExecMeetsBuild
<1> QED
  BY <1>1, <1>2, <1>3, Invariance, PTL DEF Spec

\* Once a binary is in the cache and nobody builds, it is never built again:
\* this much is true of "exactly once" (entrypoint.sh:9-10).
THEOREM BuildsEnd == Spec => SettledForGood
<1>1. IInv /\ [Next]_vars =>
        [\A s \in Sessions : Settled(s) =>
           Settled(s)' /\ cache'[s] = cache[s] /\ builds'[s] = builds[s]]_vars
  BY SettledStep
<1> QED
  BY <1>1, Invariance, PTL DEF Spec, SettledForGood
=============================================================================
