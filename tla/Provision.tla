----------------------------- MODULE Provision -----------------------------
(***************************************************************************)
(* How the bridge binary comes to be: bridge.go writes its sources into a  *)
(* directory that all sessions on the host share, and in the guest of each *)
(* session every run of entrypoint.sh builds the binary if it is not       *)
(* cached yet, and execs it.                                               *)
(*                                                                         *)
(* A linker replaces its output: it unlinks the file that is there, writes *)
(* a new one, and makes whatever has that name executable at the end.  On  *)
(* failure it unlinks its output, since the script does not: this much is  *)
(* assumed of a tool outside the repository.  Killed, it leaves it.        *)
(***************************************************************************)
EXTENDS Naturals, FiniteSets

CONSTANTS Sessions,   \* sessions on one host, each with a VM of its own
          Runs,       \* runs of entrypoint.sh in one VM
          None        \* no run

ASSUME RunsAssumption == IsFiniteSet(Runs) /\ None \notin Runs

VARIABLES
  file,      \* file[f]: source f in the host directory; "torn": not what is embedded
  extract,   \* extract[s]: where session s is in extractBridgeBinary
  failed,    \* source files whose last write failed half way
  cache,     \* cache[s]: /tmp/wslcsession-cache/bridge in the VM of s
  run,       \* run[s][r]: where run r of entrypoint.sh is
  builds     \* builds[s]: builds that have been completed in the VM of s

vars == <<file, extract, failed, cache, run, builds>>

Files == {"bridge.c", "entrypoint.sh"}
Following(f) == IF f = "bridge.c" THEN <<"entrypoint.sh", "compare">> ELSE <<"", "mounted">>

TypeOK ==
  /\ file \in [Files -> {"absent", "torn", "whole"}]
  /\ extract \in [Sessions -> (Files \X {"compare", "open", "write"})
                                \cup {<<"", "idle">>, <<"", "mounted">>}]
  /\ failed \in SUBSET Files
  /\ cache \in [Sessions -> [by : Runs \cup {None}, whole : BOOLEAN, x : BOOLEAN]]
  /\ run \in [Sessions -> [Runs -> {"idle", "check", "build", "link", "exec",
                                    "bridge", "failed", "killed"}]]
  /\ builds \in [Sessions -> 0..Cardinality(Runs)]

Init ==
  /\ file \in [Files -> {"absent", "torn", "whole"}]   \* from an earlier process
  /\ extract = [s \in Sessions |-> <<"", "idle">>]
  /\ failed = {}
  /\ cache = [s \in Sessions |-> [by |-> None, whole |-> FALSE, x |-> FALSE]]
  /\ run = [s \in Sessions |-> [r \in Runs |-> "idle"]]
  /\ builds = [s \in Sessions |-> 0]

-----------------------------------------------------------------------------
(* Host: extractBridgeBinary *)

HostUnchanged == UNCHANGED <<cache, run, builds>>

Extract(s) ==
  /\ extract[s] = <<"", "idle">>
  /\ extract' = [extract EXCEPT ![s] = <<"bridge.c", "compare">>]
  /\ UNCHANGED <<file, failed>>
  /\ HostUnchanged

\* Mutant: a file that exists is not compared.
WriteIfAbsent(s, f) ==
  /\ extract[s] = <<f, "compare">>
  /\ extract' = [extract EXCEPT ![s] = IF file[f] # "absent" THEN Following(f)
                                       ELSE <<f, "open">>]
  /\ UNCHANGED <<file, failed>>
  /\ HostUnchanged

WriteIfChanged(s, f) ==
  /\ extract[s] = <<f, "compare">>
  /\ extract' = [extract EXCEPT ![s] = IF file[f] = "whole" THEN Following(f)
                                       ELSE <<f, "open">>]
  /\ UNCHANGED <<file, failed>>
  /\ HostUnchanged

\* os.WriteFile truncates first.
OpenTruncate(s, f) ==
  /\ extract[s] = <<f, "open">>
  /\ \/ /\ file' = [file EXCEPT ![f] = "torn"]
        /\ extract' = [extract EXCEPT ![s] = <<f, "write">>]
     \/ extract' = [extract EXCEPT ![s] = <<"", "idle">>] /\ UNCHANGED file
  /\ UNCHANGED failed
  /\ HostUnchanged

\* A failed write ends the dial with an error; a later dial extracts again.
WriteContent(s, f) ==
  /\ extract[s] = <<f, "write">>
  /\ \/ /\ file' = [file EXCEPT ![f] = "whole"] /\ failed' = failed \ {f}
        /\ extract' = [extract EXCEPT ![s] = Following(f)]
     \/ /\ failed' = failed \cup {f} /\ UNCHANGED file
        /\ extract' = [extract EXCEPT ![s] = <<"", "idle">>]
  /\ HostUnchanged

-----------------------------------------------------------------------------
(* Guest: entrypoint.sh *)

Goto(s, r, from, to) == run[s][r] = from /\ run' = [run EXCEPT ![s][r] = to]

GuestUnchanged == UNCHANGED <<file, extract, failed>>

\* dial spawns a run; a script that is torn does nothing.
Spawn(s, r) ==
  /\ extract[s] = <<"", "mounted">>
  /\ Goto(s, r, "idle", IF file["entrypoint.sh"] = "whole" THEN "check" ELSE "failed")
  /\ UNCHANGED <<cache, builds>>
  /\ GuestUnchanged

\* if [ ! -x "$CACHE" ]
CheckCache(s, r) ==
  /\ Goto(s, r, "check", IF cache[s].by # None /\ cache[s].x THEN "exec" ELSE "build")
  /\ UNCHANGED <<cache, builds>>
  /\ GuestUnchanged

\* docker run: the image, the packages or the compilation may fail.
Compile(s, r) ==
  /\ \/ Goto(s, r, "build", "failed") /\ UNCHANGED cache
     \/ /\ file["bridge.c"] = "whole"
        /\ Goto(s, r, "build", "link")
        /\ cache' = [cache EXCEPT ![s] = [by |-> r, whole |-> FALSE, x |-> FALSE]]
  /\ UNCHANGED builds
  /\ GuestUnchanged

\* Mutant: a build is followed by another one instead of exec.
LinkedRetry(s, r) ==
  /\ cache[s].by # None
  /\ Goto(s, r, "link", "build")
  /\ cache' = [cache EXCEPT ![s].whole = @ \/ cache[s].by = r, ![s].x = TRUE]
  /\ builds' = [builds EXCEPT ![s] = @ + 1]
  /\ GuestUnchanged

\* The linker finishes, and chmod 755 applies to whatever file is there.
Linked(s, r) ==
  /\ cache[s].by # None
  /\ Goto(s, r, "link", "exec")
  /\ cache' = [cache EXCEPT ![s].whole = @ \/ cache[s].by = r, ![s].x = TRUE]
  /\ builds' = [builds EXCEPT ![s] = @ + 1]
  /\ GuestUnchanged

\* Mutant: a failed linker leaves its output.
LinkFailsLeavingOutput(s, r) ==
  /\ Goto(s, r, "link", "failed")
  /\ UNCHANGED <<cache, builds>>
  /\ GuestUnchanged

\* The link fails, or chmod finds nothing.
LinkFails(s, r) ==
  /\ Goto(s, r, "link", "failed")
  /\ cache' = [cache EXCEPT ![s] = [by |-> None, whole |-> FALSE, x |-> FALSE]]
  /\ UNCHANGED builds
  /\ GuestUnchanged

\* The container is killed under the linker: what it has written stays.
LinkKilled(s, r) ==
  /\ Goto(s, r, "link", "killed")
  /\ UNCHANGED <<cache, builds>>
  /\ GuestUnchanged

Exec(s, r) ==
  /\ LET usable == cache[s].by # None /\ cache[s].whole /\ cache[s].x
     IN  Goto(s, r, "exec", IF usable THEN "bridge" ELSE "failed")
  /\ UNCHANGED <<cache, builds>>
  /\ GuestUnchanged

-----------------------------------------------------------------------------
Next == \E s \in Sessions :
          \/ Extract(s)
          \/ \E f \in Files : WriteIfChanged(s, f) \/ OpenTruncate(s, f) \/ WriteContent(s, f)
          \/ \E r \in Runs : \/ Spawn(s, r) \/ CheckCache(s, r) \/ Compile(s, r)
                             \/ Linked(s, r) \/ LinkFails(s, r) \/ LinkKilled(s, r)
                             \/ Exec(s, r)

Spec == Init /\ [][Next]_vars

-----------------------------------------------------------------------------
(* Properties *)

\* A session that has gone on to mount the directory can only meet a torn
\* source while somebody else writes it or has failed to: writeIfChanged
\* repairs what an interrupted writer left behind (bridge.go:51-57).
MountedSourcesWhole ==
  \A f \in Files :
    (\E s \in Sessions : extract[s] = <<"", "mounted">>) /\ file[f] # "whole" =>
      f \in failed \/ \E s \in Sessions : extract[s] = <<f, "write">>

\* However many first calls build at once, fail and are killed, the -x test lets
\* a half-written binary through only after an overlapping build has completed,
\* and for good only if the linker of this one was killed: an incomplete file
\* left by one build alone is rebuilt by the next call (entrypoint.sh:18-34).
CacheHeals ==
  \A s \in Sessions : cache[s].x /\ ~cache[s].whole =>
    builds[s] > 0 /\ run[s][cache[s].by] \in {"link", "killed"}

\* "every fresh session pays this cost exactly once" (entrypoint.sh:9-10).
BuiltOnce == \A s \in Sessions : builds[s] <= 1
=============================================================================
