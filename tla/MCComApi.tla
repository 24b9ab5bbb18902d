------------------------------ MODULE MCComApi ------------------------------
(* ComApi with words of 4 bits, double words of 8, and inputs at their edges. *)
EXTENDS ComApi

NoVolume == [parts |-> 0, name |-> FALSE, size |-> 0, fixed |-> ""]

Vol(parts, name, size, fixed) ==
  [parts |-> parts, name |-> name, size |-> size, fixed |-> fixed]

Input(cpu, mem, boot, store, nul, vol) ==
  [cpu |-> cpu, mem |-> mem, boot |-> boot, store |-> store, nul |-> nul, vol |-> vol]

\* By line: nothing set; the largest values, a volume; what wraps to nothing,
\* to 1 and below a millisecond; volumes whose bytes wrap to 0 and to 1 MiB;
\* a timeout that wraps, a NUL; volumes without size, number, boolean, storage.
MCInputs ==
  {Input(0, 0, 0, FALSE, FALSE, NoVolume),
   Input(15, 15, 63, TRUE, FALSE, Vol(3, TRUE, 63, "T")),
   Input(16, 17, 3, TRUE, FALSE, Vol(2, TRUE, 64, "")),
   Input(17, 16, 70, TRUE, FALSE, Vol(2, TRUE, 65, "")),
   Input(1, 1, 4, TRUE, TRUE, NoVolume),
   Input(1, 1, 4, TRUE, FALSE, Vol(2, TRUE, 0, "")),
   Input(1, 1, 4, TRUE, FALSE, Vol(2, TRUE, -1, "")),
   Input(1, 1, 4, TRUE, FALSE, Vol(3, TRUE, 1, "junk")),
   Input(1, 1, 4, FALSE, FALSE, Vol(2, TRUE, 1, ""))}
=============================================================================
