-------------------------------- MODULE Slurp -------------------------------
(* Reading a whole input into a buffer that doubles: read_all_stdin for the  *)
(* schema and names_parse_file for the name map.  A short read is not the    *)
(* end of the input, a read of no room is taken for it.  Main runs these     *)
(* steps where it reads.                                                     *)
EXTENDS Naturals

CONSTANTS
  Initial,        \* the first capacity (4096)
  MaxInput        \* bound: the longest input

ASSUME SlurpAssumption == Initial \in Nat \ {0} /\ MaxInput \in Nat

VARIABLES
  cap, len,       \* the buffer
  left,           \* the bytes of the input not read yet
  io              \* "closed", "read", "ended", "done", "failed" or "oom"

slurp == <<cap, len, left, io>>

Closed == cap = Initial /\ len = 0 /\ left = 0 /\ io = "closed"
Close == cap' = Initial /\ len' = 0 /\ left' = 0 /\ io' = "closed"

\* A mutant of Open: the buffer grows from nothing.
OpenNoRoom ==
  /\ cap' = 0 /\ len' = 0
  /\ left' \in 0 .. MaxInput
  /\ io' = "read"
Open ==
  /\ cap' = Initial /\ len' = 0
  /\ left' \in 0 .. MaxInput
  /\ io' = "read"

\* A mutant of Fread: the buffer grows only when the read found no room.
FreadLate(n) ==
  /\ io = "read"
  /\ n <= left /\ len + n <= cap
  /\ left' = left - n
  /\ len' = len + n
  /\ UNCHANGED <<cap, io>>

\* fread returns n > 0 bytes, as few as it likes; a full buffer is doubled,
\* which can fail.
Fread(n) ==
  /\ io = "read"
  /\ n <= left /\ len + n <= cap
  /\ left' = left - n
  /\ len' = len + n
  /\ \/ len' < cap /\ UNCHANGED <<cap, io>>
     \/ len' = cap /\ cap' = 2 * cap /\ UNCHANGED io
     \/ len' = cap /\ io' = "oom" /\ UNCHANGED cap

\* fread returns 0: the input is at its end, or there is no room.
FreadNothing ==
  /\ io = "read"
  /\ left = 0 \/ len = cap
  /\ io' = "ended"
  /\ UNCHANGED <<cap, len, left>>

\* The stream failed, which ferror tells after the loop.
FreadError ==
  /\ io = "read"
  /\ io' = "failed"
  /\ UNCHANGED <<cap, len, left>>

\* A mutant of Terminate: the NUL is counted.
TerminateCounted(looks) ==
  /\ io = "ended"
  /\ io' = "done" /\ len' = len + 1
  /\ UNCHANGED <<cap, left>>

\* The NUL: read_all_stdin looks whether there is room and makes it where
\* there is none, names_parse_file writes it.
Terminate(looks) ==
  /\ io = "ended"
  /\ IF looks /\ len = cap
     THEN \/ cap' = cap + 1 /\ io' = "done"
          \/ cap' = cap /\ io' = "oom"
     ELSE io' = "done" /\ UNCHANGED cap
  /\ UNCHANGED <<len, left>>

Slurp(looks) ==
  \/ \E n \in 1 .. MaxInput : Fread(n)
  \/ FreadNothing \/ FreadError \/ Terminate(looks)
-----------------------------------------------------------------------------

SlurpTypeOK ==
  /\ cap \in Nat \ {0} /\ len \in 0 .. cap /\ left \in 0 .. MaxInput
  /\ io \in {"closed", "read", "ended", "done", "failed", "oom"}

\* Only the end of the input ends the loop, however the bytes arrive: a full
\* buffer never passes for it, since it is doubled at once.  So a schema or map
\* is parsed whole, and its NUL lies inside the buffer, in names_parse_file
\* too, which never looks.
ReadsWhole == io = "done" => left = 0 /\ len < cap
=============================================================================
