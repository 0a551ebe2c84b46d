------------------------------- MODULE SqlBuf -------------------------------
(* The growable string buffer of src/src/sqlbuf.c: a call reserves room,     *)
(* doubling the capacity as often as it takes, then writes its text and the  *)
(* NUL behind it.  Memory is a cell per byte; size_t wraps at SizeMax.       *)
EXTENDS Naturals, Sequences

CONSTANTS
  Chars, NUL, JUNK,   \* the bytes of a text, its end, memory never written
  Initial,            \* the first capacity (64)
  Pieces,             \* what callers append: texts, characters, formatted texts
  SizeMax,            \* size_t holds 0..SizeMax - 1
  MaxText             \* bound: the longest text memory can hold

ASSUME BytesAssumption ==
  /\ NUL # JUNK /\ NUL \notin Chars /\ JUNK \notin Chars
  /\ Pieces \subseteq Seq(Chars)
ASSUME SizeAssumption ==
  /\ Initial \in Nat \ {0} /\ SizeMax \in Nat /\ MaxText \in Nat
  /\ Initial < SizeMax
  /\ 2 * (MaxText + 1) <= SizeMax     \* malloc gives out at most half of size_t

VARIABLES
  data,           \* the bytes allocated, data[0..cap - 1]; empty when NULL
  len, cap,
  pending,        \* the text of the call in progress
  want,           \* reserve's cap, a local
  taken,          \* the string detach returned last, up to its NUL
  step            \* "idle", "grow" (in reserve), "write", "dead" (oom exits)

bufVars == <<data, len, cap, pending, want, taken, step>>

Wrap(n) == IF n < SizeMax THEN n ELSE n - SizeMax
\* A mutant of Need: no room for the NUL.
NeedNoNul(s) == Wrap(len + Len(s))
Need(s) == Wrap(len + Len(s) + 1)
Memory(n) == [0 .. n - 1 -> Chars \cup {NUL, JUNK}]
Null == [i \in {} |-> JUNK]

\* The C string at the start of some memory: what lies before the first NUL.
CString(mem) ==
  LET end == CHOOSE n \in DOMAIN mem : mem[n] = NUL /\ \A k \in 0 .. n - 1 : mem[k] # NUL
  IN  [i \in 1 .. end |-> mem[i - 1]]

BufInit ==
  /\ data = Null /\ len = 0 /\ cap = 0
  /\ pending = <<>> /\ want = 0 /\ taken = <<>>
  /\ step = "idle"

\* A mutant of Call: an empty buffer starts from its own capacity.
CallFromZero(s) ==
  /\ step = "idle" /\ len + Len(s) <= MaxText
  /\ pending' = s
  /\ IF Need(s) <= cap THEN step' = "write" /\ UNCHANGED want
     ELSE step' = "grow" /\ want' = cap
  /\ UNCHANGED <<data, len, cap, taken>>

\* sqlbuf_append, sqlbuf_append_char and sqlbuf_appendf up to reserve: the
\* text is measured first (a formatted one by a call of vsnprintf that writes
\* nothing), and reserve starts from the capacity there is.
Call(s) ==
  /\ step = "idle" /\ len + Len(s) <= MaxText
  /\ pending' = s
  /\ IF Need(s) <= cap THEN step' = "write" /\ UNCHANGED want
     ELSE /\ step' = "grow"
          /\ want' = IF cap = 0 THEN Initial ELSE cap
  /\ UNCHANGED <<data, len, cap, taken>>

\* One turn of reserve's loop.
Double ==
  /\ step = "grow" /\ want < Need(pending)
  /\ want' = Wrap(want * 2)
  /\ UNCHANGED <<data, len, cap, pending, taken, step>>

\* realloc keeps the bytes that were there; the others hold anything.
Realloc ==
  /\ step = "grow" /\ want >= Need(pending)
  /\ data' = [i \in 0 .. want - 1 |-> IF i \in DOMAIN data THEN data[i] ELSE JUNK]
  /\ cap' = want
  /\ step' = "write"
  /\ UNCHANGED <<len, pending, want, taken>>

\* There is no memory: the process exits.
Oom ==
  /\ step = "grow" /\ want >= Need(pending)
  /\ step' = "dead"
  /\ UNCHANGED <<data, len, cap, pending, want, taken>>

\* A mutant of Write: the NUL is not written.
WriteNoNul ==
  /\ step = "write"
  /\ data' = [i \in DOMAIN data |->
                IF i \in len .. len + Len(pending) - 1 THEN pending[i - len + 1]
                ELSE data[i]]
  /\ len' = len + Len(pending)
  /\ pending' = <<>>
  /\ step' = "idle"
  /\ UNCHANGED <<cap, want, taken>>

\* The text, then its NUL, at data + len.
Write ==
  /\ step = "write"
  /\ data' = [i \in DOMAIN data |->
                IF i \in len .. len + Len(pending) - 1 THEN pending[i - len + 1]
                ELSE IF i = len + Len(pending) THEN NUL ELSE data[i]]
  /\ len' = len + Len(pending)
  /\ pending' = <<>>
  /\ step' = "idle"
  /\ UNCHANGED <<cap, want, taken>>

\* A mutant of Detach: the buffer keeps what it handed over.
DetachKeeps ==
  /\ step = "idle"
  /\ taken' = IF cap = 0 THEN <<>> ELSE CString(data)
  /\ UNCHANGED <<data, len, cap, pending, want, step>>

\* sqlbuf_detach: a buffer nothing was appended to gives an empty string.
Detach ==
  /\ step = "idle"
  /\ taken' = IF cap = 0 THEN <<>> ELSE CString(data)
  /\ data' = Null /\ len' = 0 /\ cap' = 0
  /\ UNCHANGED <<pending, want, step>>

Free ==
  /\ step = "idle"
  /\ data' = Null /\ len' = 0 /\ cap' = 0
  /\ UNCHANGED <<pending, want, taken, step>>

BufNext ==
  \/ \E s \in Pieces : Call(s)
  \/ Double \/ Realloc \/ Oom \/ Write \/ Detach \/ Free

BufSpec == BufInit /\ [][BufNext]_bufVars /\ WF_bufVars(Double) /\ WF_bufVars(Realloc) /\ WF_bufVars(Write)
-----------------------------------------------------------------------------

Contents == [i \in 1 .. len |-> data[i - 1]]

BufTypeOK ==
  /\ cap \in Nat /\ data \in Memory(cap)
  /\ len \in Nat /\ want \in Nat
  /\ pending \in Seq(Chars) /\ taken \in Seq(Chars)
  /\ step \in {"idle", "grow", "write", "dead"}

\* A write never passes the end of the memory: the text measured before
\* reserve, and the NUL behind it, lie inside the capacity it has made.
Fits ==
  /\ step = "write" => len + Len(pending) < cap
  /\ cap > 0 => len < cap

\* Between two calls the memory is a C string of exactly len characters: the
\* text ends in a NUL, none lies inside it, and no byte of it was left
\* unwritten by a reallocation.
Terminated ==
  cap > 0 => /\ \A i \in 0 .. len - 1 : data[i] \in Chars
             /\ step = "idle" => data[len] = NUL

\* Doubling wastes at most half of the memory: a capacity beyond the first is
\* less than twice the bytes the text and its NUL take.
NoWaste == step = "idle" => cap <= Initial \/ cap < 2 * (len + 1)

\* The buffer is the text of its interface: appended pieces stand one behind
\* the other whatever was reallocated in between, and detach hands over all of
\* it, as the C string its caller reads, and nothing else.
Abstract == INSTANCE Text WITH text <- Contents
IsText == Abstract!Spec

\* reserve's loop ends, whatever the capacity and however far the text is beyond
\* it: the first doubling does not start from 0, so every call returns or the
\* process has exited.  Texts are below half of size_t (SizeAssumption, and the
\* guard of Call), where no doubling wraps to 0.
Returns == (step \in {"grow", "write"}) ~> (step \in {"idle", "dead"})
=============================================================================
