--------------------------- MODULE MemoryFunctions ---------------------------
(***************************************************************************)
(* memset, memcpy, memmove and memcmp (stddef.c), byte by byte, on regions *)
(* that may overlap in any way.  Everything that copies in this kernel     *)
(* (boot sector, FAT, directory, font) goes through them.                  *)
(***************************************************************************)
EXTENDS Integers

CONSTANTS
  Size,      \* bytes of memory
  Values     \* what they may hold

ASSUME ConstantsAssumption == Size \in Nat /\ Values \subseteq 0 .. 255

VARIABLES
  memory,
  running,                   \* the function that runs, or "none"
  to, from, length, value,   \* its parameters; memset and memcpy change them
  i,
  diff,                      \* of memcmp, as an int8_t
  call                       \* history: the function called, its arguments, the memory then

args == <<to, from, length, value>>
vars == <<memory, running, args, i, diff, call>>

Addresses == 0 .. (Size - 1)

NoCall == [function |-> "none"]

Init ==
  /\ memory \in [Addresses -> Values]
  /\ running = "none"
  /\ to = 0 /\ from = 0 /\ length = 0 /\ value = 0 /\ i = 0 /\ diff = 0
  /\ call = NoCall

\* A caller has both regions in memory.
Call(function) ==
  /\ running = "none"
  /\ running' = function
  /\ length' \in 0 .. Size
  /\ to' \in 0 .. (Size - length')
  /\ IF function = "memset" THEN from' = 0 /\ value' \in Values
     ELSE from' \in 0 .. (Size - length') /\ value' = 0
  /\ i' = 0 /\ diff' = 0
  /\ call' = [function |-> function, to |-> to', from |-> from', length |-> length',
              value |-> value', memory |-> memory]
  /\ UNCHANGED memory

Return ==
  /\ running' = "none"
  /\ UNCHANGED <<memory, args, i, diff, call>>

AllSet == length = 0

\* location moves on, length counts down.
memset ==
  /\ running = "memset"
  /\ \/ AllSet /\ Return
     \/ /\ ~AllSet
        /\ memory' = [memory EXCEPT ![to] = value]
        /\ to' = to + 1 /\ length' = length - 1
        /\ UNCHANGED <<running, from, value, i, diff, call>>

LastByte(left) == left - 1

\* From the last byte to the first.
memcpy ==
  /\ running = "memcpy"
  /\ \/ length = 0 /\ Return
     \/ /\ length # 0
        /\ memory' = [memory EXCEPT ![to + LastByte(length)] = memory[from + LastByte(length)]]
        /\ length' = length - 1
        /\ UNCHANGED <<running, to, from, value, i, diff, call>>

CopyBackwardsBelow == to < from
CopyBackwards == to > from

\* Either memcpy, or from the first byte to the last.
memmove ==
  /\ running = "memmove"
  /\ running' = IF CopyBackwards THEN "memcpy" ELSE "forwards"
  /\ UNCHANGED <<memory, args, i, diff, call>>

Forwards ==
  /\ running = "forwards"
  /\ \/ i = length /\ Return
     \/ /\ i < length
        /\ memory' = [memory EXCEPT ![to + i] = memory[from + i]]
        /\ i' = i + 1
        /\ UNCHANGED <<running, args, diff, call>>

\* A difference of bytes, cut to an int8_t.
Int8(n) == ((n + 128) % 256) - 128

memcmp ==
  /\ running = "memcmp"
  /\ \/ (i = length \/ diff # 0) /\ Return
     \/ /\ i < length /\ diff = 0
        /\ diff' = Int8(memory[to + i] - memory[from + i])
        /\ i' = i + 1
        /\ UNCHANGED <<memory, running, args, call>>

Step == memset \/ memcpy \/ memmove \/ Forwards \/ memcmp

Next == Step \/ \E function \in {"memset", "memcpy", "memmove", "memcmp"} : Call(function)

Spec == Init /\ [][Next]_vars

------------------------------------------------------------------------------
TypeOK ==
  /\ memory \in [Addresses -> Values]
  /\ running \in {"none", "memset", "memcpy", "memmove", "forwards", "memcmp"}
  /\ length \in 0 .. Size /\ to \in 0 .. Size /\ from \in 0 .. Size
  /\ value \in Values \cup {0} /\ i \in 0 .. Size /\ diff \in -128 .. 127

Returned(functions) == running = "none" /\ call.function \in functions

Within(a, start) == start <= a /\ a < start + call.length

\* The memory in which the region at call.to is a copy of that at call.from.
Copied ==
  [a \in Addresses |->
     IF Within(a, call.to) THEN call.memory[call.from + (a - call.to)] ELSE call.memory[a]]

\* memmove copies every byte as it was before the call, in either direction of
\* overlap, and changes nothing else (stddef.c:52-62).
MoveExact == Returned({"memmove"}) => memory = Copied

\* memcpy does the same unless the regions overlap with the target below the
\* source (stddef.c:45-51 copies from the end, unlike the usual memcpy).
CopyExact ==
  Returned({"memcpy"}) /\ (call.from <= call.to \/ call.to + call.length <= call.from) =>
    memory = Copied

SetExact ==
  Returned({"memset"}) =>
    memory = [a \in Addresses |-> IF Within(a, call.to) THEN call.value ELSE call.memory[a]]

\* memcmp is 0 just for equal regions, and has the sign of the first
\* difference unless the bytes are 128 or more apart, where int8_t wraps
\* (stddef.c:63-72).  It is find_entry's test for a name.
CompareExact ==
  LET Differ(n) == call.memory[call.to + n] # call.memory[call.from + n]
      differences == { n \in 0 .. (call.length - 1) : Differ(n) }
  IN  Returned({"memcmp"}) =>
        /\ memory = call.memory
        /\ diff = 0 <=> differences = {}
        /\ \A n \in differences :
             LET exact == call.memory[call.to + n] - call.memory[call.from + n]
             IN  (\A m \in differences : n <= m) =>
                    /\ (diff - exact) % 256 = 0
                    /\ exact \in -128 .. 127 <=> diff = exact

\* All four functions do to memory what their callers take them to do, for
\* every overlap, as far as stated above (stddef.c:38-72).
CallsExact == TypeOK /\ MoveExact /\ CopyExact /\ SetExact /\ CompareExact
==============================================================================
