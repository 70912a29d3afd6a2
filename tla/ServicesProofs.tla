--------------------------- MODULE ServicesProofs ---------------------------
(***************************************************************************)
(* The services of the kernel, for all values of their constants: memory   *)
(* functions, timer, key events, disk driver, heap and screen; first each  *)
(* one alone, then all services together.  What is proved of heap and      *)
(* screen alone is in HeapProofs and ScreenProofs, and taken from there by *)
(* name.                                                                   *)
(***************************************************************************)
EXTENDS Services, Sequences, TLAPS

------------------------------------------------------------------------------
(***************************************************************************)
(* The memory functions alone: they do what their callers take them to do, *)
(* for every size of memory, every content and every overlap.              *)
(***************************************************************************)

Functions == {"memset", "memcpy", "memmove", "memcmp"}

\* The arguments of a call: both regions lie in memory.
CallTypes ==
  /\ call.function \in Functions
  /\ call.to \in 0 .. Size /\ call.from \in 0 .. Size /\ call.length \in 0 .. Size
  /\ call.to + call.length <= Size /\ call.from + call.length <= Size
  /\ call.value \in Values \cup {0}
  /\ call.function = "memset" => call.value \in Values
  /\ call.memory \in [Addresses -> Values]

\* What the region at call.to is to hold at address a.
Source(a) == call.memory[call.from + (a - call.to)]

\* The loop of memset (stddef.c:38-44) has set the bytes below "to".
SetPart ==
  /\ running \in {"memset", "none"}
  /\ value = call.value
  /\ length <= call.length /\ to + length = call.to + call.length
  /\ running = "none" => length = 0
  /\ \A a \in Addresses :
       memory[a] = IF call.to <= a /\ a < to THEN call.value ELSE call.memory[a]

\* The loop of memcpy (stddef.c:45-51) has copied all but the first "length" bytes.
CopiedFromEnd ==
  \A a \in Addresses :
    memory[a] = IF call.to + length <= a /\ a < call.to + call.length
                  THEN Source(a) ELSE call.memory[a]

\* It reads no byte that it has already overwritten.
SafeBackwards == call.from <= call.to \/ call.to + call.length <= call.from

CopyPart ==
  /\ running \in {"memcpy", "none"}
  /\ to = call.to /\ from = call.from /\ length <= call.length
  /\ running = "none" => length = 0
  /\ SafeBackwards => CopiedFromEnd

\* The two directions of memmove (stddef.c:52-62).
MovePart ==
  /\ running \in {"memmove", "memcpy", "forwards", "none"}
  /\ to = call.to /\ from = call.from /\ length <= call.length
  /\ running = "memmove" => i = 0 /\ length = call.length /\ memory = call.memory
  /\ running = "memcpy" => from < to /\ CopiedFromEnd
  /\ running = "forwards" =>
       /\ to <= from /\ length = call.length /\ i <= length
       /\ \A a \in Addresses :
            memory[a] = IF call.to <= a /\ a < call.to + i THEN Source(a) ELSE call.memory[a]
  /\ running = "none" =>
       \A a \in Addresses :
         memory[a] = IF Within(a, call.to) THEN Source(a) ELSE call.memory[a]

\* The loop of memcmp (stddef.c:63-72): the bytes before the last one compared
\* are equal, and diff is the difference of the last pair.
Exact(n) == call.memory[call.to + n] - call.memory[call.from + n]

ComparePart ==
  /\ running \in {"memcmp", "none"}
  /\ to = call.to /\ from = call.from /\ length = call.length /\ i <= length
  /\ memory = call.memory
  /\ i = 0 => diff = 0
  /\ i # 0 => diff = Int8(Exact(i - 1))
  /\ \A n \in 0 .. (Size - 1) : n < i - 1 => Exact(n) = 0
  /\ running = "none" => i = length \/ diff # 0

CallRight ==
  \/ running = "none" /\ call = NoCall
  \/ /\ CallTypes
     /\ call.function = "memset" => SetPart
     /\ call.function = "memcpy" => CopyPart
     /\ call.function = "memmove" => MovePart
     /\ call.function = "memcmp" => ComparePart

MemoryInv == TypeOK /\ CallRight

------------------------------------------------------------------------------
\* A difference of two bytes, cut to an int8_t, is 0 just when they are equal,
\* is the difference modulo 256, and is the difference itself just when that
\* fits (stddef.c:69).
LEMMA CutDifference ==
  ASSUME NEW d \in -255 .. 255
  PROVE  /\ Int8(d) \in -128 .. 127
         /\ Int8(d) = 0 <=> d = 0
         /\ (Int8(d) - d) % 256 = 0
         /\ d \in -128 .. 127 <=> Int8(d) = d
<1>1. CASE d \in -128 .. 127
  <2>1. (d + 128) % 256 = d + 128
    BY <1>1
  <2>2. Int8(d) = d
    BY <2>1 DEF Int8
  <2> QED BY <1>1, <2>2
<1>2. CASE d > 127
  <2>1. (d + 128) % 256 = d - 128
    BY <1>2
  <2>2. Int8(d) = d - 256
    BY <2>1 DEF Int8
  <2>3. (d - 256) - d = -256 /\ (-256) % 256 = 0
    OBVIOUS
  <2> QED BY <1>2, <2>2, <2>3
<1>3. CASE d < -128
  <2>1. (d + 128) % 256 = d + 384
    BY <1>3
  <2>2. Int8(d) = d + 256
    BY <2>1 DEF Int8
  <2>3. (d + 256) - d = 256 /\ 256 % 256 = 0
    OBVIOUS
  <2> QED BY <1>3, <2>2, <2>3
<1> QED BY <1>1, <1>2, <1>3

------------------------------------------------------------------------------
\* Nothing has been called yet.
LEMMA InitRight == Init => MemoryInv
BY ConstantsAssumption DEF Init, MemoryInv, TypeOK, CallRight, NoCall

\* A call begins with its arguments, and with memory as it is.
LEMMA CallBegins ==
  ASSUME MemoryInv, NEW function \in Functions, Call(function)
  PROVE  MemoryInv'
<1>1. /\ call'.function = function /\ call'.to = to' /\ call'.from = from'
      /\ call'.length = length' /\ call'.value = value' /\ call'.memory = memory
      /\ running' = function /\ i' = 0 /\ diff' = 0 /\ memory' = memory
  BY DEF Call
<1>2. /\ length' \in 0 .. Size /\ to' \in 0 .. Size /\ from' \in 0 .. Size
      /\ to' + length' <= Size /\ from' + length' <= Size
      /\ \A a \in Int : ~(to' + length' <= a /\ a < to' + length')
      /\ value' \in Values \cup {0}
      /\ function = "memset" => value' \in Values
  <2>1. PICK l \in 0 .. Size : l = length'
    BY DEF Call
  <2>2. PICK t \in 0 .. (Size - l) : t = to'
    BY <2>1 DEF Call
  <2>3. PICK f \in 0 .. (Size - l) : f = from' /\ value' \in Values \cup {0}
    <3>1. CASE function = "memset"
      <4>1. from' = 0 /\ value' \in Values
        BY <3>1 DEF Call
      <4>2. 0 \in 0 .. (Size - l)
        BY ConstantsAssumption
      <4> QED BY <4>1, <4>2
    <3>2. CASE function # "memset"
      BY <2>1, <3>2 DEF Call
    <3> QED BY <3>1, <3>2
  <2>4. /\ t \in 0 .. Size /\ t + l <= Size
        /\ f \in 0 .. Size /\ f + l <= Size
        /\ \A a \in Int : ~(t + l <= a /\ a < t + l)
    BY ConstantsAssumption
  <2>5. function = "memset" => value' \in Values
    BY DEF Call
  <2> QED BY <2>1, <2>2, <2>3, <2>4, <2>5
<1>3. TypeOK'
  <2>1. 0 \in 0 .. Size /\ 0 \in -128 .. 127
    BY ConstantsAssumption
  <2> QED BY <1>1, <1>2, <2>1 DEF MemoryInv, TypeOK, Functions
<1>4. CallTypes'
  BY <1>1, <1>2 DEF CallTypes, MemoryInv, TypeOK
<1>5. CASE function = "memset"
  <2>1. SetPart'
    BY <1>1, <1>2, <1>5, ConstantsAssumption DEF SetPart, Addresses
  <2> QED BY <1>3, <1>1, <1>4, <1>5, <2>1 DEF MemoryInv, CallRight
<1>6. CASE function = "memcpy"
  <2>1. Addresses \subseteq Int
    BY DEF Addresses
  <2>2. CopiedFromEnd'
    BY <1>1, <1>2, <2>1 DEF CopiedFromEnd, Addresses
  <2>3. CopyPart'
    BY <1>1, <1>2, <1>6, <2>2 DEF CopyPart
  <2> QED BY <1>3, <1>1, <1>4, <1>6, <2>3 DEF MemoryInv, CallRight
<1>7. CASE function = "memmove"
  <2>1. MovePart'
    BY <1>1, <1>2, <1>7 DEF MovePart
  <2> QED BY <1>3, <1>1, <1>4, <1>7, <2>1 DEF MemoryInv, CallRight
<1>8. CASE function = "memcmp"
  <2>1. ComparePart'
    BY <1>1, <1>2, <1>8, ConstantsAssumption DEF ComparePart
  <2> QED BY <1>3, <1>1, <1>4, <1>8, <2>1 DEF MemoryInv, CallRight
<1> QED BY <1>5, <1>6, <1>7, <1>8 DEF Functions

\* What runs belongs to the call that was made.
LEMMA Runs ==
  ASSUME MemoryInv, running # "none"
  PROVE  /\ CallTypes
         /\ running = "memset" => call.function = "memset" /\ SetPart
         /\ running = "memcpy" =>
              \/ call.function = "memcpy" /\ CopyPart
              \/ call.function = "memmove" /\ MovePart
         /\ running = "memmove" => call.function = "memmove" /\ MovePart
         /\ running = "forwards" => call.function = "memmove" /\ MovePart
         /\ running = "memcmp" => call.function = "memcmp" /\ ComparePart
BY DEF MemoryInv, CallRight, CallTypes, Functions, SetPart, CopyPart, MovePart, ComparePart

\* A byte of memset.
LEMMA SetStep ==
  ASSUME MemoryInv, memset
  PROVE  MemoryInv'
<1>1. CallTypes /\ call.function = "memset" /\ SetPart /\ running = "memset"
  BY Runs DEF memset
<1>2. CASE AllSet /\ Return
  <2>1. TypeOK'
    BY <1>2 DEF MemoryInv, TypeOK, Return, args
  <2>2. CallTypes'
    BY <1>1, <1>2 DEF CallTypes, Return, Addresses
  <2>3. SetPart'
    BY <1>1, <1>2 DEF SetPart, Return, AllSet, args, Addresses
  <2> QED BY <1>1, <1>2, <2>1, <2>2, <2>3 DEF MemoryInv, CallRight, Return
<1>3. CASE ~AllSet
  <2>1. /\ memory' = [memory EXCEPT ![to] = value]
        /\ to' = to + 1 /\ length' = length - 1
        /\ UNCHANGED <<running, from, value, i, diff, call>>
    BY <1>1, <1>3 DEF memset
  <2>2. /\ to \in Nat /\ length \in Nat /\ length # 0 /\ call.to \in Nat /\ call.length \in Nat
        /\ to + length = call.to + call.length /\ call.to + call.length <= Size
        /\ length <= call.length /\ Size \in Nat
    BY <1>1, <1>3, ConstantsAssumption DEF MemoryInv, TypeOK, CallTypes, SetPart, AllSet
  <2>3. to \in Addresses /\ value = call.value /\ call.value \in Values
    BY <1>1, <2>2 DEF Addresses, SetPart, CallTypes
  <2>4. TypeOK'
    BY <2>1, <2>2, <2>3 DEF MemoryInv, TypeOK
  <2>5. CallTypes'
    BY <1>1, <2>1 DEF CallTypes, Addresses
  <2>6. \A a \in Addresses :
          memory'[a] = IF call.to <= a /\ a < to + 1 THEN call.value ELSE call.memory[a]
    <3> SUFFICES ASSUME NEW a \in Addresses
                 PROVE  memory'[a] = IF call.to <= a /\ a < to + 1 THEN call.value
                                     ELSE call.memory[a]
      OBVIOUS
    <3>1. memory'[a] = IF a = to THEN value ELSE memory[a]
      BY <2>1 DEF MemoryInv, TypeOK
    <3>2. memory[a] = IF call.to <= a /\ a < to THEN call.value ELSE call.memory[a]
      BY <1>1 DEF SetPart
    <3>3. a \in Nat
      BY DEF Addresses
    <3> QED BY <2>2, <2>3, <3>1, <3>2, <3>3
  <2>7. SetPart'
    BY <1>1, <2>1, <2>2, <2>6 DEF SetPart, Addresses
  <2> QED BY <1>1, <2>1, <2>4, <2>5, <2>7 DEF MemoryInv, CallRight
<1> QED BY <1>2, <1>3 DEF memset

\* A byte copied from the end is read before it is overwritten.
LEMMA CopiedByte ==
  ASSUME MemoryInv, CallTypes, to = call.to, from = call.from,
         length # 0, length <= call.length, SafeBackwards, CopiedFromEnd,
         memory' = [memory EXCEPT ![to + LastByte(length)] = memory[from + LastByte(length)]],
         length' = length - 1, call' = call
  PROVE  CopiedFromEnd'
<1>1. /\ length \in Nat /\ call.to \in Nat /\ call.from \in Nat /\ call.length \in Nat
      /\ call.to + call.length <= Size /\ call.from + call.length <= Size
  BY DEF CallTypes, MemoryInv, TypeOK
<1>2. PICK last \in Nat : last = length - 1
  BY <1>1
<1>3. to + last \in Addresses /\ from + last \in Addresses
  BY <1>1, <1>2, ConstantsAssumption DEF Addresses
<1>4. memory[from + last] = call.memory[call.from + last]
  <2>1. ~(call.to + length <= from + last /\ from + last < call.to + call.length)
    BY <1>1, <1>2 DEF SafeBackwards
  <2> QED BY <1>3, <2>1 DEF CopiedFromEnd
<1>5. memory' = [memory EXCEPT ![to + last] = call.memory[call.from + last]]
  BY <1>2, <1>4 DEF LastByte
<1>6. SUFFICES ASSUME NEW a \in Addresses
               PROVE  memory'[a] = IF call.to + last <= a /\ a < call.to + call.length
                                     THEN Source(a) ELSE call.memory[a]
  BY <1>2 DEF CopiedFromEnd, Addresses, Source
<1>7. a \in Int
  BY DEF Addresses
<1>8. CASE a = to + last
  <2>1. memory'[a] = call.memory[call.from + last]
    BY <1>5, <1>8 DEF MemoryInv, TypeOK
  <2>2. call.from + (a - call.to) = call.from + last
    BY <1>1, <1>2, <1>7, <1>8
  <2>3. call.to + last <= a /\ a < call.to + call.length
    BY <1>1, <1>2, <1>7, <1>8
  <2> QED BY <2>1, <2>2, <2>3 DEF Source
<1>9. CASE a # to + last
  <2>1. memory'[a] = memory[a]
    BY <1>5, <1>9 DEF MemoryInv, TypeOK
  <2>2. memory[a] = IF call.to + length <= a /\ a < call.to + call.length
                      THEN Source(a) ELSE call.memory[a]
    BY DEF CopiedFromEnd
  <2>3. call.to + length <= a <=> call.to + last <= a
    BY <1>1, <1>2, <1>7, <1>9
  <2> QED BY <2>1, <2>2, <2>3
<1> QED BY <1>8, <1>9

\* When no byte is left to copy, all are copied.
LEMMA CopiedWhole ==
  ASSUME CallTypes, length = 0, CopiedFromEnd
  PROVE  \A a \in Addresses :
           memory[a] = IF Within(a, call.to) THEN Source(a) ELSE call.memory[a]
<1>1. call.to + length = call.to
  BY DEF CallTypes
<1> QED BY <1>1 DEF CopiedFromEnd, Within

\* A byte of memcpy, called or jumped to from memmove.
LEMMA CopyStep ==
  ASSUME MemoryInv, memcpy
  PROVE  MemoryInv'
<1>1. running = "memcpy" /\ CallTypes
  BY Runs DEF memcpy
<1>2. \/ call.function = "memcpy" /\ CopyPart
      \/ call.function = "memmove" /\ MovePart
  BY <1>1, Runs
<1>3. CASE length = 0 /\ Return
  <2>1. TypeOK'
    BY <1>3 DEF MemoryInv, TypeOK, Return, args
  <2>2. CallTypes'
    BY <1>1, <1>3 DEF CallTypes, Return, Addresses
  <2>3. CASE call.function = "memcpy" /\ CopyPart
    <3>1. CopyPart'
      BY <1>3, <2>3 DEF CopyPart, SafeBackwards, CopiedFromEnd, Source, Return, args, Addresses
    <3> QED BY <1>3, <2>1, <2>2, <2>3, <3>1 DEF MemoryInv, CallRight, Return
  <2>4. CASE call.function = "memmove" /\ MovePart
    <3>1. \A a \in Addresses :
            memory[a] = IF Within(a, call.to) THEN Source(a) ELSE call.memory[a]
      BY <1>1, <1>3, <2>4, CopiedWhole DEF MovePart
    <3>2. MovePart'
      BY <1>3, <2>4, <3>1 DEF MovePart, Source, Within, Return, args, Addresses
    <3> QED BY <1>3, <2>1, <2>2, <2>4, <3>2 DEF MemoryInv, CallRight, Return
  <2> QED BY <1>2, <2>3, <2>4
<1>4. CASE length # 0
  <2>1. /\ memory' = [memory EXCEPT ![to + LastByte(length)] = memory[from + LastByte(length)]]
        /\ length' = length - 1
        /\ UNCHANGED <<running, to, from, value, i, diff, call>>
    BY <1>1, <1>4 DEF memcpy
  <2>2. to = call.to /\ from = call.from /\ length <= call.length
    BY <1>2 DEF CopyPart, MovePart
  <2>3. PICK last \in Nat : last = length - 1
    BY <1>4 DEF MemoryInv, TypeOK
  <2>4. /\ to \in Nat /\ from \in Nat /\ length \in Nat
        /\ to + length <= Size /\ from + length <= Size
    BY <1>1, <2>2, ConstantsAssumption DEF CallTypes, MemoryInv, TypeOK
  <2>5. to + last \in Addresses /\ from + last \in Addresses
    BY <2>3, <2>4, ConstantsAssumption DEF Addresses
  <2>6. memory' \in [Addresses -> Values]
    BY <2>1, <2>3, <2>5 DEF LastByte, MemoryInv, TypeOK
  <2>7. last \in 0 .. Size /\ last <= call.length
    BY <1>1, <2>2, <2>3, <2>4, ConstantsAssumption DEF CallTypes
  <2>8. TypeOK'
    BY <2>1, <2>3, <2>6, <2>7 DEF MemoryInv, TypeOK
  <2>9. CallTypes'
    BY <1>1, <2>1 DEF CallTypes, Addresses
  <2>10. CASE call.function = "memcpy" /\ CopyPart
    <3>1. SafeBackwards => CopiedFromEnd'
      BY <1>1, <1>4, <2>1, <2>2, <2>10, CopiedByte DEF CopyPart
    <3>2. CopyPart'
      BY <1>1, <2>1, <2>2, <2>3, <2>7, <2>10, <3>1 DEF CopyPart, SafeBackwards
    <3> QED BY <2>1, <2>8, <2>9, <2>10, <3>2 DEF MemoryInv, CallRight
  <2>11. CASE call.function = "memmove" /\ MovePart
    <3>1. from < to /\ CopiedFromEnd
      BY <1>1, <2>11 DEF MovePart
    <3>2. SafeBackwards
      BY <2>2, <2>4, <3>1 DEF SafeBackwards
    <3>3. CopiedFromEnd'
      BY <1>1, <1>4, <2>1, <2>2, <3>1, <3>2, CopiedByte
    <3>4. MovePart'
      BY <1>1, <2>1, <2>2, <2>3, <2>7, <2>11, <3>1, <3>3 DEF MovePart
    <3> QED BY <2>1, <2>8, <2>9, <2>11, <3>4 DEF MemoryInv, CallRight
  <2> QED BY <1>2, <2>10, <2>11
<1> QED BY <1>3, <1>4 DEF memcpy

\* memmove chooses the direction: to copy from the end, the target must be
\* above the source.
LEMMA MoveBegins ==
  ASSUME MemoryInv, memmove
  PROVE  MemoryInv'
<1>1. running = "memmove" /\ CallTypes /\ call.function = "memmove" /\ MovePart
  BY Runs DEF memmove
<1>2. running' = (IF CopyBackwards THEN "memcpy" ELSE "forwards")
      /\ UNCHANGED <<memory, to, from, length, value, i, diff, call>>
  BY DEF memmove, args
<1>3. TypeOK'
  BY <1>2 DEF MemoryInv, TypeOK
<1>4. CallTypes'
  BY <1>1, <1>2 DEF CallTypes, Addresses
<1>5. /\ to = call.to /\ from = call.from /\ i = 0 /\ length = call.length
      /\ memory = call.memory
  BY <1>1 DEF MovePart
<1>6. /\ to \in Int /\ from \in Int /\ length \in Nat
      /\ \A a \in Addresses : a \in Int
  BY DEF MemoryInv, TypeOK, Addresses
<1>7. CASE CopyBackwards
  <2>1. from < to
    BY <1>6, <1>7 DEF CopyBackwards
  <2>2. \A a \in Addresses : ~(call.to + length <= a /\ a < call.to + call.length)
    BY <1>5, <1>6
  <2>3. CopiedFromEnd'
    BY <1>2, <1>5, <2>2 DEF CopiedFromEnd, Addresses
  <2>4. MovePart'
    BY <1>1, <1>2, <1>5, <1>7, <2>1, <2>3 DEF MovePart
  <2> QED BY <1>1, <1>2, <1>3, <1>4, <2>4 DEF MemoryInv, CallRight
<1>8. CASE ~CopyBackwards
  <2>1. to <= from /\ 0 <= length
    BY <1>6, <1>8 DEF CopyBackwards
  <2>2. \A a \in Addresses : ~(call.to <= a /\ a < call.to + 0)
    BY <1>5, <1>6
  <2>3. MovePart'
    BY <1>1, <1>2, <1>5, <1>8, <2>1, <2>2 DEF MovePart, Addresses
  <2> QED BY <1>1, <1>2, <1>3, <1>4, <2>3 DEF MemoryInv, CallRight
<1> QED BY <1>7, <1>8

\* A byte copied from the front is read before it is overwritten, because the
\* target is not above the source.
LEMMA ForwardStep ==
  ASSUME MemoryInv, Forwards
  PROVE  MemoryInv'
<1>1. running = "forwards" /\ CallTypes /\ call.function = "memmove" /\ MovePart
  BY Runs DEF Forwards
<1>2. /\ to = call.to /\ from = call.from /\ length = call.length /\ i <= length /\ to <= from
      /\ \A a \in Addresses :
           memory[a] = IF call.to <= a /\ a < call.to + i THEN Source(a) ELSE call.memory[a]
  BY <1>1 DEF MovePart
<1>3. /\ to \in Nat /\ from \in Nat /\ length \in Nat /\ i \in Nat
      /\ to + length <= Size /\ from + length <= Size
      /\ \A a \in Addresses : a \in Int
  BY <1>1, <1>2, ConstantsAssumption DEF CallTypes, MemoryInv, TypeOK, Addresses
<1>4. CASE i = length /\ Return
  <2>1. TypeOK'
    BY <1>4 DEF MemoryInv, TypeOK, Return, args
  <2>2. CallTypes'
    BY <1>1, <1>4 DEF CallTypes, Return, Addresses
  <2>3. MovePart'
    BY <1>1, <1>2, <1>4 DEF MovePart, Source, Within, Return, args, Addresses
  <2> QED BY <1>1, <1>4, <2>1, <2>2, <2>3 DEF MemoryInv, CallRight, Return
<1>5. CASE i < length /\ ~(i = length /\ Return)
  <2>1. /\ memory' = [memory EXCEPT ![to + i] = memory[from + i]]
        /\ i' = i + 1
        /\ UNCHANGED <<running, to, from, length, value, diff, call>>
    BY <1>1, <1>5 DEF Forwards, args
  <2>2. to + i \in Addresses /\ from + i \in Addresses
    BY <1>3, <1>5, ConstantsAssumption DEF Addresses
  <2>3. i + 1 \in 0 .. Size /\ i + 1 <= length
    BY <1>3, <1>5, ConstantsAssumption
  <2>4. TypeOK'
    BY <2>1, <2>2, <2>3 DEF MemoryInv, TypeOK
  <2>5. CallTypes'
    BY <1>1, <2>1 DEF CallTypes, Addresses
  <2>6. memory[from + i] = call.memory[call.from + i]
    <3>1. ~(call.to <= from + i /\ from + i < call.to + i)
      BY <1>2, <1>3
    <3> QED BY <1>2, <2>2, <3>1
  <2>7. ASSUME NEW a \in Addresses
        PROVE  memory'[a] = IF call.to <= a /\ a < call.to + (i + 1)
                              THEN Source(a) ELSE call.memory[a]
    <3>1. CASE a = to + i
      <4>1. memory'[a] = call.memory[call.from + i]
        BY <2>1, <2>6, <3>1 DEF MemoryInv, TypeOK
      <4>2. call.from + (a - call.to) = call.from + i
        BY <1>2, <1>3, <3>1
      <4>3. call.to <= a /\ a < call.to + (i + 1)
        BY <1>2, <1>3, <3>1
      <4> QED BY <4>1, <4>2, <4>3 DEF Source
    <3>2. CASE a # to + i
      <4>1. memory'[a] = memory[a]
        BY <2>1, <3>2 DEF MemoryInv, TypeOK
      <4>2. a < call.to + i <=> a < call.to + (i + 1)
        BY <1>2, <1>3, <3>2
      <4> QED BY <1>2, <4>1, <4>2
    <3> QED BY <3>1, <3>2
  <2>8. MovePart'
    BY <1>1, <1>2, <2>1, <2>3, <2>7 DEF MovePart, Source, Addresses
  <2> QED BY <1>1, <2>1, <2>4, <2>5, <2>8 DEF MemoryInv, CallRight
<1> QED BY <1>4, <1>5 DEF Forwards

\* Bytes are at most 255 apart.
LEMMA DifferenceRange ==
  ASSUME NEW x \in 0 .. 255, NEW y \in 0 .. 255
  PROVE  x - y \in -255 .. 255
OBVIOUS

\* A pair of bytes of memcmp: it goes on only while the pairs are equal.
LEMMA CompareStep ==
  ASSUME MemoryInv, memcmp
  PROVE  MemoryInv'
<1>1. running = "memcmp" /\ CallTypes /\ call.function = "memcmp" /\ ComparePart
  BY Runs DEF memcmp
<1>2. CASE (i = length \/ diff # 0) /\ Return
  <2>1. TypeOK'
    BY <1>2 DEF MemoryInv, TypeOK, Return, args
  <2>2. CallTypes'
    BY <1>1, <1>2 DEF CallTypes, Return, Addresses
  <2>3. ComparePart'
    BY <1>1, <1>2 DEF ComparePart, Exact, Return, args
  <2> QED BY <1>1, <1>2, <2>1, <2>2, <2>3 DEF MemoryInv, CallRight, Return
<1>3. CASE i < length /\ diff = 0 /\ diff' = Int8(memory[to + i] - memory[from + i])
  <2>1. /\ i' = i + 1 /\ diff' = Int8(memory[to + i] - memory[from + i])
        /\ UNCHANGED <<memory, running, to, from, length, value, call>>
    <3>1. ~(i = length \/ diff # 0)
      BY <1>3 DEF MemoryInv, TypeOK
    <3> QED BY <1>1, <1>3, <3>1 DEF memcmp, args
  <2>2. /\ to \in Nat /\ from \in Nat /\ length \in Nat /\ i \in Nat
        /\ to = call.to /\ from = call.from /\ length = call.length
        /\ to + length <= Size /\ from + length <= Size /\ memory = call.memory
    BY <1>1, ConstantsAssumption DEF CallTypes, ComparePart, MemoryInv, TypeOK
  <2>3. to + i \in Addresses /\ from + i \in Addresses
    BY <1>3, <2>2, ConstantsAssumption DEF Addresses
  <2>4. call.memory[call.to + i] \in 0 .. 255 /\ call.memory[call.from + i] \in 0 .. 255
    BY <2>2, <2>3, ConstantsAssumption DEF MemoryInv, TypeOK
  <2>5. Exact(i) \in -255 .. 255
    BY <2>4, DifferenceRange DEF Exact
  <2>6. diff' = Int8(Exact(i)) /\ Int8(Exact(i)) \in -128 .. 127
    BY <2>1, <2>2, <2>5, CutDifference DEF Exact
  <2>7. i + 1 \in 0 .. Size /\ i + 1 <= length /\ i + 1 # 0 /\ (i + 1) - 1 = i
    BY <1>3, <2>2, ConstantsAssumption
  <2>8. TypeOK'
    BY <2>1, <2>6, <2>7 DEF MemoryInv, TypeOK
  <2>9. CallTypes'
    BY <1>1, <2>1 DEF CallTypes, Addresses
  <2>10. ASSUME NEW n \in 0 .. (Size - 1), n < i
         PROVE  Exact(n) = 0
    <3>1. CASE n < i - 1
      BY <1>1, <3>1 DEF ComparePart
    <3>2. CASE n = i - 1
      <4>1. i # 0
        BY <2>10, <2>2
      <4>2. Int8(Exact(n)) = 0
        BY <1>1, <1>3, <3>2, <4>1 DEF ComparePart
      <4>3. to + n \in Addresses /\ from + n \in Addresses
        BY <1>3, <2>2, <2>10, ConstantsAssumption DEF Addresses
      <4>4. call.memory[call.to + n] \in 0 .. 255 /\ call.memory[call.from + n] \in 0 .. 255
        BY <2>2, <4>3, ConstantsAssumption DEF MemoryInv, TypeOK
      <4>5. Exact(n) \in -255 .. 255
        BY <4>4, DifferenceRange DEF Exact
      <4> QED BY <4>2, <4>5, CutDifference
    <3> QED BY <2>2, <2>10, <3>1, <3>2
  <2>11. ComparePart'
    BY <1>1, <2>1, <2>2, <2>6, <2>7, <2>10 DEF ComparePart, Exact
  <2> QED BY <1>1, <2>1, <2>8, <2>9, <2>11 DEF MemoryInv, CallRight
<1> QED BY <1>2, <1>3 DEF memcmp

\* The inductive invariant holds in every state.
LEMMA MemoryInvariance == Spec => []MemoryInv
<1>1. ASSUME MemoryInv, [Next]_vars
      PROVE  MemoryInv'
  <2>1. CASE Step
    BY <1>1, <2>1, SetStep, CopyStep, MoveBegins, ForwardStep, CompareStep DEF Step
  <2>2. CASE \E function \in Functions : Call(function)
    BY <1>1, <2>2, CallBegins
  <2>3. CASE UNCHANGED vars
    <3>1. TypeOK'
      BY <1>1, <2>3 DEF MemoryInv, TypeOK, vars, args
    <3>2. CallTypes => CallTypes'
      BY <2>3 DEF CallTypes, Addresses, vars, args
    <3>3. SetPart => SetPart'
      BY <2>3 DEF SetPart, Addresses, vars, args
    <3>4. CopyPart => CopyPart'
      BY <2>3 DEF CopyPart, SafeBackwards, CopiedFromEnd, Source, Addresses, vars, args
    <3>5. MovePart => MovePart'
      BY <2>3 DEF MovePart, CopiedFromEnd, Within, Source, Addresses, vars, args
    <3>6. ComparePart => ComparePart'
      BY <2>3 DEF ComparePart, Exact, vars, args
    <3> QED BY <1>1, <2>3, <3>1, <3>2, <3>3, <3>4, <3>5, <3>6 DEF MemoryInv, CallRight, vars, args
  <2> QED BY <1>1, <2>1, <2>2, <2>3 DEF Next, Functions
<1> QED BY <1>1, InitRight, PTL DEF Spec

\* The invariant says of a call that has returned what is promised of memmove,
\* memcpy and memset: the functions on memory that it speaks of are equal.
LEMMA ReturnedRight ==
  ASSUME MemoryInv
  PROVE  MoveExact /\ CopyExact /\ SetExact
<1>1. memory \in [Addresses -> Values]
  BY DEF MemoryInv, TypeOK
<1>2. ASSUME \A a \in Addresses :
               memory[a] = IF Within(a, call.to) THEN Source(a) ELSE call.memory[a]
      PROVE  memory = Copied
  <2>1. Copied = [a \in Addresses |->
                    IF Within(a, call.to) THEN Source(a) ELSE call.memory[a]]
    BY DEF Copied, Source
  <2> QED BY <1>1, <1>2, <2>1
<1>3. ASSUME running = "none", call.function \in Functions
      PROVE  /\ CallTypes
             /\ call.function = "memset" => SetPart
             /\ call.function = "memcpy" => CopyPart
             /\ call.function = "memmove" => MovePart
  BY <1>3 DEF MemoryInv, CallRight, NoCall, Functions
<1>4. MoveExact
  <2> SUFFICES ASSUME running = "none", call.function = "memmove"
               PROVE  memory = Copied
    BY DEF MoveExact, Returned
  <2> QED BY <1>2, <1>3 DEF MovePart, Functions
<1>5. CopyExact
  <2> SUFFICES ASSUME running = "none", call.function = "memcpy",
                      call.from <= call.to \/ call.to + call.length <= call.from
               PROVE  memory = Copied
    BY DEF CopyExact, Returned
  <2>1. CallTypes /\ CopyPart
    BY <1>3 DEF Functions
  <2>2. CopiedFromEnd /\ length = 0
    BY <2>1 DEF CopyPart, SafeBackwards
  <2> QED BY <1>2, <2>1, <2>2, CopiedWhole
<1>6. SetExact
  <2> SUFFICES ASSUME running = "none", call.function = "memset"
               PROVE  memory = [a \in Addresses |->
                                  IF Within(a, call.to) THEN call.value ELSE call.memory[a]]
    BY DEF SetExact, Returned
  <2>1. CallTypes /\ SetPart
    BY <1>3 DEF Functions
  <2>2. to = call.to + call.length
    BY <2>1 DEF SetPart, CallTypes, MemoryInv, TypeOK
  <2>3. \A a \in Addresses :
          memory[a] = IF Within(a, call.to) THEN call.value ELSE call.memory[a]
    BY <2>1, <2>2 DEF SetPart, Within
  <2> QED BY <1>1, <2>3
<1> QED BY <1>4, <1>5, <1>6

\* And of memcmp.
LEMMA ComparedRight ==
  ASSUME MemoryInv
  PROVE  CompareExact
<1> DEFINE Differ(n) == call.memory[call.to + n] # call.memory[call.from + n]
           differences == {n \in 0 .. (call.length - 1) : Differ(n)}
<1>1. SUFFICES ASSUME running = "none", call.function = "memcmp"
               PROVE  /\ memory = call.memory
                      /\ diff = 0 <=> differences = {}
                      /\ \A n \in differences : (\A m \in differences : n <= m) =>
                           /\ (diff - Exact(n)) % 256 = 0
                           /\ Exact(n) \in -128 .. 127 <=> diff = Exact(n)
  BY DEF CompareExact, Returned, Exact
<1>2. CallTypes /\ ComparePart
  BY <1>1 DEF MemoryInv, CallRight, NoCall
<1>3. /\ i \in Nat /\ call.length \in Nat /\ call.length <= Size /\ i <= call.length
      /\ call.to \in Nat /\ call.from \in Nat
      /\ call.to + call.length <= Size /\ call.from + call.length <= Size
  BY <1>2, ConstantsAssumption DEF ComparePart, CallTypes, MemoryInv, TypeOK
<1>4. ASSUME NEW n \in 0 .. (call.length - 1)
      PROVE  /\ Exact(n) \in -255 .. 255
             /\ Exact(n) = 0 <=> ~Differ(n)
             /\ n \in 0 .. (Size - 1)
  <2>1. call.to + n \in Addresses /\ call.from + n \in Addresses /\ n \in 0 .. (Size - 1)
    BY <1>3, ConstantsAssumption DEF Addresses
  <2>2. call.memory[call.to + n] \in 0 .. 255 /\ call.memory[call.from + n] \in 0 .. 255
    BY <1>2, <2>1, ConstantsAssumption DEF CallTypes
  <2>3. PICK x \in 0 .. 255, y \in 0 .. 255 :
          x = call.memory[call.to + n] /\ y = call.memory[call.from + n]
    BY <2>2
  <2>4. x - y \in -255 .. 255 /\ (x - y = 0 <=> x = y)
    OBVIOUS
  <2> QED BY <2>1, <2>3, <2>4 DEF Exact
<1>5. \A n \in 0 .. (call.length - 1) : n < i - 1 => ~Differ(n)
  BY <1>2, <1>4 DEF ComparePart
<1>6. CASE i = 0
  <2>1. diff = 0 /\ call.length = 0
    BY <1>1, <1>2, <1>6 DEF ComparePart
  <2>2. differences = {}
    BY <2>1
  <2> QED BY <1>2, <2>1, <2>2 DEF ComparePart
<1>7. CASE i # 0
  <2>1. PICK last \in 0 .. (call.length - 1) : last = i - 1
    BY <1>3, <1>7
  <2>2. diff = Int8(Exact(last))
    BY <1>2, <1>7, <2>1 DEF ComparePart
  <2>3. diff = 0 <=> ~Differ(last)
    BY <1>4, <2>1, <2>2, CutDifference
  <2>4. diff = 0 => \A n \in 0 .. (call.length - 1) : ~Differ(n)
    <3> SUFFICES ASSUME diff = 0, NEW n \in 0 .. (call.length - 1)
                 PROVE  ~Differ(n)
      OBVIOUS
    <3>1. i = call.length
      BY <1>1, <1>2 DEF ComparePart
    <3>2. n < i - 1 \/ n = last
      BY <1>3, <2>1, <3>1
    <3> QED BY <1>5, <2>3, <3>2
  <2>5. diff = 0 <=> differences = {}
    BY <2>3, <2>4
  <2>6. ASSUME NEW n \in differences, \A m \in differences : n <= m
        PROVE  n = last
    <3>1. n \in 0 .. (call.length - 1) /\ Differ(n)
      BY <2>6
    <3>2. ~(n < i - 1)
      BY <1>5, <3>1
    <3>3. diff # 0
      BY <2>4, <3>1
    <3>4. last \in differences
      BY <2>1, <2>3, <3>3
    <3> QED BY <1>3, <2>1, <2>6, <3>1, <3>2, <3>4
  <2>7. /\ (diff - Exact(last)) % 256 = 0
        /\ Exact(last) \in -128 .. 127 <=> diff = Exact(last)
    <3>1. PICK d \in -255 .. 255 : d = Exact(last)
      BY <1>4
    <3>2. diff = Int8(d)
      BY <2>2, <3>1
    <3>3. (Int8(d) - d) % 256 = 0 /\ (d \in -128 .. 127 <=> Int8(d) = d)
      BY CutDifference
    <3> QED BY <3>1, <3>2, <3>3
  <2> QED BY <1>2, <2>5, <2>6, <2>7 DEF ComparePart
<1> QED BY <1>6, <1>7

\* Every call of memset, memcpy, memmove and memcmp does what its callers take
\* it to do, for every size of memory and every overlap (stddef.c:38-72).
LEMMA MemoryAlone == Spec => []CallsExact
<1>1. MemoryInv => CallsExact
  BY ReturnedRight, ComparedRight DEF MemoryInv, CallsExact
<1> QED BY <1>1, MemoryInvariance, PTL

------------------------------------------------------------------------------
\* What a counter may hold: selectors, never a divisor.
Loaded == {-1, -2} \cup {s + 256 * t : s, t \in Pit!Selectors}

ChipRight(chip) ==
  /\ chip = [low |-> chip.low, count |-> chip.count]
  /\ chip.low \in [0 .. 2 -> Pit!Selectors \cup {-1}]
  /\ chip.count \in [0 .. 2 -> Loaded]

TimerInv ==
  /\ ChipRight(Pit!Chip)
  /\ asked = <<>> \/ asked \in Counters \X Pit!Words
  /\ timer \in {"ok", "divide error"}
  /\ Pit!AskedStandsStill

\* What is smaller than a bound is in the interval that ends before it.
LEMMA Below ==
  ASSUME NEW bound \in Nat
  PROVE  /\ \A w \in Nat : w < bound => w \in 0 .. (bound - 1)
         /\ \A w \in 0 .. (bound - 1) : w \in Nat /\ w < bound
OBVIOUS

\* A word is 256 bytes' worth.
LEMMA WordIs ==
  /\ Pit!Word = 65536 /\ Pit!Word \in Nat
  /\ \A w \in Nat : w < Pit!Word => w \in Pit!Words
  /\ \A w \in Pit!Words : w \in Nat /\ w < Pit!Word
<1>1. Pit!Word = 65536
  BY DEF Pit!Word
<1>2. Pit!Word \in Nat
  BY <1>1
<1>3. Pit!Words = 0 .. (Pit!Word - 1)
  BY DEF Pit!Words
<1>4. /\ \A w \in Nat : w < Pit!Word => w \in Pit!Words
      /\ \A w \in Pit!Words : w \in Nat /\ w < Pit!Word
  BY <1>2, <1>3, Below
<1> QED BY <1>1, <1>2, <1>4

\* Selectors are bytes, and what is loaded fits the counters.
LEMMA SelectorsFit ==
  ASSUME Pit!ConstantsAssumption
  PROVE  /\ Pit!Selectors \subseteq 0 .. 255
         /\ Loaded \subseteq Pit!Words \cup {-1, -2}
<1>1. ASSUME NEW s \in Pit!Selectors
      PROVE  s \in 0 .. 128
  BY DEF Pit!Selectors, Pit!Selector, Pit!ConstantsAssumption
<1>2. ASSUME NEW s \in Pit!Selectors, NEW t \in Pit!Selectors
      PROVE  s + 256 * t \in Pit!Words
  <2>1. s \in 0 .. 128 /\ t \in 0 .. 128
    BY <1>1
  <2>2. s + 256 * t \in Nat /\ s + 256 * t < 65536
    <3>1. \A x, y \in 0 .. 128 : x + 256 * y \in Nat /\ x + 256 * y < 65536
      OBVIOUS
    <3> QED BY <2>1, <3>1
  <2> QED BY <2>2, WordIs
<1>3. Pit!Selectors \subseteq 0 .. 255
  BY <1>1
<1>4. Loaded \subseteq Pit!Words \cup {-1, -2}
  BY <1>2 DEF Loaded
<1> QED BY <1>3, <1>4

\* What a selector written to a port does to the counter of that port, and to
\* the other counters nothing.
Turned(before, port, s, after) ==
  /\ \A c \in (0 .. 2) \ {port} : after.low[c] = before.low[c] /\ after.count[c] = before.count[c]
  /\ port # 3 /\ before.low[port] = -1 =>
       after.low[port] = s /\ after.count[port] = before.count[port]
  /\ port # 3 /\ before.low[port] # -1 => after.count[port] = before.low[port] + 256 * s

\* A selector written to a data port keeps the chip right and touches no counter
\* but that of the port (pit.c:8-14).
LEMMA Written ==
  ASSUME Pit!ConstantsAssumption, NEW chip, ChipRight(chip),
         NEW port \in 0 .. 3, NEW s \in Pit!Selectors
  PROVE  /\ ChipRight(Pit!Write(chip, port, s))
         /\ Turned(chip, port, s, Pit!Write(chip, port, s))
<1> USE DEF Turned
<1>1. CASE port = 3
  BY <1>1 DEF Pit!Write, Pit!ControlWord
<1>2. CASE port # 3 /\ chip.low[port] = -1
  <2>1. Pit!Write(chip, port, s) = [low |-> [chip.low EXCEPT ![port] = s], count |-> chip.count]
    BY <1>2 DEF Pit!Write, Pit!ControlWord, Pit!None, ChipRight
  <2>2. port \in 0 .. 2
    BY <1>2
  <2> QED BY <1>2, <2>1, <2>2 DEF ChipRight
<1>3. CASE port # 3 /\ chip.low[port] # -1
  <2>1. Pit!Write(chip, port, s) =
          [low   |-> [chip.low EXCEPT ![port] = -1],
           count |-> [chip.count EXCEPT ![port] = chip.low[port] + 256 * s]]
    BY <1>3 DEF Pit!Write, Pit!ControlWord, Pit!None
  <2>2. port \in 0 .. 2
    BY <1>3
  <2>3. chip.low[port] + 256 * s \in Loaded
    BY <1>3, <2>2 DEF ChipRight, Loaded
  <2> QED BY <1>3, <2>1, <2>2, <2>3 DEF ChipRight
<1> QED BY <1>1, <1>2, <1>3

\* The command stops its counter and forgets half a divisor (pit.c:4-6).
LEMMA Commanded ==
  ASSUME ChipRight(Pit!Chip), NEW c \in 0 .. 2
  PROVE  /\ ChipRight(Pit!pit_send_command(Pit!Chip, c))
         /\ Pit!pit_send_command(Pit!Chip, c).low[c] = -1
         /\ Pit!pit_send_command(Pit!Chip, c).count[c] = -1
<1>1. Pit!pit_send_command(Pit!Chip, c) =
        [low |-> [Pit!Chip.low EXCEPT ![c] = -1], count |-> [Pit!Chip.count EXCEPT ![c] = -1]]
  BY DEF Pit!pit_send_command, Pit!None, Pit!Stopped, Pit!Chip
<1>2. -1 \in Loaded
  BY DEF Loaded
<1> QED BY <1>1, <1>2 DEF ChipRight

\* The halves of a word are bytes.
LEMMA Halves ==
  ASSUME NEW n \in Pit!Words
  PROVE  n % 256 \in 0 .. 255 /\ n \div 256 \in 0 .. 255
<1>1. n \in Nat /\ n < 65536
  BY WordIs
<1> QED BY <1>1, SMTT(30)

\* A divisor fits 16 bits, and its halves are bytes (pit.c:23-28, 33-34).
LEMMA DivisorHalves ==
  ASSUME Pit!ConstantsAssumption, NEW freq \in Frequencies, freq <= 18 \/ Pit!Hertz(freq) # 0
  PROVE  /\ Pit!Divisor(freq) \in Pit!Words
         /\ Pit!Divisor(freq) % 256 \in 0 .. 255
         /\ Pit!Divisor(freq) \div 256 \in 0 .. 255
<1>1. freq \in Nat
  BY DEF Pit!ConstantsAssumption
<1>2. Pit!Divisor(freq) \in Pit!Words
  <2>1. CASE freq <= 18
    <3>1. Pit!Divisor(freq) = Pit!Word - 1
      BY <1>1, <2>1 DEF Pit!Divisor
    <3>2. \A word \in Nat : word > 0 => word - 1 \in Nat /\ word - 1 < word
      OBVIOUS
    <3>3. Pit!Word > 0
      BY WordIs
    <3> QED BY <3>1, <3>2, <3>3, WordIs
  <2>2. CASE freq > 18
    <3>1. PICK hertz \in Nat \ {0} : hertz = Pit!Hertz(freq)
      BY <1>1, <2>2, WordIs DEF Pit!Hertz
    <3>2. PICK quotient \in Nat : quotient = 1193181 \div hertz
      BY SMT
    <3>3. Pit!Divisor(freq) = quotient % Pit!Word
      BY <2>2, <3>1, <3>2, SMT DEF Pit!Divisor
    <3>4. \A q \in Nat, word \in Nat : word > 0 => q % word \in Nat /\ q % word < word
      BY SMTT(30)
    <3>5. Pit!Word > 0
      BY WordIs
    <3> QED BY <3>2, <3>3, <3>4, <3>5, WordIs
  <2> QED BY <1>1, <2>1, <2>2
<1> QED BY <1>2, Halves

\* A byte shifted by six is the number of a port, and so is a counter's selector.
LEMMA Ports ==
  ASSUME NEW b \in 0 .. 255
  PROVE  /\ (b % 256) \div 64 = b \div 64
         /\ b \div 64 \in 0 .. 3
<1>1. b % 256 = b
  OBVIOUS
<1> QED BY <1>1

\* One call: what the chip holds after the command and two bytes, which go to the
\* ports the halves of the divisor name (pit.c:21-38).
LEMMA Started ==
  ASSUME Pit!ConstantsAssumption, TimerInv, NEW c \in Counters, NEW freq \in Frequencies,
         freq <= 18 \/ Pit!Hertz(freq) # 0, Pit!pit_start_counter(freq, c)
  PROVE  TimerInv'
<1> DEFINE cleared == Pit!pit_send_command(Pit!Chip, c)
           lower == (Pit!Divisor(freq) % 256) \div 64
           upper == (Pit!Divisor(freq) \div 256) \div 64
           first == Pit!Write(cleared, lower, Pit!Selector(c))
           second == Pit!Write(first, upper, Pit!Selector(c))
<1>1. c \in 0 .. 2 /\ Pit!Selector(c) \in Pit!Selectors
  BY DEF Pit!ConstantsAssumption, Pit!Selectors
<1>2. /\ ChipRight(cleared)
      /\ cleared.low[c] = -1
      /\ cleared.count[c] = -1
  BY <1>1, Commanded DEF TimerInv
<1>3. lower \in 0 .. 3 /\ upper \in 0 .. 3
  BY DivisorHalves, Ports
<1>4. low' = second.low /\ count' = second.count /\ asked' = <<c, Pit!Divisor(freq)>> /\ timer' = timer
  <2>1. /\ ((Pit!Divisor(freq) % 256) % 256) \div 64 = lower
        /\ ((Pit!Divisor(freq) \div 256) % 256) \div 64 = upper
    BY DivisorHalves, Ports
  <2> QED BY <2>1 DEF Pit!pit_start_counter, Pit!pit_send_data
<1> HIDE DEF cleared, lower, upper
<1>5. ChipRight(first)
  BY <1>1, <1>2, <1>3, Written
<1>6. ChipRight(second)
  BY <1>1, <1>3, <1>5, Written
<1>7. second.count[c] = IF lower = c /\ upper = c THEN 257 * Pit!Selector(c) ELSE -1
  <2>1. Turned(cleared, lower, Pit!Selector(c), first) /\ Turned(first, upper, Pit!Selector(c), second)
    BY <1>1, <1>2, <1>3, <1>5, Written
  <2> HIDE DEF first, second
  <2>5. lower = c => first.low[c] = Pit!Selector(c) /\ first.count[c] = -1
    BY <1>1, <1>2, <2>1 DEF Turned
  <2>6. lower # c => first.low[c] = -1 /\ first.count[c] = -1
    BY <1>1, <1>2, <2>1 DEF Turned
  <2>2. CASE upper # c
    BY <1>1, <2>1, <2>2, <2>5, <2>6 DEF Turned
  <2>3. CASE upper = c /\ lower # c
    BY <1>1, <2>1, <2>3, <2>6 DEF Turned
  <2>4. CASE upper = c /\ lower = c
    <3>1. first.low[c] = Pit!Selector(c) /\ Pit!Selector(c) # -1 /\ c # 3
      BY <1>1, <2>4, <2>5 DEF Pit!Selector
    <3>2. second.count[c] = first.low[c] + 256 * Pit!Selector(c)
      BY <2>1, <2>4, <3>1 DEF Turned
    <3>3. first.low[c] + 256 * Pit!Selector(c) = 257 * Pit!Selector(c)
      BY <1>1, <3>1 DEF Pit!Selector
    <3> QED BY <2>4, <3>2, <3>3
  <2> QED BY <2>2, <2>3, <2>4
<1> HIDE DEF first, second
<1>8. ChipRight(Pit!Chip)'
  <2>1. second = [low |-> second.low, count |-> second.count]
    BY <1>6 DEF ChipRight
  <2>2. Pit!Chip' = second
    BY <1>4, <2>1 DEF Pit!Chip
  <2> QED BY <1>6, <2>2 DEF ChipRight
<1>9. asked' \in Counters \X Pit!Words
  BY <1>4, DivisorHalves
<1>10. Pit!AskedStandsStill'
  <2>1. asked'[1] = c /\ asked'[2] = Pit!Divisor(freq)
    BY <1>4
  <2> QED BY <1>4, <1>7, <2>1 DEF lower, upper, Pit!AskedStandsStill, Pit!Stopped
<1> QED BY <1>4, <1>8, <1>9, <1>10 DEF TimerInv

\* Counters hold selectors after any calls (pit.c:21-38).
LEMMA TimerInvariance ==
  Pit!ConstantsAssumption => (Pit!Spec => []TimerInv)
<1> SUFFICES ASSUME Pit!ConstantsAssumption
             PROVE  Pit!Spec => []TimerInv
  OBVIOUS
<1>1. Pit!Init => TimerInv
  <2> SUFFICES ASSUME Pit!Init
               PROVE  TimerInv
    OBVIOUS
  <2>1. ChipRight(Pit!Chip)
    <3>1. Pit!Chip = [low |-> [d \in 0 .. 2 |-> -1], count |-> [d \in 0 .. 2 |-> -2]]
      BY DEF Pit!Init, Pit!Chip, Pit!None, Pit!FromBios
    <3>2. -2 \in Loaded
      BY DEF Loaded
    <3> QED BY <3>1, <3>2 DEF ChipRight
  <2> QED BY <2>1 DEF Pit!Init, TimerInv, Pit!AskedStandsStill
<1>2. TimerInv /\ [Pit!Next]_(Pit!vars) => TimerInv'
  <2> SUFFICES ASSUME TimerInv, [Pit!Next]_(Pit!vars)
               PROVE  TimerInv'
    OBVIOUS
  <2>1. ASSUME NEW freq \in Frequencies, NEW c \in Counters,
               freq <= 18 \/ Pit!Hertz(freq) # 0, Pit!pit_start_counter(freq, c)
        PROVE  TimerInv'
    BY <2>1, Started
  <2>2. ASSUME NEW freq \in Frequencies, Pit!DivideError(freq)
        PROVE  TimerInv'
    <3>1. /\ UNCHANGED <<low, count, asked>> /\ timer' = "divide error"
      BY <2>2 DEF Pit!DivideError
    <3> QED BY <3>1 DEF TimerInv, ChipRight, Pit!Chip, Pit!AskedStandsStill
  <2>3. CASE UNCHANGED Pit!vars
    BY <2>3 DEF Pit!vars, TimerInv, ChipRight, Pit!Chip, Pit!AskedStandsStill
  <2> QED BY <2>1, <2>2, <2>3 DEF Pit!Next
<1> QED BY <1>1, <1>2, PTL DEF Pit!Spec

\* Whatever calls came before, counters hold selectors and never a divisor, and
\* the counter last asked for stands still but for those divisors both of whose
\* bytes lie in the quarter of its number (pit.c:21-38).
LEMMA TimerAlone ==
  Pit!ConstantsAssumption => (Pit!Spec => []Pit!CountersMisloaded)
<1> SUFFICES ASSUME Pit!ConstantsAssumption
             PROVE  Pit!Spec => []Pit!CountersMisloaded
  OBVIOUS
<1>1. TimerInv => Pit!CountersMisloaded
  <2> SUFFICES ASSUME TimerInv
               PROVE  Pit!CountersMisloaded
    OBVIOUS
  <2>1. low \in [0 .. 2 -> Pit!Selectors \cup {-1}] /\ count \in [0 .. 2 -> Loaded]
    BY DEF TimerInv, ChipRight, Pit!Chip
  <2>2. Pit!TypeOK
    BY <2>1, SelectorsFit DEF TimerInv, Pit!TypeOK, Pit!Bytes, Pit!None, Pit!Stopped, Pit!FromBios
  <2>3. Pit!OnlySelectorsLoaded
    BY <2>1 DEF Loaded, Pit!OnlySelectorsLoaded, Pit!None, Pit!Stopped, Pit!FromBios
  <2> QED BY <2>2, <2>3 DEF TimerInv, Pit!CountersMisloaded
<1> QED BY <1>1, TimerInvariance, PTL

------------------------------------------------------------------------------
\* The bits of the keys the driver compares with (scancodes.h).
LEMMA Masks ==
  ASSUME NEW b \in Nat
  PROVE  /\ Keyboard!HasBits(b, 42) <=> (Keyboard!Bit(b, 1) /\ Keyboard!Bit(b, 3) /\ Keyboard!Bit(b, 5))
         /\ Keyboard!HasBits(b, 54) <=>
              (Keyboard!Bit(b, 1) /\ Keyboard!Bit(b, 2) /\ Keyboard!Bit(b, 4) /\ Keyboard!Bit(b, 5))
         /\ Keyboard!HasBits(b, 29) <=>
              (Keyboard!Bit(b, 0) /\ Keyboard!Bit(b, 2) /\ Keyboard!Bit(b, 3) /\ Keyboard!Bit(b, 4))
<1>1. /\ ~Keyboard!Bit(42, 0) /\ Keyboard!Bit(42, 1) /\ ~Keyboard!Bit(42, 2) /\ Keyboard!Bit(42, 3)
      /\ ~Keyboard!Bit(42, 4) /\ Keyboard!Bit(42, 5) /\ ~Keyboard!Bit(42, 6) /\ ~Keyboard!Bit(42, 7)
  BY SMT DEF Keyboard!Bit
<1>2. /\ ~Keyboard!Bit(54, 0) /\ Keyboard!Bit(54, 1) /\ Keyboard!Bit(54, 2) /\ ~Keyboard!Bit(54, 3)
      /\ Keyboard!Bit(54, 4) /\ Keyboard!Bit(54, 5) /\ ~Keyboard!Bit(54, 6) /\ ~Keyboard!Bit(54, 7)
  BY SMT DEF Keyboard!Bit
<1>3. /\ Keyboard!Bit(29, 0) /\ ~Keyboard!Bit(29, 1) /\ Keyboard!Bit(29, 2) /\ Keyboard!Bit(29, 3)
      /\ Keyboard!Bit(29, 4) /\ ~Keyboard!Bit(29, 5) /\ ~Keyboard!Bit(29, 6) /\ ~Keyboard!Bit(29, 7)
  BY SMT DEF Keyboard!Bit
<1>4. \A n \in 0 .. 7 : n = 0 \/ n = 1 \/ n = 2 \/ n = 3 \/ n = 4 \/ n = 5 \/ n = 6 \/ n = 7
  BY SMT
<1>5. Keyboard!HasBits(b, 42) <=> (Keyboard!Bit(b, 1) /\ Keyboard!Bit(b, 3) /\ Keyboard!Bit(b, 5))
  BY <1>1, <1>4, SMT DEF Keyboard!HasBits
<1>6. Keyboard!HasBits(b, 54) <=>
        (Keyboard!Bit(b, 1) /\ Keyboard!Bit(b, 2) /\ Keyboard!Bit(b, 4) /\ Keyboard!Bit(b, 5))
  BY <1>2, <1>4, SMT DEF Keyboard!HasBits
<1>7. Keyboard!HasBits(b, 29) <=>
        (Keyboard!Bit(b, 0) /\ Keyboard!Bit(b, 2) /\ Keyboard!Bit(b, 3) /\ Keyboard!Bit(b, 4))
  BY <1>3, <1>4, SMT DEF Keyboard!HasBits
<1> QED BY <1>5, <1>6, <1>7

\* A byte is the code of a key, or that code with the bit of a release.
LEMMA BytesOfKeys ==
  ASSUME Keyboard!ConstantsAssumption, NEW al \in Keyboard!BytesSent, al # 224
  PROVE  /\ Keyboard!KeyCode(al) \in Keys /\ Keyboard!KeyCode(al) \in 1 .. 95
         /\ ~Keyboard!Released(al) => al = Keyboard!KeyCode(al)
         /\ Keyboard!Released(al) => al = Keyboard!KeyCode(al) + 128
<1>1. CASE al \in Keys
  BY <1>1, SMT DEF Keyboard!ConstantsAssumption, Keyboard!KeyCode, Keyboard!Released, Keyboard!KEY_RELEASED
<1>2. ASSUME NEW key \in Keys, al = key + 128
      PROVE  Keyboard!KeyCode(al) = key /\ Keyboard!Released(al) /\ key \in 1 .. 95
  BY <1>2, SMT DEF Keyboard!ConstantsAssumption, Keyboard!KeyCode, Keyboard!Released, Keyboard!KEY_RELEASED
<1> QED BY <1>1, <1>2 DEF Keyboard!BytesSent, Keyboard!KEY_RELEASED, Keyboard!KEY_ALTERNATE

\* Which codes pass for a shift key, and which for control: those with the bits
\* of one, of which the model's look-alikes are all there are (ps2.c:109-114).
LEMMA PassFor ==
  ASSUME NEW k \in 1 .. 95, NEW al, al = k \/ al = k + 128
  PROVE  /\ Keyboard!ShiftKey(al) <=> k \in {42, 54, 43, 46, 47, 55, 58, 59, 62, 63}
         /\ Keyboard!ControlKey(al) <=> k \in {29, 31, 61, 63, 93, 95}
<1>1. al \in Nat
  OBVIOUS
<1>2. /\ Keyboard!Bit(al, 0) <=> k % 2 = 1
      /\ Keyboard!Bit(al, 1) <=> (k \div 2) % 2 = 1
      /\ Keyboard!Bit(al, 2) <=> (k \div 4) % 2 = 1
      /\ Keyboard!Bit(al, 3) <=> (k \div 8) % 2 = 1
      /\ Keyboard!Bit(al, 4) <=> (k \div 16) % 2 = 1
      /\ Keyboard!Bit(al, 5) <=> (k \div 32) % 2 = 1
  BY SMT DEF Keyboard!Bit
<1>3. (k % 2 = 1 /\ (k \div 4) % 2 = 1 /\ (k \div 8) % 2 = 1 /\ (k \div 16) % 2 = 1)
        <=> k \in {29, 31, 61, 63, 93, 95}
  BY SMT
<1>4. ((k \div 2) % 2 = 1 /\ (k \div 8) % 2 = 1 /\ (k \div 32) % 2 = 1)
        <=> k \in {42, 43, 46, 47, 58, 59, 62, 63}
  BY SMT
<1>5. ((k \div 2) % 2 = 1 /\ (k \div 4) % 2 = 1 /\ (k \div 16) % 2 = 1 /\ (k \div 32) % 2 = 1)
        <=> k \in {54, 55, 62, 63}
  BY SMT
<1> QED BY <1>1, <1>2, <1>3, <1>4, <1>5, Masks, SMT 
        DEF Keyboard!ShiftKey, Keyboard!ControlKey, Keyboard!KEY_LEFTSHIFT, Keyboard!KEY_RIGHTSHIFT, Keyboard!KEY_LEFTCONTROL

\* What the shifted table holds for three of the look-alikes (scancodes.h).
LEMMA ShiftedStrings ==
  /\ Keyboard!Ascii(43, TRUE) = "|"
  /\ Keyboard!Ascii(46, TRUE) = "C"
  /\ Keyboard!Ascii(47, TRUE) = "V"
BY SMT DEF Keyboard!Ascii, Keyboard!scancode_to_ascii_shifted

KeyInv == Keyboard!TypeOK /\ Keyboard!FlagsAsHeld /\ Keyboard!NeverLowerCase

\* The invariant is about the variables of the driver alone.
LEMMA KeysUntouched ==
  ASSUME KeyInv, UNCHANGED Keyboard!vars
  PROVE  KeyInv'
<1>1. Keyboard!TypeOK'
  BY DEF KeyInv, Keyboard!vars, Keyboard!TypeOK, Keyboard!NoEvent
<1>2. Keyboard!FlagsAsHeld'
  BY DEF KeyInv, Keyboard!vars, Keyboard!FlagsAsHeld, Keyboard!key_pressed
<1>3. Keyboard!NeverLowerCase'
  BY DEF KeyInv, Keyboard!vars, Keyboard!NeverLowerCase, Keyboard!NoEvent
<1> QED BY <1>1, <1>2, <1>3 DEF KeyInv

\* What kbh makes of a byte (ps2.c:101-140).
LEMMA ByteHandled ==
  ASSUME Keyboard!ConstantsAssumption, KeyInv, NEW al \in Keyboard!BytesSent, Keyboard!kbh(al)
  PROVE  KeyInv'
<1>1. CASE al = 224
  <2>1. UNCHANGED Keyboard!vars
    BY <1>1 DEF Keyboard!kbh, Keyboard!KEY_ALTERNATE
  <2> QED BY <2>1, KeysUntouched
<1>2. CASE al # 224
  <2> DEFINE code == Keyboard!KeyCode(al)
  <2>1. /\ keymap' = Keyboard!KeymapAfter(keymap, al)
        /\ shift_active' = Keyboard!ShiftAfter(al, shift_active)
        /\ control_active' = Keyboard!ControlAfter(al, control_active)
        /\ event' = IF kehandler = 0 THEN event
                    ELSE Keyboard!KeyEvent_t(al, shift_active', control_active')
        /\ misled' = {flag \in DOMAIN Keyboard!FlagKeys : Keyboard!Misleads(flag, al)}
        /\ kehandler' = kehandler
    BY <1>2 DEF Keyboard!kbh, Keyboard!KEY_ALTERNATE
  <2>2. /\ code \in Keys /\ code \in 1 .. 95
        /\ ~Keyboard!Released(al) => al = code
        /\ Keyboard!Released(al) => al = code + 128
    BY <1>2, BytesOfKeys
  <2> HIDE DEF code
  <2>3. /\ Keyboard!ShiftKey(al) <=> code \in {42, 54, 43, 46, 47, 55, 58, 59, 62, 63}
        /\ Keyboard!ControlKey(al) <=> code \in {29, 31, 61, 63, 93, 95}
    BY <2>2, PassFor
  <2>4. keymap' = IF Keyboard!Released(al) THEN keymap \ {code} ELSE keymap \cup {code}
    BY <2>1, <2>2 DEF code, Keyboard!KeymapAfter
  <2>5. /\ "shift" \in misled' <=> Keyboard!Misleads("shift", al)
        /\ "control" \in misled' <=> Keyboard!Misleads("control", al)
    BY <2>1 DEF Keyboard!FlagKeys
  <2>6. Keyboard!TypeOK'
    <3>1. keymap' \subseteq Keys
      BY <2>2, <2>4 DEF KeyInv, Keyboard!TypeOK
    <3>2. shift_active' \in BOOLEAN /\ control_active' \in BOOLEAN
      BY <2>1 DEF KeyInv, Keyboard!TypeOK, Keyboard!ShiftAfter, Keyboard!ControlAfter, Keyboard!Released
    <3>3. event' # Keyboard!NoEvent => event'.scancode \in Keyboard!BytesSent
      BY <2>1 DEF KeyInv, Keyboard!TypeOK, Keyboard!KeyEvent_t
    <3>4. misled' \subseteq {"shift", "control"}
      BY <2>1 DEF Keyboard!FlagKeys
    <3> QED BY <2>1, <3>1, <3>2, <3>3, <3>4 DEF KeyInv, Keyboard!TypeOK, Keyboard!NoEvent
  <2>7. "shift" \notin misled' => (shift_active' <=> 42 \in keymap' \/ 54 \in keymap')
    <3>1. "shift" \notin misled => (shift_active <=> 42 \in keymap \/ 54 \in keymap)
      BY DEF KeyInv, Keyboard!FlagsAsHeld, Keyboard!FlagKeys, Keyboard!key_pressed,
         Keyboard!KEY_LEFTSHIFT, Keyboard!KEY_RIGHTSHIFT
    <3>2. CASE code \in {42, 54}
      <4>1. shift_active' = ~Keyboard!Released(al)
        BY <2>1, <2>3, <3>2 DEF Keyboard!ShiftAfter
      <4>2. Keyboard!Misleads("shift", al) <=>
              (Keyboard!Released(al) /\ (keymap \cap {42, 54}) \ {code} # {})
        BY <3>2 DEF Keyboard!Misleads, Keyboard!FlagKeys, Keyboard!KEY_LEFTSHIFT, Keyboard!KEY_RIGHTSHIFT, code
      <4> QED BY <2>4, <2>5, <3>2, <4>1, <4>2
    <3>3. CASE code \notin {42, 54}
      <4>1. Keyboard!Misleads("shift", al) <=>
              (code \in {43, 46, 47, 55, 58, 59, 62, 63} \/ "shift" \in misled)
        BY <3>3 DEF Keyboard!Misleads, Keyboard!FlagKeys, Keyboard!LookAlikes,
           Keyboard!KEY_LEFTSHIFT, Keyboard!KEY_RIGHTSHIFT, code
      <4>2. ~Keyboard!ShiftKey(al) => shift_active' = shift_active
        BY <2>1 DEF Keyboard!ShiftAfter
      <4>3. (42 \in keymap' <=> 42 \in keymap) /\ (54 \in keymap' <=> 54 \in keymap)
        BY <2>4, <3>3
      <4> QED BY <2>3, <2>5, <3>1, <3>3, <4>1, <4>2, <4>3
    <3> QED BY <3>2, <3>3
  <2>8. "control" \notin misled' => (control_active' <=> 29 \in keymap')
    <3>1. "control" \notin misled => (control_active <=> 29 \in keymap)
      BY DEF KeyInv, Keyboard!FlagsAsHeld, Keyboard!FlagKeys, Keyboard!key_pressed, Keyboard!KEY_LEFTCONTROL
    <3>2. CASE code = 29
      <4>1. control_active' = ~Keyboard!Released(al)
        BY <2>1, <2>3, <3>2 DEF Keyboard!ControlAfter
      <4> QED BY <2>4, <3>2, <4>1
    <3>3. CASE code # 29
      <4>1. Keyboard!Misleads("control", al) <=> (code \in {31, 61, 63, 93, 95} \/ "control" \in misled)
        BY <3>3 DEF Keyboard!Misleads, Keyboard!FlagKeys, Keyboard!LookAlikes, Keyboard!KEY_LEFTCONTROL, code
      <4>2. ~Keyboard!ControlKey(al) => control_active' = control_active
        BY <2>1 DEF Keyboard!ControlAfter
      <4>3. 29 \in keymap' <=> 29 \in keymap
        BY <2>4, <3>3
      <4> QED BY <2>3, <2>5, <3>1, <3>3, <4>1, <4>2, <4>3
    <3> QED BY <3>2, <3>3
  <2>9. Keyboard!FlagsAsHeld'
    BY <2>7, <2>8 DEF Keyboard!FlagsAsHeld, Keyboard!FlagKeys, Keyboard!key_pressed,
       Keyboard!KEY_LEFTSHIFT, Keyboard!KEY_RIGHTSHIFT, Keyboard!KEY_LEFTCONTROL
  <2>10. Keyboard!NeverLowerCase'
    <3>1. CASE kehandler = 0
      BY <2>1, <3>1 DEF KeyInv, Keyboard!NeverLowerCase, Keyboard!NoEvent
    <3>2. CASE kehandler # 0 /\ al \notin {43, 46, 47}
      BY <2>1, <3>2 DEF Keyboard!KeyEvent_t, Keyboard!NeverLowerCase
    <3>3. CASE kehandler # 0 /\ al \in {43, 46, 47}
      <4>1. ~Keyboard!Released(al)
        BY <3>3 DEF Keyboard!Released, Keyboard!KEY_RELEASED
      <4>2. shift_active' = TRUE
        BY <2>1, <2>2, <2>3, <3>3, <4>1 DEF Keyboard!ShiftAfter
      <4>3. event'.ascii = Keyboard!Ascii(al, TRUE)
        BY <2>1, <2>2, <3>3, <4>1, <4>2 DEF Keyboard!KeyEvent_t, code
      <4> QED BY <3>3, <4>3, ShiftedStrings, ZenonT(30) DEF Keyboard!NeverLowerCase
    <3> QED BY <3>1, <3>2, <3>3
  <2> QED BY <2>6, <2>9, <2>10 DEF KeyInv
<1> QED BY <1>1, <1>2

\* In whatever order bytes come and callbacks are registered.
LEMMA KeyInvariance ==
  Keyboard!ConstantsAssumption => (Keyboard!Spec => []KeyInv)
<1> SUFFICES ASSUME Keyboard!ConstantsAssumption
             PROVE  Keyboard!Spec => []KeyInv
  OBVIOUS
<1>1. Keyboard!Init => KeyInv
  BY DEF Keyboard!Init, KeyInv, Keyboard!TypeOK, Keyboard!FlagsAsHeld, Keyboard!NeverLowerCase, Keyboard!key_pressed
<1>2. KeyInv /\ [Keyboard!Next]_(Keyboard!vars) => KeyInv'
  <2> SUFFICES ASSUME KeyInv, [Keyboard!Next]_(Keyboard!vars)
               PROVE  KeyInv'
    OBVIOUS
  <2>1. ASSUME NEW al \in Keyboard!BytesSent, Keyboard!kbh(al)
        PROVE  KeyInv'
    BY <2>1, ByteHandled
  <2>2. ASSUME NEW handler \in Callbacks \cup {0}, kehandler' = handler,
               UNCHANGED <<keymap, shift_active, control_active, event, misled>>
        PROVE  KeyInv'
    <3>1. Keyboard!TypeOK'
      BY <2>2 DEF KeyInv, Keyboard!TypeOK, Keyboard!NoEvent
    <3>2. Keyboard!FlagsAsHeld'
      BY <2>2 DEF KeyInv, Keyboard!FlagsAsHeld, Keyboard!key_pressed
    <3>3. Keyboard!NeverLowerCase'
      BY <2>2 DEF KeyInv, Keyboard!NeverLowerCase, Keyboard!NoEvent
    <3> QED BY <3>1, <3>2, <3>3 DEF KeyInv
  <2> QED BY <2>1, <2>2, KeysUntouched
          DEF Keyboard!Next, Keyboard!register_keyevent_handler, Keyboard!unregister_keyevent_handler
<1> QED BY <1>1, <1>2, PTL DEF Keyboard!Spec

\* The flags of the driver say what is held, in every order of presses and
\* releases that touches no look-alike and lets one shift key go before the other
\* only, and c, v and backslash arrive as C, V and | (ps2.c:101-140).
LEMMA KeysAlone ==
  Keyboard!ConstantsAssumption => (Keyboard!Spec => []Keyboard!KeysRight)
<1>1. KeyInv => Keyboard!KeysRight
  BY DEF KeyInv, Keyboard!KeysRight
<1> QED BY <1>1, KeyInvariance, PTL

------------------------------------------------------------------------------
\* An address is what its bytes and its nibble stand for.
LEMMA Composed ==
  ASSUME NEW b \in Nat, b > 0, NEW n \in Nat, n > 0, NEW a \in Nat, a < ((b * b) * b) * n
  PROVE  (a % b) + (b * ((a \div b) % b)) + ((b * b) * ((a \div (b * b)) % b))
           + (((b * b) * b) * ((a \div ((b * b) * b)) % n)) = a
<1>1. PICK q1 \in Nat : q1 = a \div b
  BY SMT
<1>2. PICK q2 \in Nat : q2 = q1 \div b
  BY SMT
<1>3. PICK q3 \in Nat : q3 = q2 \div b
  BY SMT
<1>4. a \div (b * b) = q2
  BY <1>1, <1>2, SMT
<1>5. a \div ((b * b) * b) = q3
  <2>1. PICK c \in Nat : c = b * b /\ c > 0
    BY SMT
  <2>2. (a \div c) \div b = a \div (c * b)
    BY <2>1, SMT
  <2> QED BY <1>3, <1>4, <2>1, <2>2
<1>6. a = (b * q1) + (a % b) /\ q1 = (b * q2) + (q1 % b) /\ q2 = (b * q3) + (q2 % b)
  BY <1>1, <1>2, <1>3, SMT
<1>7. q3 % n = q3
  <2>1. q3 < n
    <3>1. PICK c \in Nat : c = (b * b) * b /\ c > 0
      BY SMT
    <3>2. a = (c * q3) + (a % c) /\ a % c >= 0
      BY <1>5, <3>1, SMT
    <3>3. SUFFICES ASSUME q3 >= n PROVE FALSE
      BY SMT
    <3>4. c * q3 >= c * n
      BY <3>1, <3>3, SMT
    <3> QED BY <3>1, <3>2, <3>4, SMT
  <2> QED BY <2>1, SMT
<1>8. PICK r0 \in Nat : r0 = a % b
  BY SMT
<1>9. PICK r1 \in Nat : r1 = q1 % b
  BY SMT
<1>10. PICK r2 \in Nat : r2 = q2 % b
  BY SMT
<1>11. r0 + (b * r1) + ((b * b) * r2) + (((b * b) * b) * q3) = a
  <2>1. b * q1 = (b * (b * q2)) + (b * r1)
    BY <1>6, <1>9, SMT
  <2>2. (b * b) * q2 = ((b * b) * (b * q3)) + ((b * b) * r2)
    BY <1>6, <1>10, SMT
  <2>3. b * (b * q2) = (b * b) * q2 /\ (b * b) * (b * q3) = ((b * b) * b) * q3
    BY SMT
  <2> QED BY <1>6, <1>8, <2>1, <2>2, <2>3, SMT
<1> QED BY <1>1, <1>2, <1>4, <1>5, <1>7, <1>8, <1>9, <1>10, <1>11

\* The bases, and what the registers count for.
LEMMA Weights ==
  ASSUME Disk!ConstantsAssumption
  PROVE  /\ ByteBase \in Nat /\ ByteBase > 0 /\ NibbleBase \in Nat /\ NibbleBase > 0
         /\ MaxSectors \in Nat /\ MaxSectors > 0
         /\ Disk!Weight[1] = 1 /\ Disk!Weight[2] = ByteBase /\ Disk!Weight[3] = ByteBase * ByteBase
         /\ Disk!Weight[4] = (ByteBase * ByteBase) * ByteBase
         /\ Disk!Capacity = ((ByteBase * ByteBase) * ByteBase) * NibbleBase
         /\ Disk!Capacity \in Nat
BY SMT DEF Disk!ConstantsAssumption, Disk!Weight, Disk!Capacity

\* The registers that a drive is at an address with (drive.c:27-31).
At(address) == Append(Disk!Registers(address), Disk!TopNibble(address))

\* They are bytes and a nibble, and they stand for the address.
LEMMA AddressStands ==
  ASSUME Disk!ConstantsAssumption, NEW address \in DiskAddresses
  PROVE  /\ address \in Nat
         /\ \A k \in 1 .. 3 : Disk!Byte(address, k) \in 0 .. (ByteBase - 1)
         /\ Disk!TopNibble(address) \in 0 .. (NibbleBase - 1)
         /\ Disk!Byte(address, 1) + (Disk!Weight[2] * Disk!Byte(address, 2))
              + (Disk!Weight[3] * Disk!Byte(address, 3))
              + (Disk!Weight[4] * Disk!TopNibble(address)) = address
<1>1. address \in Nat /\ address < Disk!Capacity
  BY Weights DEF Disk!ConstantsAssumption
<1>2. /\ Disk!Byte(address, 1) = address % ByteBase
      /\ Disk!Byte(address, 2) = (address \div ByteBase) % ByteBase
      /\ Disk!Byte(address, 3) = (address \div (ByteBase * ByteBase)) % ByteBase
      /\ Disk!TopNibble(address) = (address \div ((ByteBase * ByteBase) * ByteBase)) % NibbleBase
  <2>1. address \div 1 = address
    BY <1>1, SMT
  <2>2. Disk!Byte(address, 1) = address % ByteBase
    BY <2>1, Weights DEF Disk!Byte
  <2>3. Disk!Byte(address, 2) = (address \div ByteBase) % ByteBase
    BY Weights DEF Disk!Byte
  <2>4. Disk!Byte(address, 3) = (address \div (ByteBase * ByteBase)) % ByteBase
    BY Weights DEF Disk!Byte
  <2>5. Disk!TopNibble(address) = (address \div ((ByteBase * ByteBase) * ByteBase)) % NibbleBase
    BY Weights DEF Disk!TopNibble
  <2> QED BY <2>2, <2>3, <2>4, <2>5
<1>3. (address % ByteBase) + (ByteBase * ((address \div ByteBase) % ByteBase))
        + ((ByteBase * ByteBase) * ((address \div (ByteBase * ByteBase)) % ByteBase))
        + (((ByteBase * ByteBase) * ByteBase) * ((address \div ((ByteBase * ByteBase) * ByteBase)) % NibbleBase))
        = address
  BY <1>1, Weights, Composed
<1>4. ASSUME NEW w \in Nat, w > 0, NEW m \in Nat, m > 0
      PROVE  (address \div w) % m \in 0 .. (m - 1)
  <2>1. PICK quotient \in Nat : quotient = address \div w
    BY <1>1, <1>4, SMT
  <2> QED BY <1>4, <2>1, SMT
<1>5. /\ Disk!Weight[1] \in Nat /\ Disk!Weight[1] > 0 /\ Disk!Weight[2] \in Nat /\ Disk!Weight[2] > 0
      /\ Disk!Weight[3] \in Nat /\ Disk!Weight[3] > 0 /\ Disk!Weight[4] \in Nat /\ Disk!Weight[4] > 0
  BY Weights, SMT
<1>6. \A k \in 1 .. 3 : Disk!Byte(address, k) \in 0 .. (ByteBase - 1)
  <2>1. ASSUME NEW k \in 1 .. 3
        PROVE  Disk!Byte(address, k) \in 0 .. (ByteBase - 1)
    <3>1. Disk!Weight[k] \in Nat /\ Disk!Weight[k] > 0
      BY <1>5
    <3> QED BY <1>4, <3>1, Weights DEF Disk!Byte
  <2> QED BY <2>1
<1>7. Disk!TopNibble(address) \in 0 .. (NibbleBase - 1)
  BY <1>4, <1>5, Weights DEF Disk!TopNibble
<1> QED BY <1>1, <1>2, <1>3, <1>6, <1>7, Weights

\* A call stays within the memory and the disk.
LEMMA InPlace ==
  ASSUME Disk!ConstantsAssumption, NEW address \in DiskAddresses, NEW n \in 0 .. MaxSectors,
         n < MaxSectors
  PROVE  address + n \in Disk!Sectors
<1>1. address \in 0 .. (Disk!Capacity - MaxSectors)
  BY DEF Disk!ConstantsAssumption
<1>2. address + n \in address .. (address + MaxSectors - 1)
  BY <1>1, Weights
<1> QED BY <1>1, <1>2 DEF Disk!Sectors

\* What is known of the driver and the drive between any two steps.  During a
\* transfer the registers hold the address of the call, but for a write the
\* number of the drive in place of the top bits (drive.c:51).
DriveTypes ==
  /\ DriveNumber \in Nat
  /\ buffer \in [Disk!Places -> Disk!Contents]
  /\ platter \in [Disk!Sectors -> Disk!Contents] /\ written \in [Disk!Sectors -> Disk!Contents]
  /\ transfer \in {"none", "read", "write"} /\ at \in {"start", "transfer"}
  /\ location \in Nat /\ number_of_sectors \in 1 .. MaxSectors /\ linear_block_address \in Nat
  /\ location + number_of_sectors <= MaxSectors + 1
  /\ transfer # "none" => linear_block_address \in DiskAddresses
  /\ sector \in 0 .. MaxSectors
  /\ device \in {"idle", "busy", "ready", "error"}
  /\ misplaced \in BOOLEAN

RegistersTyped ==
  /\ \A n \in 1 .. 3 : registers[n] \in 0 .. (ByteBase - 1)
  /\ registers[4] \in 0 .. (NibbleBase - 1)

UnderWay ==
  at = "transfer" =>
    /\ transfer # "none"
    /\ sector < number_of_sectors
    /\ registers = Append(Disk!Registers(linear_block_address), Disk!DriveBits)

DriveInv == DriveTypes /\ RegistersTyped /\ UnderWay /\ Disk!DiskAsWritten /\ Disk!RunsAgree

\* The registers hold an address whose top bits are some others.
Hold(loaded, address, top) ==
  /\ loaded[1] = Disk!Byte(address, 1)
  /\ loaded[2] = Disk!Byte(address, 2)
  /\ loaded[3] = Disk!Byte(address, 3)
  /\ loaded[4] = top

\* The registers after the command, for reads and writes (drive.c:25-33, 50-56).
LEMMA Loads ==
  ASSUME NEW address, NEW top
  PROVE  Hold(Append(Disk!Registers(address), top), address, top)
BY DEF Disk!Registers, Hold

\* Its last register is a nibble, be it of the address or of the number.
LEMMA TopBits ==
  ASSUME Disk!ConstantsAssumption, DriveTypes
  PROVE  Disk!DriveBits \in 0 .. (NibbleBase - 1)
<1>1. CASE transfer = "read"
  <2>1. Disk!DriveBits = Disk!TopNibble(linear_block_address) /\ linear_block_address \in DiskAddresses
    BY <1>1 DEF Disk!DriveBits, DriveTypes
  <2> QED BY <2>1, AddressStands
<1>2. CASE transfer # "read"
  <2>1. Disk!DriveBits = DriveNumber % NibbleBase
    BY <1>2 DEF Disk!DriveBits
  <2>2. DriveNumber \in Nat
    BY DEF DriveTypes
  <2>3. DriveNumber % NibbleBase \in 0 .. (NibbleBase - 1)
    BY <2>2, Weights
  <2> QED BY <2>1, <2>3
<1> QED BY <1>1, <1>2

\* A transfer with the top bits of its address is one of the sector meant.
LEMMA SectorMeant ==
  ASSUME Disk!ConstantsAssumption, DriveInv, at = "transfer",
         Disk!DriveBits = Disk!TopNibble(linear_block_address)
  PROVE  Disk!Sector = linear_block_address + sector
<1>1. linear_block_address \in DiskAddresses
  BY DEF DriveInv, DriveTypes, UnderWay
<1>2. /\ registers[1] = Disk!Byte(linear_block_address, 1)
      /\ registers[2] = Disk!Byte(linear_block_address, 2)
      /\ registers[3] = Disk!Byte(linear_block_address, 3)
      /\ registers[4] = Disk!TopNibble(linear_block_address)
  <2>1. registers = Append(Disk!Registers(linear_block_address), Disk!DriveBits)
    BY DEF DriveInv, UnderWay
  <2>2. Hold(registers, linear_block_address, Disk!DriveBits)
    BY <2>1, Loads
  <2> QED BY <2>2 DEF Hold
<1>3. Disk!FirstSector = linear_block_address
  BY <1>1, <1>2, AddressStands DEF Disk!FirstSector
<1> QED BY <1>3 DEF Disk!Sector

\* A caller's arguments are taken (drive.c:24, 48).
LEMMA Called ==
  ASSUME Disk!ConstantsAssumption, DriveInv, NEW function \in {"read", "write"}, Disk!Call(function)
  PROVE  DriveInv'
<1>1. DriveTypes'
  <2>1. linear_block_address' \in DiskAddresses /\ linear_block_address' \in Nat
    BY AddressStands DEF Disk!Call
  <2>2. PICK number \in 1 .. MaxSectors : number = number_of_sectors'
    BY DEF Disk!Call
  <2>3. location' \in Nat /\ location' + number_of_sectors' <= MaxSectors + 1
    <3>1. location' \in 0 .. (MaxSectors + 1 - number)
      BY <2>2 DEF Disk!Call
    <3>2. PICK place \in 0 .. (MaxSectors + 1 - number) : place = location'
      BY <3>1
    <3>3. place \in Nat /\ place + number <= MaxSectors + 1
      BY <2>2, <3>2, Weights
    <3> QED BY <2>2, <3>2, <3>3
  <2> QED BY <2>1, <2>2, <2>3 DEF Disk!Call, Disk!fsVars, DriveInv, DriveTypes
<1>2. RegistersTyped' /\ UnderWay' /\ Disk!DiskAsWritten' /\ Disk!RunsAgree'
  BY DEF Disk!Call, Disk!fsVars, DriveInv, RegistersTyped, UnderWay, Disk!DiskAsWritten, Disk!RunsAgree
<1> QED BY <1>1, <1>2 DEF DriveInv

\* The registers are set and the command is given (drive.c:25-33, 49-56).
LEMMA Ordered ==
  ASSUME Disk!ConstantsAssumption, DriveInv, Disk!Command
  PROVE  DriveInv'
<1>1. /\ transfer # "none" /\ at' = "transfer" /\ sector' = 0 /\ device' = "busy"
      /\ registers' = Append(Disk!Registers(linear_block_address), Disk!DriveBits)
      /\ UNCHANGED <<DriveNumber, buffer, platter, transfer, location, linear_block_address,
                     number_of_sectors, calls, written, misplaced>>
  BY DEF Disk!Command, Disk!fsVars, Disk!args, Disk!history
<1>2. DriveTypes'
  BY <1>1, Weights DEF DriveInv, DriveTypes
<1>3. RegistersTyped'
  <2>1. Hold(registers', linear_block_address, Disk!DriveBits)
    BY <1>1, Loads
  <2>2. linear_block_address \in DiskAddresses /\ Disk!DriveBits \in 0 .. (NibbleBase - 1)
    BY <1>1, TopBits DEF DriveInv, DriveTypes
  <2>3. \A n \in 1 .. 3 : Disk!Byte(linear_block_address, n) \in 0 .. (ByteBase - 1)
    BY <2>2, AddressStands
  <2> QED BY <2>1, <2>2, <2>3 DEF Hold, RegistersTyped
<1>4. UnderWay'
  <2>1. Disk!DriveBits' = Disk!DriveBits
    BY <1>1 DEF Disk!DriveBits, Disk!TopNibble
  <2>2. sector' < number_of_sectors'
    BY <1>1 DEF DriveInv, DriveTypes
  <2> QED BY <1>1, <2>1, <2>2 DEF UnderWay
<1>5. Disk!DiskAsWritten' /\ Disk!RunsAgree'
  BY <1>1 DEF DriveInv, Disk!DiskAsWritten, Disk!RunsAgree
<1> QED BY <1>2, <1>3, <1>4, <1>5 DEF DriveInv

\* What the transfer of a sector leaves alone and what it moves on.
LEMMA MovedOn ==
  ASSUME Disk!ConstantsAssumption, DriveInv, Disk!Transferred,
         UNCHANGED DriveNumber,
         buffer' \in [Disk!Places -> Disk!Contents],
         platter' \in [Disk!Sectors -> Disk!Contents], written' \in [Disk!Sectors -> Disk!Contents],
         misplaced' \in BOOLEAN
  PROVE  DriveTypes' /\ RegistersTyped' /\ UnderWay'
<1>1. /\ sector' = sector + 1 /\ device' = "busy" /\ at = "transfer"
      /\ UNCHANGED <<registers, location, linear_block_address, number_of_sectors>>
      /\ \/ sector + 1 < number_of_sectors /\ transfer' = transfer /\ at' = at
         \/ transfer' = "none" /\ at' = "start"
  BY DEF Disk!Transferred, Disk!args
<1>2. sector + 1 \in 0 .. MaxSectors
  <2>1. sector \in 0 .. MaxSectors /\ number_of_sectors \in 1 .. MaxSectors /\ sector < number_of_sectors
    BY <1>1 DEF DriveInv, DriveTypes, UnderWay
  <2> QED BY <2>1, Weights
<1>3. DriveTypes'
  BY <1>1, <1>2 DEF DriveInv, DriveTypes
<1>4. RegistersTyped'
  BY <1>1 DEF DriveInv, RegistersTyped
<1>5. UnderWay'
  <2>1. CASE at' = "start"
    BY <2>1 DEF UnderWay
  <2>2. CASE at' # "start"
    <3>1. transfer' = transfer /\ sector' < number_of_sectors'
      BY <1>1, <2>2
    <3>2. Disk!DriveBits' = Disk!DriveBits
      BY <1>1, <3>1 DEF Disk!DriveBits, Disk!TopNibble
    <3> QED BY <1>1, <3>1, <3>2 DEF DriveInv, UnderWay
  <2> QED BY <2>1, <2>2
<1> QED BY <1>3, <1>4, <1>5

\* The places of a transfer: in memory, and on the disk where it was meant.
LEMMA Reached ==
  ASSUME Disk!ConstantsAssumption, DriveInv, at = "transfer"
  PROVE  /\ location + sector \in Disk!Places
         /\ linear_block_address + sector \in Disk!Sectors
         /\ sector \in Nat /\ linear_block_address \in Nat /\ location \in Nat
         /\ \A n \in 0 .. (sector - 1) : linear_block_address + n \in Disk!Sectors
<1>1. /\ sector \in 0 .. MaxSectors /\ number_of_sectors \in 1 .. MaxSectors /\ sector < number_of_sectors
      /\ location \in Nat /\ location + number_of_sectors <= MaxSectors + 1
      /\ linear_block_address \in DiskAddresses
  BY DEF DriveInv, DriveTypes, UnderWay
<1>2. location + sector \in Disk!Places
  BY <1>1, Weights DEF Disk!Places
<1>3. sector < MaxSectors
  BY <1>1, Weights
<1>4. linear_block_address + sector \in Disk!Sectors
  BY <1>1, <1>3, InPlace
<1>5. ASSUME NEW n \in 0 .. (sector - 1)
      PROVE  linear_block_address + n \in Disk!Sectors
  <2>1. n \in 0 .. MaxSectors /\ n < MaxSectors
    BY <1>1, <1>3, Weights
  <2> QED BY <1>1, <2>1, InPlace
<1>6. linear_block_address \in Nat
  BY <1>1, AddressStands
<1> QED BY <1>1, <1>2, <1>4, <1>5, <1>6

\* A sector is read (drive.c:35-45).
LEMMA SectorRead ==
  ASSUME Disk!ConstantsAssumption, DriveInv, Disk!disk_read_from
  PROVE  DriveInv'
<1>1. /\ transfer = "read" /\ at = "transfer" /\ sector' = sector + 1 /\ Disk!Transferred
      /\ UNCHANGED <<DriveNumber, location, linear_block_address, platter, written, misplaced>>
      /\ buffer' = [buffer EXCEPT ![location + sector] = platter[Disk!Sector]]
  BY DEF Disk!disk_read_from, Disk!Transferred, Disk!args, Disk!fsVars
<1>2. Disk!Sector = linear_block_address + sector
  BY <1>1, SectorMeant DEF Disk!DriveBits
<1>3. /\ location + sector \in Disk!Places /\ linear_block_address + sector \in Disk!Sectors
      /\ sector \in Nat /\ location \in Nat
  BY <1>1, Reached
<1>4. buffer \in [Disk!Places -> Disk!Contents] /\ platter \in [Disk!Sectors -> Disk!Contents]
      /\ written \in [Disk!Sectors -> Disk!Contents] /\ misplaced \in BOOLEAN
  BY DEF DriveInv, DriveTypes
<1>5. buffer' \in [Disk!Places -> Disk!Contents]
  BY <1>1, <1>2, <1>3, <1>4
<1>6. DriveTypes' /\ RegistersTyped' /\ UnderWay'
  BY <1>1, <1>4, <1>5, MovedOn
<1>7. Disk!DiskAsWritten'
  BY <1>1 DEF DriveInv, Disk!DiskAsWritten
<1>8. ASSUME ~misplaced, NEW n \in 0 .. sector
      PROVE  buffer'[location + n] = platter[linear_block_address + n]
  <2>1. CASE n = sector
    BY <1>1, <1>2, <1>3, <1>4, <2>1
  <2>2. CASE n # sector
    <3>1. n \in 0 .. (sector - 1) /\ location + n # location + sector
      BY <1>3, <1>8, <2>2
    <3>2. buffer[location + n] = platter[linear_block_address + n]
      BY <1>1, <1>8, <3>1 DEF DriveInv, Disk!RunsAgree
    <3>3. buffer'[location + n] = buffer[location + n]
      BY <1>1, <1>4, <3>1
    <3> QED BY <3>2, <3>3
  <2> QED BY <2>1, <2>2
<1>9. Disk!RunsAgree'
  <2>1. 0 .. (sector' - 1) = 0 .. sector
    BY <1>1, <1>3
  <2> QED BY <1>1, <1>8, <2>1 DEF Disk!RunsAgree
<1> QED BY <1>6, <1>7, <1>9 DEF DriveInv

\* A sector is written (drive.c:57-66), where it was meant unless the number of
\* the drive took the place of the top bits.
LEMMA SectorWritten ==
  ASSUME Disk!ConstantsAssumption, DriveInv, Disk!disk_write_to
  PROVE  DriveInv'
<1>1. /\ transfer = "write" /\ at = "transfer" /\ sector' = sector + 1 /\ Disk!Transferred
      /\ UNCHANGED <<DriveNumber, location, linear_block_address, buffer>>
      /\ platter' = [platter EXCEPT ![Disk!Sector] = buffer[location + sector]]
      /\ written' = [written EXCEPT ![linear_block_address + sector] = buffer[location + sector]]
      /\ misplaced' = (misplaced \/ Disk!DriveBits # Disk!TopNibble(linear_block_address))
  BY DEF Disk!disk_write_to, Disk!Transferred, Disk!args, Disk!fsVars
<1>2. /\ location + sector \in Disk!Places /\ linear_block_address + sector \in Disk!Sectors
      /\ sector \in Nat /\ location \in Nat /\ linear_block_address \in Nat
      /\ \A n \in 0 .. (sector - 1) : linear_block_address + n \in Disk!Sectors
  BY <1>1, Reached
<1>3. buffer \in [Disk!Places -> Disk!Contents] /\ platter \in [Disk!Sectors -> Disk!Contents]
      /\ written \in [Disk!Sectors -> Disk!Contents] /\ misplaced \in BOOLEAN
  BY DEF DriveInv, DriveTypes
<1>4. /\ platter' \in [Disk!Sectors -> Disk!Contents] /\ written' \in [Disk!Sectors -> Disk!Contents]
      /\ misplaced' \in BOOLEAN
  BY <1>1, <1>2, <1>3
<1>5. DriveTypes' /\ RegistersTyped' /\ UnderWay'
  BY <1>1, <1>3, <1>4, MovedOn
<1>6. ~misplaced' => ~misplaced /\ Disk!Sector = linear_block_address + sector
  BY <1>1, SectorMeant
<1>7. Disk!DiskAsWritten'
  BY <1>1, <1>6 DEF DriveInv, Disk!DiskAsWritten
<1>8. ASSUME ~misplaced', NEW n \in 0 .. sector
      PROVE  buffer[location + n] = platter'[linear_block_address + n]
  <2>1. CASE n = sector
    BY <1>1, <1>2, <1>3, <1>6, <1>8, <2>1
  <2>2. CASE n # sector
    <3>1. n \in 0 .. (sector - 1) /\ linear_block_address + n # linear_block_address + sector
      BY <1>2, <1>8, <2>2
    <3>2. buffer[location + n] = platter[linear_block_address + n]
      BY <1>1, <1>6, <1>8, <3>1 DEF DriveInv, Disk!RunsAgree
    <3>3. platter'[linear_block_address + n] = platter[linear_block_address + n]
      BY <1>1, <1>2, <1>3, <1>6, <1>8, <3>1
    <3> QED BY <3>2, <3>3
  <2> QED BY <2>1, <2>2
<1>9. Disk!RunsAgree'
  <2>1. 0 .. (sector' - 1) = 0 .. sector
    BY <1>1, <1>2
  <2> QED BY <1>1, <1>8, <2>1 DEF Disk!RunsAgree
<1> QED BY <1>5, <1>7, <1>9 DEF DriveInv

\* The drive on its own changes only whether it is ready.
LEMMA DriveAlone ==
  ASSUME DriveInv, device' \in {"idle", "busy", "ready", "error"},
         UNCHANGED <<DriveNumber, buffer, platter, transfer, at, location, linear_block_address,
                     number_of_sectors, sector, registers, written, misplaced>>
  PROVE  DriveInv'
<1>1. DriveTypes' /\ RegistersTyped'
  BY DEF DriveInv, DriveTypes, RegistersTyped
<1>2. UnderWay'
  BY DEF DriveInv, UnderWay, Disk!DriveBits, Disk!TopNibble
<1>3. Disk!DiskAsWritten' /\ Disk!RunsAgree'
  BY DEF DriveInv, Disk!DiskAsWritten, Disk!RunsAgree
<1> QED BY <1>1, <1>2, <1>3 DEF DriveInv

\* In whatever order callers read and write, whatever the drive answers.
LEMMA DriveInvariance ==
  Disk!ConstantsAssumption => (Disk!Spec => []DriveInv)
<1> SUFFICES ASSUME Disk!ConstantsAssumption
             PROVE  Disk!Spec => []DriveInv
  OBVIOUS
<1>1. Disk!Init => DriveInv
  <2> SUFFICES ASSUME Disk!Init
               PROVE  DriveInv
    OBVIOUS
  <2>1. DriveTypes
    <3>1. 0 \in Disk!Contents /\ \A p \in Disk!Places : p + 1 \in Disk!Contents
      BY Weights DEF Disk!Contents, Disk!Places
    <3>2. buffer \in [Disk!Places -> Disk!Contents]
      BY <3>1 DEF Disk!Init
    <3>3. platter \in [Disk!Sectors -> Disk!Contents] /\ written = platter
      BY <3>1 DEF Disk!Init
    <3>4. 1 \in 1 .. MaxSectors /\ 0 \in 0 .. MaxSectors /\ 0 + 1 <= MaxSectors + 1
      BY Weights
    <3>5. DriveNumber \in Nat
      BY DEF Disk!Init, Disk!ConstantsAssumption
    <3> QED BY <3>2, <3>3, <3>4, <3>5 DEF Disk!Init, DriveTypes
  <2>2. RegistersTyped
    BY Weights DEF Disk!Init, RegistersTyped
  <2> QED BY <2>1, <2>2 DEF Disk!Init, DriveInv, UnderWay, Disk!DiskAsWritten, Disk!RunsAgree
<1>2. DriveInv /\ [Disk!Next]_(Disk!vars) => DriveInv'
  <2> SUFFICES ASSUME DriveInv, [Disk!Next]_(Disk!vars)
               PROVE  DriveInv'
    OBVIOUS
  <2>1. CASE Disk!Command
    BY <2>1, Ordered
  <2>2. CASE Disk!disk_read_from
    BY <2>2, SectorRead
  <2>3. CASE Disk!disk_write_to
    BY <2>3, SectorWritten
  <2>4. CASE Disk!Device
    BY <2>4, DriveAlone DEF Disk!Device, Disk!fsVars, Disk!args, Disk!history
  <2>5. ASSUME NEW function \in {"read", "write"}, Disk!Call(function)
        PROVE  DriveInv'
    BY <2>5, Called
  <2>6. CASE UNCHANGED Disk!vars
    <3>1. device \in {"idle", "busy", "ready", "error"}
      BY DEF DriveInv, DriveTypes
    <3> QED BY <2>6, <3>1, DriveAlone DEF Disk!vars, Disk!fsVars, Disk!args, Disk!history
  <2> QED BY <2>1, <2>2, <2>3, <2>4, <2>5, <2>6 DEF Disk!Next, Disk!Code
<1> QED BY <1>1, <1>2, PTL DEF Disk!Spec

\* The disk holds what was written where it was written, and calls transfer runs
\* in order between the addresses they were given, until the first write whose
\* address has other top bits than the number of the drive (drive.c:24-68).
LEMMA DiskAlone ==
  Disk!ConstantsAssumption => (Disk!Spec => []Disk!DiskSafe)
<1> SUFFICES ASSUME Disk!ConstantsAssumption
             PROVE  Disk!Spec => []Disk!DiskSafe
  OBVIOUS
<1>1. DriveInv => Disk!DiskSafe
  BY DEF DriveInv, DriveTypes, RegistersTyped, Disk!DiskSafe, Disk!TypeOK
<1> QED BY <1>1, DriveInvariance, PTL

------------------------------------------------------------------------------
(***************************************************************************)
(* The heap: HeapProofs speaks of it under names of its own.  Everything   *)
(* those say is what the services say, from the helpers up to the steps.   *)
(***************************************************************************)
HeapFacts == INSTANCE HeapProofs WITH state <- list

\* The constants of the heap are as HeapProofs assumes them.
LEMMA HeapAssumption == Malloc!ConstantsAssumption => HeapFacts!ConstantsAssumption
BY DEF Malloc!ConstantsAssumption, HeapFacts!ConstantsAssumption,
   Malloc!PagesFor, HeapFacts!PagesFor

\* Headers, and what writes them (virtual_memory_manager.c:121-145, 201-211).
LEMMA SameHeaders ==
  /\ \A size, free, next : Malloc!Header(size, free, next) = HeapFacts!Header(size, free, next)
  /\ \A blocks, a, header : Malloc!Put(blocks, a, header) = HeapFacts!Put(blocks, a, header)
  /\ \A blocks, a, size :
       Malloc!vmm_malloc_split(blocks, a, size) = HeapFacts!vmm_malloc_split(blocks, a, size)
  /\ \A blocks, a : Malloc!Absorb(blocks, a) = HeapFacts!Absorb(blocks, a)
<1>1. \A size, free, next : Malloc!Header(size, free, next) = HeapFacts!Header(size, free, next)
  BY DEF Malloc!Header, HeapFacts!Header
<1>2. \A blocks, a, header : Malloc!Put(blocks, a, header) = HeapFacts!Put(blocks, a, header)
  BY DEF Malloc!Put, HeapFacts!Put
<1>3. \A blocks, a, size :
        Malloc!vmm_malloc_split(blocks, a, size) = HeapFacts!vmm_malloc_split(blocks, a, size)
  BY <1>1, <1>2 DEF Malloc!vmm_malloc_split, HeapFacts!vmm_malloc_split
<1>4. \A blocks, a : Malloc!Absorb(blocks, a) = HeapFacts!Absorb(blocks, a)
  BY <1>1 DEF Malloc!Absorb, HeapFacts!Absorb
<1> QED BY <1>1, <1>2, <1>3, <1>4

\* The walk of line 150, the pages of lines 156-161, the block before another.
LEMMA SameSearches ==
  /\ \A size : Malloc!Found(size) = HeapFacts!Found(size)
  /\ \A size : Malloc!PagesFor(size) = HeapFacts!PagesFor(size)
  /\ \A a, size : Malloc!AdditionalPages(a, size) = HeapFacts!AdditionalPages(a, size)
  /\ \A a : Malloc!Before(a) = HeapFacts!Before(a)
  /\ \A S : Malloc!Min(S) = HeapFacts!Min(S) /\ Malloc!Max(S) = HeapFacts!Max(S)
<1>1. \A size : Malloc!Found(size) = HeapFacts!Found(size)
  BY DEF Malloc!Found, HeapFacts!Found, Malloc!malloc_head, HeapFacts!malloc_head
<1>2. \A size : Malloc!PagesFor(size) = HeapFacts!PagesFor(size)
  BY DEF Malloc!PagesFor, HeapFacts!PagesFor
<1>3. \A S : Malloc!Min(S) = HeapFacts!Min(S) /\ Malloc!Max(S) = HeapFacts!Max(S)
  BY DEF Malloc!Min, HeapFacts!Min, Malloc!Max, HeapFacts!Max
<1>4. \A a, size : Malloc!AdditionalPages(a, size) = HeapFacts!AdditionalPages(a, size)
  BY <1>2, <1>3 DEF Malloc!AdditionalPages, HeapFacts!AdditionalPages
<1>5. \A a : Malloc!Before(a) = HeapFacts!Before(a)
  BY DEF Malloc!Before, HeapFacts!Before
<1> QED BY <1>1, <1>2, <1>3, <1>4, <1>5

\* What an allocation does (virtual_memory_manager.c:116-179).
LEMMA SameAllocations ==
  /\ \A size : Malloc!vmm_malloc_init(size) => HeapFacts!vmm_malloc_init(size)
  /\ \A size : Malloc!TakeBlock(size) => HeapFacts!TakeBlock(size)
  /\ \A size : Malloc!GrowHeap(size) => HeapFacts!GrowHeap(size)
  /\ Malloc!CutGrown => HeapFacts!CutGrown
  /\ Malloc!CutNew => HeapFacts!CutNew
<1>1. \A size : Malloc!vmm_malloc_init(size) => HeapFacts!vmm_malloc_init(size)
  BY SameHeaders, SameSearches DEF Malloc!vmm_malloc_init, HeapFacts!vmm_malloc_init,
     Malloc!malloc_head, HeapFacts!malloc_head
<1>2. \A size : Malloc!TakeBlock(size) => HeapFacts!TakeBlock(size)
  BY SameHeaders, SameSearches DEF Malloc!TakeBlock, HeapFacts!TakeBlock,
     Malloc!At, HeapFacts!At
<1>3. \A size : Malloc!GrowHeap(size) => HeapFacts!GrowHeap(size)
  BY SameHeaders, SameSearches DEF Malloc!GrowHeap, HeapFacts!GrowHeap,
     Malloc!At, HeapFacts!At, Malloc!End, HeapFacts!End
<1>4. Malloc!CutGrown => HeapFacts!CutGrown
  BY SameHeaders DEF Malloc!CutGrown, HeapFacts!CutGrown,
     Malloc!At, HeapFacts!At, Malloc!Idle, HeapFacts!Idle
<1>5. Malloc!CutNew => HeapFacts!CutNew
  BY SameHeaders, SameSearches DEF Malloc!CutNew, HeapFacts!CutNew,
     Malloc!At, HeapFacts!At, Malloc!Idle, HeapFacts!Idle
<1> QED BY <1>1, <1>2, <1>3, <1>4, <1>5

\* What a free and a defragmentation do (virtual_memory_manager.c:181-216).
LEMMA SameMerges ==
  /\ \A a, size : Malloc!vmm_malloc_free(a, size) => HeapFacts!vmm_malloc_free(a, size)
  /\ Malloc!MergeNext => HeapFacts!MergeNext
  /\ Malloc!vmm_malloc_defrag => HeapFacts!vmm_malloc_defrag
  /\ Malloc!DefragStep => HeapFacts!DefragStep
<1>1. \A a, size : Malloc!vmm_malloc_free(a, size) => HeapFacts!vmm_malloc_free(a, size)
  BY SameHeaders, SameSearches DEF Malloc!vmm_malloc_free, HeapFacts!vmm_malloc_free,
     Malloc!At, HeapFacts!At
<1>2. Malloc!MergeNext => HeapFacts!MergeNext
  BY SameHeaders DEF Malloc!MergeNext, HeapFacts!MergeNext,
     Malloc!At, HeapFacts!At, Malloc!Mergeable, HeapFacts!Mergeable
<1>3. Malloc!vmm_malloc_defrag => HeapFacts!vmm_malloc_defrag
  BY DEF Malloc!vmm_malloc_defrag, HeapFacts!vmm_malloc_defrag,
     Malloc!At, HeapFacts!At, Malloc!malloc_head, HeapFacts!malloc_head
<1>4. Malloc!DefragStep => HeapFacts!DefragStep
  BY SameHeaders DEF Malloc!DefragStep, HeapFacts!DefragStep, Malloc!At, HeapFacts!At
<1> QED BY <1>1, <1>2, <1>3, <1>4

\* The list that HeapProofs calls intact is intact.
LEMMA SameIntact == HeapFacts!HeapIntact => Malloc!HeapIntact
BY DEF HeapFacts!HeapIntact, Malloc!HeapIntact, HeapFacts!TypeOK, Malloc!TypeOK,
   HeapFacts!HeapTiled, Malloc!HeapTiled, HeapFacts!OnlyLastLeaks, Malloc!OnlyLastLeaks,
   HeapFacts!NoFreeNeighbours, Malloc!NoFreeNeighbours,
   HeapFacts!NullOnlyAtTheEnd, Malloc!NullOnlyAtTheEnd,
   HeapFacts!InOrder, Malloc!InOrder, HeapFacts!Used, Malloc!Used, HeapFacts!End, Malloc!End

\* The allocator that HeapProofs refines is the allocator of the heap.
LEMMA SameAllocator == HeapFacts!HeapAllocator!Next => Malloc!HeapAllocator!Next
BY DEF HeapFacts!HeapAllocator!Next, Malloc!HeapAllocator!Next,
   HeapFacts!HeapAllocator!Release, Malloc!HeapAllocator!Release,
   HeapFacts!HeapAllocator!Reserve, Malloc!HeapAllocator!Reserve,
   HeapFacts!HeapAllocator!Grant, Malloc!HeapAllocator!Grant,
   HeapFacts!HeapAllocator!GiveBack, Malloc!HeapAllocator!GiveBack,
   HeapFacts!HeapAllocator!Run, Malloc!HeapAllocator!Run,
   HeapFacts!HeapAllocator!OwnedBlocks, Malloc!HeapAllocator!OwnedBlocks,
   HeapFacts!Used, Malloc!Used, HeapFacts!Extent, Malloc!Extent

\* So are the steps of the heap those it keeps to.
LEMMA SameSteps == HeapFacts!HeapSteps => Malloc!HeapSteps
<1>1. HeapFacts!IntactStep <=> Malloc!IntactStep
  BY DEF HeapFacts!IntactStep, Malloc!IntactStep
<1>2. [HeapFacts!IntactStep => HeapFacts!HeapAllocator!Next]_block
        => [Malloc!IntactStep => Malloc!HeapAllocator!Next]_block
  BY <1>1, SameAllocator
<1>3. [list' = "handed_out_twice" =>
         \E last \in HeapFacts!Used :
           /\ block[last].next = 0
           /\ \A b \in HeapFacts!Used \ {last} : block'[b] = block[b]
           /\ \A f \in DOMAIN block \ HeapFacts!Used : block[f].size < block[last].size]_(HeapFacts!vars)
        => [list' = "handed_out_twice" =>
              \E last \in Malloc!Used :
                /\ block[last].next = 0
                /\ \A b \in Malloc!Used \ {last} : block'[b] = block[b]
                /\ \A f \in DOMAIN block \ Malloc!Used : block[f].size < block[last].size]_(Malloc!vars)
  <2>1. HeapFacts!Used = Malloc!Used
    BY DEF HeapFacts!Used, Malloc!Used
  <2>2. HeapFacts!vars' = HeapFacts!vars => Malloc!vars' = Malloc!vars
    BY DEF HeapFacts!vars, Malloc!vars
  <2> QED BY <2>1, <2>2
<1> QED BY <1>2, <1>3, PTL DEF HeapFacts!HeapSteps, Malloc!HeapSteps, HeapFacts!KeepsContract,
     Malloc!KeepsContract, HeapFacts!TwiceOnlyFromLast, Malloc!TwiceOnlyFromLast

------------------------------------------------------------------------------
(***************************************************************************)
(* The screen among the services: its calls are those that ScreenProofs    *)
(* speaks of, operator by operator, with what is drawn as the call it      *)
(* remembers and coordinates as the range of its words.                    *)
(***************************************************************************)

ScreenFacts == INSTANCE ScreenProofs WITH call <- drawn, Word <- CoordinateRange

\* Pixels, glyphs and what is drawn of them (vbe_driver.c:56-67, 99-113).
LEMMA SamePixels ==
  /\ \A x, y : Vbe!Offset(x, y) = ScreenFacts!Offset(x, y)
  /\ \A p, v : Vbe!sc_setpixel(p, v) = ScreenFacts!sc_setpixel(p, v)
  /\ \A f, values : Vbe!Paint(f, values) = ScreenFacts!Paint(f, values)
  /\ \A o : Vbe!InBuffer(o) <=> ScreenFacts!InBuffer(o)
  /\ \A f, x, y, c : Vbe!sc_putch(f, x, y, c) = ScreenFacts!sc_putch(f, x, y, c)
  /\ \A puts : Vbe!Put(puts) <=> ScreenFacts!Put(puts)
<1>1. \A x, y : Vbe!Offset(x, y) = ScreenFacts!Offset(x, y)
  BY Zenon DEF Vbe!Offset, ScreenFacts!Offset
<1>2. \A p, v : Vbe!sc_setpixel(p, v) = ScreenFacts!sc_setpixel(p, v)
  BY Zenon DEF Vbe!sc_setpixel, ScreenFacts!sc_setpixel
<1>3. \A f, values : Vbe!Paint(f, values) = ScreenFacts!Paint(f, values)
  BY <1>2, Zenon DEF Vbe!Paint, ScreenFacts!Paint, Vbe!Pixel, ScreenFacts!Pixel, Vbe!Black,
     ScreenFacts!Black
<1>4. \A o : Vbe!InBuffer(o) <=> ScreenFacts!InBuffer(o)
  BY Zenon DEF Vbe!InBuffer, ScreenFacts!InBuffer, Vbe!SCREEN_BUFFER_SIZE,
     ScreenFacts!SCREEN_BUFFER_SIZE
<1>5. \A f, x, y, c : Vbe!sc_putch(f, x, y, c) = ScreenFacts!sc_putch(f, x, y, c)
  BY DEF Vbe!sc_putch, ScreenFacts!sc_putch, Vbe!Paint, ScreenFacts!Paint, Vbe!Pixel,
     ScreenFacts!Pixel, Vbe!Black, ScreenFacts!Black, Vbe!sc_setpixel, ScreenFacts!sc_setpixel,
     Vbe!InBuffer, ScreenFacts!InBuffer, Vbe!SCREEN_BUFFER_SIZE, ScreenFacts!SCREEN_BUFFER_SIZE,
     Vbe!Offset, ScreenFacts!Offset
<1>6. \A puts : Vbe!Put(puts) <=> ScreenFacts!Put(puts)
  BY <1>5, Zenon DEF Vbe!Put, ScreenFacts!Put
<1> QED BY <1>1, <1>2, <1>3, <1>4, <1>5, <1>6

\* The steps of the cursor and the digits of a byte (vbe_driver.c:84-97, 114-129).
LEMMA SameCursor ==
  /\ \A p, n : Vbe!Advance(p, n) = ScreenFacts!Advance(p, n)
  /\ \A p : Vbe!OffBottom(p) <=> ScreenFacts!OffBottom(p)
  /\ \A p : Vbe!GoOn(p) <=> ScreenFacts!GoOn(p)
  /\ \A p, b : Vbe!sc_print_byte(p, b) = ScreenFacts!sc_print_byte(p, b)
  /\ \A p : Vbe!Blank(p) = ScreenFacts!Blank(p)
<1>1. \A p, n : Vbe!Advance(p, n) = ScreenFacts!Advance(p, n)
  BY Zenon DEF Vbe!Advance, ScreenFacts!Advance
<1>2. \A p : Vbe!OffBottom(p) <=> ScreenFacts!OffBottom(p)
  BY Zenon DEF Vbe!OffBottom, ScreenFacts!OffBottom
<1>3. \A p : Vbe!GoOn(p) <=> ScreenFacts!GoOn(p)
  BY <1>2, Zenon DEF Vbe!GoOn, ScreenFacts!GoOn
<1>4. ASSUME NEW p, NEW b
      PROVE  Vbe!sc_print_byte(p, b) = ScreenFacts!sc_print_byte(p, b)
  <2>1. ScreenFacts!Advance(p, 1) = Vbe!Advance(p, 1)
    BY <1>1, Zenon
  <2>2. ScreenFacts!OffBottom(Vbe!Advance(p, 1)) <=> Vbe!OffBottom(Vbe!Advance(p, 1))
    BY <1>2, Zenon
  <2>3. /\ ScreenFacts!hextoasc(b \div 16) = Vbe!hextoasc(b \div 16)
        /\ ScreenFacts!hextoasc(b % 16) = Vbe!hextoasc(b % 16)
    BY DEF Vbe!hextoasc, ScreenFacts!hextoasc
  <2> QED BY <2>1, <2>2, <2>3 DEF Vbe!sc_print_byte, ScreenFacts!sc_print_byte
<1>5. \A p : Vbe!Blank(p) = ScreenFacts!Blank(p)
  BY Zenon DEF Vbe!Blank, ScreenFacts!Blank
<1> QED BY <1>1, <1>2, <1>3, <1>4, <1>5

\* Texts and dumps (vbe_driver.c:69-98, 130-172).
LEMMA SameText ==
  /\ \A p, text : Vbe!sc_print(p, text) => ScreenFacts!sc_print(p, text)
  /\ \A p, bytes : Vbe!sc_print_hex(p, bytes) => ScreenFacts!sc_print_hex(p, bytes)
  /\ \A p, bytes : Vbe!sc_print_rhex(p, bytes) => ScreenFacts!sc_print_rhex(p, bytes)
  /\ Vbe!PrintChar => ScreenFacts!PrintChar
  /\ Vbe!HexByte => ScreenFacts!HexByte
  /\ Vbe!RhexByte => ScreenFacts!RhexByte
  /\ Vbe!EndText => ScreenFacts!EndText
<1>1. \A p, text : Vbe!sc_print(p, text) => ScreenFacts!sc_print(p, text)
  BY Zenon DEF Vbe!sc_print, ScreenFacts!sc_print, Vbe!StartText, ScreenFacts!StartText,
     Vbe!setUpVars, ScreenFacts!setUpVars
<1>2. \A p, bytes : Vbe!sc_print_hex(p, bytes) => ScreenFacts!sc_print_hex(p, bytes)
  BY Zenon DEF Vbe!sc_print_hex, ScreenFacts!sc_print_hex, Vbe!StartText, ScreenFacts!StartText,
     Vbe!setUpVars, ScreenFacts!setUpVars
<1>3. \A p, bytes : Vbe!sc_print_rhex(p, bytes) => ScreenFacts!sc_print_rhex(p, bytes)
  BY Zenon DEF Vbe!sc_print_rhex, ScreenFacts!sc_print_rhex, Vbe!StartText,
     ScreenFacts!StartText, Vbe!setUpVars, ScreenFacts!setUpVars
<1>4. Vbe!PrintChar => ScreenFacts!PrintChar
  BY SamePixels, SameCursor, Zenon DEF Vbe!PrintChar, ScreenFacts!PrintChar, Vbe!isprint,
     ScreenFacts!isprint, Vbe!setUpVars, ScreenFacts!setUpVars
<1>5. Vbe!HexByte => ScreenFacts!HexByte
  BY SamePixels, SameCursor, Zenon DEF Vbe!HexByte, ScreenFacts!HexByte, Vbe!setUpVars,
     ScreenFacts!setUpVars
<1>6. Vbe!RhexByte => ScreenFacts!RhexByte
  BY SamePixels, SameCursor, Zenon DEF Vbe!RhexByte, ScreenFacts!RhexByte, Vbe!setUpVars,
     ScreenFacts!setUpVars
<1>7. Vbe!EndText => ScreenFacts!EndText
  BY Zenon DEF Vbe!EndText, ScreenFacts!EndText, Vbe!setUpVars, ScreenFacts!setUpVars,
     Vbe!textVars, ScreenFacts!textVars
<1> QED BY <1>1, <1>2, <1>3, <1>4, <1>5, <1>6, <1>7

\* What the other calls draw (vbe_driver.c:56-67, 174-253).
LEMMA SameFrame ==
  /\ \A made, f : Vbe!Draw(made, f) => ScreenFacts!Draw(made, f)
  /\ \A f, x1, y1, x2, y2, color :
       Vbe!Fill(f, x1, y1, x2, y2, color) = ScreenFacts!Fill(f, x1, y1, x2, y2, color)
  /\ \A p, q : Vbe!LinePixels(p, q) = ScreenFacts!LinePixels(p, q)
  /\ \A spot, width, height, v :
       Vbe!ImagePixels(spot, width, height, v) = ScreenFacts!ImagePixels(spot, width, height, v)
  /\ Vbe!MaskWalk = ScreenFacts!MaskWalk
<1>1. \A made, f : Vbe!Draw(made, f) => ScreenFacts!Draw(made, f)
  BY Zenon DEF Vbe!Draw, ScreenFacts!Draw, Vbe!setUpVars, ScreenFacts!setUpVars, Vbe!textVars,
     ScreenFacts!textVars
<1>2. ASSUME NEW f, NEW x1, NEW y1, NEW x2, NEW y2, NEW color
      PROVE  Vbe!Fill(f, x1, y1, x2, y2, color) = ScreenFacts!Fill(f, x1, y1, x2, y2, color)
  <2> DEFINE values == [o \in {Vbe!Offset(x, y) : x \in x1 .. x2, y \in y1 .. y2} |-> color]
             same == [o \in {ScreenFacts!Offset(x, y) : x \in x1 .. x2, y \in y1 .. y2} |-> color]
  <2>1. values = same
    BY DEF Vbe!Offset, ScreenFacts!Offset
  <2>2. Vbe!Fill(f, x1, y1, x2, y2, color) = Vbe!Paint(f, values)
    BY DEF Vbe!Fill
  <2>3. ScreenFacts!Fill(f, x1, y1, x2, y2, color) = ScreenFacts!Paint(f, same)
    BY DEF ScreenFacts!Fill
  <2> HIDE DEF values, same
  <2> QED BY <2>1, <2>2, <2>3, SamePixels, Zenon
<1>3. \A p, q : Vbe!LinePixels(p, q) = ScreenFacts!LinePixels(p, q)
  BY Zenon DEF Vbe!LinePixels, ScreenFacts!LinePixels, Vbe!Walk, ScreenFacts!Walk
<1>4. \A spot, width, height, v :
       Vbe!ImagePixels(spot, width, height, v) = ScreenFacts!ImagePixels(spot, width, height, v)
  BY DEF Vbe!ImagePixels, ScreenFacts!ImagePixels, Vbe!Offset, ScreenFacts!Offset
<1>5. Vbe!MaskWalk = ScreenFacts!MaskWalk
  BY Zenon DEF Vbe!MaskWalk, ScreenFacts!MaskWalk, Vbe!Bit, ScreenFacts!Bit
<1> QED BY <1>1, <1>2, <1>3, <1>4, <1>5

\* The calls that draw (vbe_driver.c:56-67, 174-253).
LEMMA SameShapes ==
  /\ \A p, under, color :
       Vbe!SetPixelTwice(p, under, color) => ScreenFacts!SetPixelTwice(p, under, color)
  /\ \A p, q, color : Vbe!sc_line(p, q, color) => ScreenFacts!sc_line(p, q, color)
  /\ \A p, q, color : Vbe!sc_fill(p, q, color) => ScreenFacts!sc_fill(p, q, color)
  /\ Vbe!sc_clear => ScreenFacts!sc_clear
  /\ \A p, q, thickness, color :
       Vbe!sc_box(p, q, thickness, color) => ScreenFacts!sc_box(p, q, thickness, color)
  /\ \A p, image : Vbe!sc_putimg(p, image) => ScreenFacts!sc_putimg(p, image)
  /\ \A p, image, color1, color2 :
       Vbe!sc_putimg_masked(p, image, color1, color2)
         => ScreenFacts!sc_putimg_masked(p, image, color1, color2)
<1>1. \A p, under, color :
       Vbe!SetPixelTwice(p, under, color) => ScreenFacts!SetPixelTwice(p, under, color)
  BY SamePixels, SameFrame, Zenon DEF Vbe!SetPixelTwice, ScreenFacts!SetPixelTwice
<1>2. \A p, q, color : Vbe!sc_line(p, q, color) => ScreenFacts!sc_line(p, q, color)
  BY SamePixels, SameFrame, Zenon DEF Vbe!sc_line, ScreenFacts!sc_line
<1>3. \A p, q, color : Vbe!sc_fill(p, q, color) => ScreenFacts!sc_fill(p, q, color)
  BY SameFrame, Zenon DEF Vbe!sc_fill, ScreenFacts!sc_fill
<1>4. Vbe!sc_clear => ScreenFacts!sc_clear
  BY SameFrame, Zenon DEF Vbe!sc_clear, ScreenFacts!sc_clear
<1>5. ASSUME NEW p, NEW q, NEW thickness, NEW color, Vbe!sc_box(p, q, thickness, color)
      PROVE  ScreenFacts!sc_box(p, q, thickness, color)
  <2> DEFINE t == thickness - 1
             top    == Vbe!Fill(frame, p[1], p[2], q[1], p[2] + t, color)
             left   == Vbe!Fill(top, p[1], p[2], p[1] + t, q[2], color)
             right  == Vbe!Fill(left, (q[1] - t) % CoordinateRange, p[2], q[1], q[2], color)
             bottom == Vbe!Fill(right, p[1], (q[2] - t) % CoordinateRange, q[1], q[2], color)
             made   == <<"sc_box", p, q, thickness, color>>
  <2>1. Vbe!Draw(made, IF thickness = 0 THEN frame ELSE bottom)
    BY <1>5, Zenon DEF Vbe!sc_box, Vbe!Border
  <2>2. /\ top = ScreenFacts!Fill(frame, p[1], p[2], q[1], p[2] + t, color)
        /\ left = ScreenFacts!Fill(top, p[1], p[2], p[1] + t, q[2], color)
    BY SameFrame, Zenon
  <2>3. /\ right = ScreenFacts!Fill(left, (q[1] - t) % CoordinateRange, p[2], q[1], q[2], color)
        /\ bottom = ScreenFacts!Fill(right, p[1], (q[2] - t) % CoordinateRange, q[1], q[2], color)
    BY SameFrame, Zenon
  <2> HIDE DEF top, left, right, bottom
  <2>4. ScreenFacts!Draw(made, IF thickness = 0 THEN frame ELSE bottom)
    BY <2>1, SameFrame, Zenon
  <2> QED BY <2>2, <2>3, <2>4 DEF ScreenFacts!sc_box, ScreenFacts!Border
<1>6. \A p, image : Vbe!sc_putimg(p, image) => ScreenFacts!sc_putimg(p, image)
  BY SamePixels, SameFrame, Zenon DEF Vbe!sc_putimg, ScreenFacts!sc_putimg
<1>7. ASSUME NEW p, NEW image, NEW color1, NEW color2, Vbe!sc_putimg_masked(p, image, color1, color2)
      PROVE  ScreenFacts!sc_putimg_masked(p, image, color1, color2)
  <2> DEFINE bit(m) == (image.mask[m.word] \div m.r) % 2
             values == [k \in 0 .. (image.width * image.height - 1) |->
                         IF bit(Vbe!MaskWalk[k]) = 1 THEN color1 ELSE color2]
             drawing == Vbe!Paint(frame, Vbe!ImagePixels(p, image.width, image.height, values))
             made == <<"sc_putimg_masked", p, image, color1, color2>>
  <2>1. Vbe!Draw(made, drawing)
    BY <1>7, Zenon DEF Vbe!sc_putimg_masked
  <2>2. values = [k \in 0 .. (image.width * image.height - 1) |->
                   IF bit(ScreenFacts!MaskWalk[k]) = 1 THEN color1 ELSE color2]
    BY SameFrame, Zenon
  <2>3. drawing =
          ScreenFacts!Paint(frame, ScreenFacts!ImagePixels(p, image.width, image.height, values))
    BY SamePixels, SameFrame, Zenon
  <2> HIDE DEF drawing
  <2>4. ScreenFacts!Draw(made, drawing)
    BY <2>1, SameFrame, Zenon
  <2> QED BY <2>2, <2>3, <2>4, Zenon DEF ScreenFacts!sc_putimg_masked
<1> QED BY <1>1, <1>2, <1>3, <1>4, <1>5, <1>6, <1>7

\* The set-up and the colours (vbe_driver.c:16-34).
LEMMA SameSetUp ==
  /\ \A found, foreground, background :
       Vbe!initialize_vbe(found, foreground, background)
         => ScreenFacts!initialize_vbe(found, foreground, background)
  /\ \A c : Vbe!sc_set_foreground(c) => ScreenFacts!sc_set_foreground(c)
  /\ \A c : Vbe!sc_set_background(c) => ScreenFacts!sc_set_background(c)
<1>1. \A found, foreground, background :
       Vbe!initialize_vbe(found, foreground, background)
         => ScreenFacts!initialize_vbe(found, foreground, background)
  BY Zenon DEF Vbe!initialize_vbe, ScreenFacts!initialize_vbe, Vbe!textVars,
     ScreenFacts!textVars
<1>2. \A c : Vbe!sc_set_foreground(c) => ScreenFacts!sc_set_foreground(c)
  BY Zenon DEF Vbe!sc_set_foreground, ScreenFacts!sc_set_foreground, Vbe!textVars,
     ScreenFacts!textVars
<1>3. \A c : Vbe!sc_set_background(c) => ScreenFacts!sc_set_background(c)
  BY Zenon DEF Vbe!sc_set_background, ScreenFacts!sc_set_background, Vbe!textVars,
     ScreenFacts!textVars
<1> QED BY <1>1, <1>2, <1>3

\* The screen driver as ScreenProofs has it.
LEMMA SameScreen ==
  /\ Vbe!ConstantsAssumption => ScreenFacts!ConstantsAssumption
  /\ Vbe!Init => ScreenFacts!Init
  /\ Vbe!Next => ScreenFacts!Next
<1>1. Vbe!ConstantsAssumption => ScreenFacts!ConstantsAssumption
  BY Zenon DEF Vbe!ConstantsAssumption, ScreenFacts!ConstantsAssumption, Vbe!White,
     ScreenFacts!White, Vbe!OpaqueBlack, ScreenFacts!OpaqueBlack, Vbe!PixelValues,
     ScreenFacts!PixelValues
<1>2. Vbe!Init => ScreenFacts!Init
  BY Zenon DEF Vbe!Init, ScreenFacts!Init, Vbe!Black, ScreenFacts!Black
<1>3. Vbe!Next => ScreenFacts!Next
  <2> SUFFICES ASSUME Vbe!Next
               PROVE  ScreenFacts!Next
    OBVIOUS
  <2>1. Vbe!White = ScreenFacts!White /\ Vbe!OpaqueBlack = ScreenFacts!OpaqueBlack
    BY DEF Vbe!White, ScreenFacts!White, Vbe!OpaqueBlack, ScreenFacts!OpaqueBlack
  <2>2. CASE \E found \in BOOLEAN : Vbe!initialize_vbe(found, Vbe!White, Vbe!OpaqueBlack)
    BY <2>1, <2>2, SameSetUp, Zenon DEF ScreenFacts!Next
  <2>3. CASE \/ \E c \in Colors \ {background_color} : Vbe!sc_set_foreground(c)
             \/ \E c \in Colors \ {foreground_color} : Vbe!sc_set_background(c)
    BY <2>3, SameSetUp, Zenon DEF ScreenFacts!Next
  <2>4. CASE \/ \E p \in Corners, s \in Strings : Vbe!sc_print(p, s)
             \/ \E p \in Corners, b \in Dumps : Vbe!sc_print_hex(p, b) \/ Vbe!sc_print_rhex(p, b)
             \/ Vbe!PrintChar \/ Vbe!HexByte \/ Vbe!RhexByte \/ Vbe!EndText
    BY <2>4, SameText, Zenon DEF ScreenFacts!Next
  <2>5. CASE \/ Vbe!sc_clear
             \/ \E under \in Colors \cup Mixed, c \in Mixed : Vbe!SetPixelTwice(<<0, 0>>, under, c)
    BY <2>5, SameShapes, Zenon DEF ScreenFacts!Next
  <2>6. ASSUME NEW p \in Corners, NEW q \in Corners, NEW c \in Colors,
               \/ Vbe!sc_line(p, q, c)
               \/ Vbe!sc_fill(p, q, c)
               \/ \E thickness \in Thicknesses : Vbe!sc_box(p, q, thickness, c)
        PROVE  ScreenFacts!Next
    <3>1. CASE Vbe!sc_line(p, q, c) \/ Vbe!sc_fill(p, q, c)
      <4>1. ScreenFacts!sc_line(p, q, c) \/ ScreenFacts!sc_fill(p, q, c)
        BY <3>1, SameShapes, Zenon
      <4> QED BY <4>1, Zenon DEF ScreenFacts!Next
    <3>2. CASE \E thickness \in Thicknesses : Vbe!sc_box(p, q, thickness, c)
      <4>1. \E thickness \in Thicknesses : ScreenFacts!sc_box(p, q, thickness, c)
        BY <3>2, SameShapes, Zenon
      <4> QED BY <4>1, Zenon DEF ScreenFacts!Next
    <3> QED BY <2>6, <3>1, <3>2
  <2>7. CASE \E p \in Corners, image \in Images :
               /\ p[1] + image.width <= XResolution /\ p[2] + image.height <= YResolution
               /\ \/ Vbe!sc_putimg(p, image)
                  \/ \E c1, c2 \in Colors : c1 # c2 /\ Vbe!sc_putimg_masked(p, image, c1, c2)
    <3>1. PICK p \in Corners, image \in Images :
            /\ p[1] + image.width <= XResolution /\ p[2] + image.height <= YResolution
            /\ \/ Vbe!sc_putimg(p, image)
               \/ \E c1, c2 \in Colors : c1 # c2 /\ Vbe!sc_putimg_masked(p, image, c1, c2)
      BY <2>7, Zenon
    <3>2. \/ ScreenFacts!sc_putimg(p, image)
          \/ \E c1, c2 \in Colors : c1 # c2 /\ ScreenFacts!sc_putimg_masked(p, image, c1, c2)
      BY <3>1, SameShapes, Zenon
    <3> QED BY <3>1, <3>2, Zenon DEF ScreenFacts!Next
  <2>8. CASE \E p, q \in Corners, c \in Colors :
               \/ Vbe!sc_line(p, q, c)
               \/ Vbe!sc_fill(p, q, c)
               \/ \E thickness \in Thicknesses : Vbe!sc_box(p, q, thickness, c)
    BY <2>6, <2>8, Zenon
  <2> QED BY <2>2, <2>3, <2>4, <2>5, <2>7, <2>8, SMT DEF Vbe!Next
<1> QED BY <1>1, <1>2, <1>3

\* What ScreenProofs says of texts.
LEMMA SameTextRight ==
  /\ ScreenFacts!TypeOK => Vbe!TypeOK
  /\ ScreenFacts!StaysInside => Vbe!StaysInside
  /\ \A p : ScreenFacts!Readable(p) <=> Vbe!Readable(p)
  /\ ScreenFacts!TextReadable => Vbe!TextReadable
  /\ ScreenFacts!DumpReadable => Vbe!DumpReadable
  /\ ScreenFacts!TextRight => Vbe!TextRight
<1>1. ScreenFacts!TypeOK => Vbe!TypeOK
  BY Zenon DEF ScreenFacts!TypeOK, Vbe!TypeOK, ScreenFacts!PixelValues, Vbe!PixelValues
<1>2. ScreenFacts!StaysInside => Vbe!StaysInside
  BY DEF ScreenFacts!StaysInside, Vbe!StaysInside, ScreenFacts!OnScreen, Vbe!OnScreen,
     ScreenFacts!BorderFits, Vbe!BorderFits,
     ScreenFacts!SCREEN_BUFFER_SIZE, Vbe!SCREEN_BUFFER_SIZE, ScreenFacts!Offset, Vbe!Offset
<1>3. \A p : ScreenFacts!Readable(p) <=> Vbe!Readable(p)
  BY Zenon DEF ScreenFacts!Readable, Vbe!Readable, ScreenFacts!InBuffer, Vbe!InBuffer,
     ScreenFacts!SCREEN_BUFFER_SIZE, Vbe!SCREEN_BUFFER_SIZE, ScreenFacts!Offset, Vbe!Offset
<1>4. ScreenFacts!TextReadable => Vbe!TextReadable
  BY <1>3, Zenon DEF ScreenFacts!TextReadable, Vbe!TextReadable, ScreenFacts!Done, Vbe!Done,
     ScreenFacts!Aligned, Vbe!Aligned, ScreenFacts!isprint, Vbe!isprint, ScreenFacts!OffBottom,
     Vbe!OffBottom, ScreenFacts!Cardinality, Vbe!Cardinality
<1>5. ScreenFacts!DumpReadable => Vbe!DumpReadable
  BY <1>3, Zenon DEF ScreenFacts!DumpReadable, Vbe!DumpReadable, ScreenFacts!Done, Vbe!Done,
     ScreenFacts!Aligned, Vbe!Aligned, ScreenFacts!Straddles, Vbe!Straddles, ScreenFacts!Alike,
     Vbe!Alike, ScreenFacts!InBuffer, Vbe!InBuffer, ScreenFacts!SCREEN_BUFFER_SIZE,
     Vbe!SCREEN_BUFFER_SIZE, ScreenFacts!Offset, Vbe!Offset
<1>6. ScreenFacts!TextRight => Vbe!TextRight
  BY <1>1, <1>2, <1>4, <1>5, Zenon DEF ScreenFacts!TextRight, Vbe!TextRight
<1> QED BY <1>1, <1>2, <1>3, <1>4, <1>5, <1>6

\* And of shapes.
LEMMA SameShapesRight ==
  /\ ScreenFacts!RectanglesExact => Vbe!RectanglesExact
  /\ ScreenFacts!LineStraight => Vbe!LineStraight
  /\ ScreenFacts!ImagesUpright => Vbe!ImagesUpright
  /\ ScreenFacts!BlendBetween => Vbe!BlendBetween
  /\ ScreenFacts!ShapesRight => Vbe!ShapesRight
<1>1. ScreenFacts!RectanglesExact => Vbe!RectanglesExact
  BY DEF ScreenFacts!RectanglesExact, Vbe!RectanglesExact, ScreenFacts!Done, Vbe!Done,
     ScreenFacts!OnScreen, Vbe!OnScreen, ScreenFacts!Area, Vbe!Area, ScreenFacts!Offset,
     Vbe!Offset, ScreenFacts!BorderFits, Vbe!BorderFits
<1>2. ScreenFacts!LineStraight => Vbe!LineStraight
  BY Zenon DEF ScreenFacts!LineStraight, Vbe!LineStraight, ScreenFacts!Done, Vbe!Done,
     ScreenFacts!Cardinality, Vbe!Cardinality
<1>3. ScreenFacts!ImagesUpright => Vbe!ImagesUpright
  BY Zenon DEF ScreenFacts!ImagesUpright, Vbe!ImagesUpright, ScreenFacts!Done, Vbe!Done,
     ScreenFacts!Bit, Vbe!Bit, ScreenFacts!Offset, Vbe!Offset
<1>4. ScreenFacts!BlendBetween => Vbe!BlendBetween
  BY Zenon DEF ScreenFacts!BlendBetween, Vbe!BlendBetween, ScreenFacts!Done, Vbe!Done,
     ScreenFacts!Under, Vbe!Under, ScreenFacts!Left, Vbe!Left, ScreenFacts!Min, Vbe!Min,
     ScreenFacts!Max, Vbe!Max, ScreenFacts!sc_setpixel, Vbe!sc_setpixel, ScreenFacts!Black,
     Vbe!Black, ScreenFacts!Offset, Vbe!Offset
<1>5. ScreenFacts!ShapesRight => Vbe!ShapesRight
  BY <1>1, <1>2, <1>3, <1>4, Zenon DEF ScreenFacts!ShapesRight, Vbe!ShapesRight
<1> QED BY <1>1, <1>2, <1>3, <1>4, <1>5

------------------------------------------------------------------------------
(***************************************************************************)
(* The services together: what each keeps alone it keeps when calls to all *)
(* of them alternate, since a call to one leaves the others as they are.   *)
(***************************************************************************)

\* The memory functions take part with their calls, byte by byte.
LEMMA MemoryTakesPart == ServicesSpec => Spec
<1>1. ServicesInit => Init
  BY DEF ServicesInit
<1>2. [ServicesNext]_<<subject, vars, screenVars, driveVars, timerVars, keyVars, heapVars>>
        => [Next]_vars
  BY DEF ServicesNext, MemoryCalls, ScreenCalls, DiskCalls, TimerCalls, KeyCalls, HeapCalls
<1> QED BY <1>1, <1>2, PTL DEF ServicesSpec, Spec

\* The timer takes part with calls to pit_start_counter only.
LEMMA TimerTakesPart == ServicesSpec => Pit!Spec
<1>1. ServicesInit => Pit!Init
  BY DEF ServicesInit
<1>2. [ServicesNext]_<<subject, vars, screenVars, driveVars, timerVars, keyVars, heapVars>>
        => [Pit!Next]_(Pit!vars)
  BY DEF ServicesNext, MemoryCalls, ScreenCalls, DiskCalls, TimerCalls, KeyCalls, HeapCalls,
     timerVars, Pit!vars
<1> QED BY <1>1, <1>2, PTL DEF ServicesSpec, Pit!Spec

\* The key events with bytes handled and callbacks registered.
LEMMA KeysTakePart == ServicesSpec => Keyboard!Spec
<1>1. ServicesInit => Keyboard!Init
  BY DEF ServicesInit
<1>2. [ServicesNext]_<<subject, vars, screenVars, driveVars, timerVars, keyVars, heapVars>>
        => [Keyboard!Next]_(Keyboard!vars)
  BY DEF ServicesNext, MemoryCalls, ScreenCalls, DiskCalls, TimerCalls, KeyCalls, HeapCalls,
     keyVars, Keyboard!vars
<1> QED BY <1>1, <1>2, PTL DEF ServicesSpec, Keyboard!Spec

\* The disk with its calls, and the drive with its answers.
LEMMA DiskTakesPart == ServicesSpec => Disk!Spec
<1>1. ServicesInit => Disk!Init
  BY DEF ServicesInit
<1>2. [ServicesNext]_<<subject, vars, screenVars, driveVars, timerVars, keyVars, heapVars>>
        => [Disk!Next]_(Disk!vars)
  BY DEF ServicesNext, MemoryCalls, ScreenCalls, DiskCalls, TimerCalls, KeyCalls, HeapCalls,
     driveVars, Disk!vars, Disk!fsVars, Disk!args, Disk!history
<1> QED BY <1>1, <1>2, PTL DEF ServicesSpec, Disk!Spec

\* The heap with its allocations, its frees and its defragmentations.
LEMMA HeapTakesPart == ServicesSpec => HeapFacts!Spec
<1>1. ServicesInit => HeapFacts!Init
  BY DEF ServicesInit, Malloc!Init, HeapFacts!Init
<1>2. Malloc!Next => HeapFacts!Next
  BY SameAllocations, SameMerges DEF Malloc!Next, HeapFacts!Next
<1>3. [ServicesNext]_<<subject, vars, screenVars, driveVars, timerVars, keyVars, heapVars>>
        => [HeapFacts!Next]_(HeapFacts!vars)
  BY <1>2 DEF ServicesNext, MemoryCalls, ScreenCalls, DiskCalls, TimerCalls, KeyCalls, HeapCalls,
     heapVars, HeapFacts!vars
<1> QED BY <1>1, <1>3, PTL DEF ServicesSpec, HeapFacts!Spec

\* The screen with its set-up, its texts, its shapes and its images.
LEMMA ScreenTakesPart == ServicesSpec => ScreenFacts!Spec
<1>1. ServicesInit => ScreenFacts!Init
  BY SameScreen DEF ServicesInit
<1>2. Vbe!Next => ScreenFacts!Next
  BY SameScreen
<1>3. [ServicesNext]_<<subject, vars, screenVars, driveVars, timerVars, keyVars, heapVars>>
        => [ScreenFacts!Next]_(ScreenFacts!vars)
  BY <1>2 DEF ServicesNext, MemoryCalls, ScreenCalls, DiskCalls, TimerCalls, KeyCalls, HeapCalls,
     screenVars, ScreenFacts!vars
<1> QED BY <1>1, <1>3, PTL DEF ServicesSpec, ScreenFacts!Spec

\* Every call of memset, memcpy, memmove and memcmp does what its callers take
\* it to do, for every size of memory and every overlap (stddef.c:38-72).
THEOREM CallsAreExact == ServicesSpec => []CallsExact
BY MemoryTakesPart, MemoryAlone, PTL

\* Whatever calls came before, counters hold selectors and never a divisor, and
\* the counter last asked for stands still but for those divisors both of whose
\* bytes lie in the quarter of its number (pit.c:21-38).
THEOREM TimerMisloads == ServicesSpec => []CountersMisloaded
BY TimerTakesPart, TimerAlone, ServicesAssumption, PTL DEF CountersMisloaded

\* The flags of the driver say what is held, in every order of presses and
\* releases that touches no look-alike and lets one shift key go before the other
\* only, and c, v and backslash arrive as C, V and | (ps2.c:101-140).
THEOREM KeysAreRight == ServicesSpec => []KeysRight
BY KeysTakePart, KeysAlone, ServicesAssumption, PTL DEF KeysRight

\* The disk holds what was written where it was written, and calls transfer runs
\* in order between the addresses they were given, until the first write whose
\* address has other top bits than the number of the drive (drive.c:24-68).
THEOREM DiskIsSafe == ServicesSpec => []Disk!DiskSafe
BY DiskTakesPart, DiskAlone, ServicesAssumption, PTL

\* The heap's list tiles the pages mapped for it, knows what callers hold with its
\* full size and keeps free memory together, over every order of allocations, frees
\* and defragmentations that avoids the paths that break it
\* (virtual_memory_manager.c:116-216).
THEOREM HeapIsIntact == ServicesSpec => []HeapIntact
<1>1. HeapFacts!ConstantsAssumption
  BY ServicesAssumption, HeapAssumption
<1>2. ServicesSpec => []HeapFacts!HeapIntact
  BY <1>1, HeapTakesPart, HeapFacts!HeapStaysIntact, PTL
<1> QED BY <1>2, SameIntact, PTL DEF HeapIntact

\* No call of the heap hands out memory in use but that of the last block, as the
\* loop of line 150 leaves it, and only where every free block is smaller; on the
\* paths that keep the list whole, the calls are those of an allocator of bytes
\* (virtual_memory_manager.c:146-216).
THEOREM HeapStepsAreRight == ServicesSpec => HeapSteps
<1>1. HeapFacts!ConstantsAssumption
  BY ServicesAssumption, HeapAssumption
<1>2. ServicesSpec => HeapFacts!HeapSteps
  BY <1>1, HeapTakesPart, HeapFacts!HeapStepsRight, PTL
<1> QED BY <1>2, SameSteps, PTL DEF HeapSteps

\* Text in columns comes out readable and whole up to the bottom of the screen, a
\* dump loses no digit but the one its cursor wraps over, and what is drawn stays
\* on the screen or, for text, in its buffer (vbe_driver.c:69-172).
THEOREM TextIsRight == ServicesSpec => []TextRight
<1>1. ScreenFacts!ConstantsAssumption
  BY ServicesAssumption, SameScreen
<1>2. ServicesSpec => []ScreenFacts!TextRight
  BY <1>1, ScreenTakesPart, ScreenFacts!TextStaysRight, PTL
<1> QED BY <1>2, SameTextRight, PTL DEF TextRight

\* Rectangles, boxes and images are exact, lines to the right and down are nowhere
\* more than half a pixel off, and blended channels lie between what is blended
\* (vbe_driver.c:56-67, 174-253).
THEOREM ShapesAreRight == ServicesSpec => []ShapesRight
<1>1. ScreenFacts!ConstantsAssumption
  BY ServicesAssumption, SameScreen
<1>2. ServicesSpec => []ScreenFacts!ShapesRight
  BY <1>1, ScreenTakesPart, ScreenFacts!ShapesStayRight, PTL
<1> QED BY <1>2, SameShapesRight, PTL DEF ShapesRight

=============================================================================
