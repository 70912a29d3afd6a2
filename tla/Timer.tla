---------------------------------- MODULE Timer ----------------------------------
(***************************************************************************)
(* The timer (pit.c) and what its functions do to the three counters of    *)
(* the 8253.  A control word selects a counter and stops it until it got   *)
(* two bytes, the low one first.                                           *)
(***************************************************************************)
EXTENDS Integers

CONSTANTS
  Counters,       \* 0, 1 and 2, or some of them
  Frequencies     \* the frequencies asked for

ConstantsAssumption == Counters \subseteq 0 .. 2 /\ Frequencies \subseteq Nat

VARIABLES
  low,      \* counter -> the low byte it has while it waits for the other, or None
  count,    \* counter -> what it divides by (0 is 65536), or Stopped
  asked,    \* history: the counter and the divisor of the last call
  state     \* "ok", or "divide error"

vars == <<low, count, asked, state>>

None == -1
Stopped == -1
FromBios == -2

Selector(counter) == counter * 64   \* COUNTER0, COUNTER1, COUNTER2
ControlWord == 3                    \* port 0x43

\* The BIOS left every counter with both bytes written.
Init ==
  /\ low = [c \in 0 .. 2 |-> None]
  /\ count = [c \in 0 .. 2 |-> FromBios]
  /\ asked = <<>>
  /\ state = "ok"

Chip == [low |-> low, count |-> count]

\* A byte on a data port.  On the port of the control word the bytes sent here
\* (0, 0x40, 0x80) latch a counter, which changes nothing that runs.
Write(chip, port, data) ==
  IF port = ControlWord THEN chip
  ELSE IF chip.low[port] = None
  THEN [chip EXCEPT !.low[port] = data]
  ELSE [low   |-> [chip.low EXCEPT ![port] = None],
        count |-> [chip.count EXCEPT ![port] = chip.low[port] + 256 * data]]

CommandKeepsCount(chip, counter) == [chip EXCEPT !.low[counter] = None]

\* pit_send_data: the counter is a byte, its two high bits make the port.
pit_send_data(chip, counter, data) == Write(chip, (counter % 256) \div 64, data)

pit_send_command(chip, counter) ==
  [low |-> [chip.low EXCEPT ![counter] = None], count |-> [chip.count EXCEPT ![counter] = Stopped]]

Word == 65536

\* The divisor is computed from the low 16 bits of the frequency.
Hertz(freq) == freq % Word

Divisor(freq) == IF freq > 18 THEN (1193181 \div Hertz(freq)) % Word ELSE Word - 1

pit_start_counter(freq, counter) ==
  /\ state = "ok" /\ freq # 0
  /\ asked' = <<counter, Divisor(freq)>>
  /\ LET divisor == Divisor(freq)
         first  == pit_send_data(pit_send_command(Chip, counter), divisor % 256, Selector(counter))
         second == pit_send_data(first, divisor \div 256, Selector(counter))
     IN  low' = second.low /\ count' = second.count
  /\ UNCHANGED state

\* Frequencies that are multiples of 65536 divide by zero.
DivideError(freq) ==
  /\ state = "ok" /\ freq > 18 /\ Hertz(freq) = 0
  /\ state' = "divide error"
  /\ UNCHANGED <<low, count, asked>>

Next ==
  \E freq \in Frequencies :
    \/ DivideError(freq)
    \/ /\ freq <= 18 \/ Hertz(freq) # 0
       /\ \E counter \in Counters : pit_start_counter(freq, counter)

Spec == Init /\ [][Next]_vars

------------------------------------------------------------------------------
Bytes == 0 .. 255
Words == 0 .. (Word - 1)

TypeOK ==
  /\ low \in [0 .. 2 -> Bytes \cup {None}]
  /\ count \in [0 .. 2 -> Words \cup {Stopped, FromBios}]
  /\ asked = <<>> \/ asked \in Counters \X Words
  /\ state \in {"ok", "divide error"}

Selectors == {Selector(c) : c \in Counters}

\* The call swaps the parameters of pit_send_data (pit.c:33-34): no counter
\* ever gets a byte of the divisor, only selectors, whatever calls came before.
OnlySelectorsLoaded ==
  \A c \in 0 .. 2 :
    /\ low[c] \in Selectors \cup {None}
    /\ count[c] \in {Stopped, FromBios} \cup {s + 256 * t : s, t \in Selectors}

\* The counter that was asked for stands still after the call, unless both
\* bytes of the divisor happen to lie in the quarter of its number.
AskedStandsStill ==
  asked # <<>> =>
    LET c == asked[1]
        hits == (asked[2] % 256) \div 64 = c /\ (asked[2] \div 256) \div 64 = c
    IN  count[c] = IF hits THEN 257 * Selector(c) ELSE Stopped

\* After any sequence of calls counters hold selectors, not divisors, and the
\* one last asked for stands still but for those divisors (pit.c:21-38).
CountersMisloaded == TypeOK /\ OnlySelectorsLoaded /\ AskedStandsStill
==============================================================================
