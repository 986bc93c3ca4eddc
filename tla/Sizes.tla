-------------------------------- MODULE Sizes --------------------------------
(***************************************************************************)
(* Sizes as the configuration writes them: a number of bytes, or a number  *)
(* with a unit, or nothing.  ToBytes parses one into an int64, multiplying *)
(* without a check for overflow.                                           *)
(*                                                                         *)
(* A written size is a record of a number and a unit; the digits and the   *)
(* regular expressions that split them from the unit are left out.         *)
(***************************************************************************)
EXTENDS Integers

CONSTANTS Kilo,   \* 1024
          Word    \* 2^63: an int64 is at least -Word and less than Word

ASSUME KiloAssumption == Kilo \in Nat \ {0, 1}
ASSUME WordAssumption == Word \in Nat \ {0}

\* "" is a size without a number, and "invalid" stands for whatever the two
\* regular expressions do not match, "TB" among them.
Units == {"", "bytes", "kb", "mb", "gb", "tb", "pb", "eb", "invalid"}

Size(number, unit) == [number |-> number, unit |-> unit]

NoSize == Size(0, "")

\* Sizes as the configuration holds them.
Written == [number : Nat, unit : Units]

\* Mutation: gb taken for mb.
ExponentialGbAsMb == [kb |-> 1, mb |-> 2, gb |-> 2, pb |-> 4, eb |-> 5]

\* How often the number is multiplied.  No case of the switch is for tb, and
\* without one it is not multiplied at all.
Exponential == [kb |-> 1, mb |-> 2, gb |-> 3, pb |-> 4, eb |-> 5]

\* The loop: sizeInBytes *= 1024, once, twice, up to five times.
Powers ==
    LET square == Kilo * Kilo
    IN  <<Kilo, square, square * Kilo, square * square, square * square * Kilo>>

Wrapped(n) == ((n + Word) % (2 * Word)) - Word

\* ToBytes returns an error: not a size, or a number beyond an int64.
ParseFails(size) ==
    \/ size.unit = "invalid"
    \/ size.number >= Word

ToBytes(size) ==
    IF size.unit \in DOMAIN Exponential
      THEN Wrapped(size.number * Powers[Exponential[size.unit]])
      ELSE Wrapped(size.number)
=============================================================================
