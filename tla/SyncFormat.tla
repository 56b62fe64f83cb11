----------------------------- MODULE SyncFormat -----------------------------
(***************************************************************************)
(* The bytes of a SYNC message: the length of the monitor's name in one    *)
(* char, the name, the state.  DistributedMonitor takes it for a record of *)
(* name and state; the theorems say for which names that is so.            *)
(***************************************************************************)
EXTENDS SequenceTheorems, TLAPS

CONSTANTS
  Char,       \* what a char of a name or of a saved state can be
  CharSigned, \* whether the compiler's char is signed
  SizeValues  \* number of values of size_t

CharValues == 256

(* static_cast<char> of a length. *)
AsChar(n) ==
  LET low == n % CharValues
  IN  IF CharSigned /\ low >= CharValues \div 2 THEN low - CharValues ELSE low

(* static_cast<size_type> of a char. *)
AsSize(c) == IF c < 0 THEN SizeValues + c ELSE c

(* basic_string::substr: up to n chars from position pos, counted from 0. *)
Substr(s, pos, n) == SubSeq(s, pos + 1, IF pos + n < Len(s) THEN pos + n ELSE Len(s))

PackSyncMessage(name, state) == <<AsChar(Len(name))>> \o (name \o state)

ExtractMutexName(message) == Substr(message, 1, AsSize(message[1]))

ExtractSerializedData(message) ==
  Substr(message, (AsSize(message[1]) + 1) % SizeValues, Len(message))

-----------------------------------------------------------------------------
(* The char that a length becomes, read again as a length. *)
Length(n) == AsSize(AsChar(n))

LEMMA Packed ==
  ASSUME NEW name \in Seq(Char), NEW state \in Seq(Char)
  PROVE  LET message == PackSyncMessage(name, state)
             values == Char \cup {AsChar(Len(name))}
         IN  /\ message \in Seq(values)
             /\ Len(message) = 1 + Len(name) + Len(state)
             /\ message[1] = AsChar(Len(name))
             /\ \A i \in 1 .. Len(name) : message[1 + i] = name[i]
             /\ \A i \in 1 .. Len(state) : message[1 + Len(name) + i] = state[i]
  <1> DEFINE c == AsChar(Len(name))
             values == Char \cup {c}
             message == PackSyncMessage(name, state)
  <1> HIDE DEF c
  <1>1. /\ name \in Seq(values) /\ state \in Seq(values)
        /\ name \o state \in Seq(values) /\ Len(name \o state) = Len(name) + Len(state)
        /\ \A i \in 1 .. Len(name) + Len(state) :
             (name \o state)[i] = IF i <= Len(name) THEN name[i] ELSE state[i - Len(name)]
    <2>1. name \in Seq(values) /\ state \in Seq(values)
      BY SeqMonotonic
    <2> QED
      BY <2>1, ConcatProperties
  <1>2. <<c>> \in Seq(values) /\ Len(<<c>>) = 1 /\ <<c>>[1] = c
    OBVIOUS
  <1>3. message = <<c>> \o (name \o state)
    BY DEF PackSyncMessage, c
  <1>4. /\ message \in Seq(values)
        /\ Len(message) = 1 + Len(name) + Len(state)
        /\ \A i \in 1 .. 1 + (Len(name) + Len(state)) :
             message[i] = IF i <= 1 THEN <<c>>[i] ELSE (name \o state)[i - 1]
    <2> HIDE DEF message, values
    <2>1. /\ message \in Seq(values)
          /\ Len(message) = Len(<<c>>) + Len(name \o state)
          /\ \A i \in 1 .. Len(<<c>>) + Len(name \o state) :
               message[i] = IF i <= Len(<<c>>) THEN <<c>>[i] ELSE (name \o state)[i - Len(<<c>>)]
      BY <1>1, <1>2, <1>3, ConcatProperties
    <2> QED
      BY <2>1, <1>1, <1>2
  <1>5. Len(name) \in Nat /\ Len(state) \in Nat
    OBVIOUS
  <1>6. message[1] = c
    <2> HIDE DEF message, values
    <2> QED BY <1>2, <1>4, <1>5
  <1>7. ASSUME NEW i \in 1 .. Len(name) PROVE message[1 + i] = name[i]
    <2> HIDE DEF message, values
    <2>1. message[1 + i] = (name \o state)[i]
      BY <1>4, <1>5
    <2> QED BY <2>1, <1>1, <1>5
  <1>8. ASSUME NEW i \in 1 .. Len(state) PROVE message[1 + Len(name) + i] = state[i]
    <2> HIDE DEF message, values
    <2>1. /\ 1 + Len(name) + i \in 1 .. 1 + (Len(name) + Len(state))
          /\ ~(1 + Len(name) + i <= 1)
          /\ (1 + Len(name) + i) - 1 = Len(name) + i
      BY <1>5
    <2>2. message[1 + Len(name) + i] = (name \o state)[Len(name) + i]
      BY <1>4, <2>1
    <2> QED BY <2>2, <1>1, <1>5
  <1> QED
    BY <1>4, <1>6, <1>7, <1>8 DEF c

(* Which lengths the char keeps. *)
LEMMA KeptLength ==
  ASSUME CharSigned \in BOOLEAN,
         NEW n \in Nat, n < IF CharSigned THEN 128 ELSE 256
  PROVE  Length(n) = n
  BY DEF Length, AsSize, AsChar, CharValues

LEMMA NegativeLength ==
  ASSUME CharSigned = TRUE, NEW n \in Nat, 128 <= n, n < 256
  PROVE  AsChar(n) = n - 256
  BY DEF AsChar, CharValues

(* A SYNC message is read as it was written, by every process, when its      *)
(* monitor's name is at most 255 chars long, as the constructor of           *)
(* DistributedMonitor asserts, and 127 where char is signed.                 *)
THEOREM UnpackPacked ==
  ASSUME CharSigned \in BOOLEAN, SizeValues \in Nat,
         NEW name \in Seq(Char), NEW state \in Seq(Char),
         Len(name) < IF CharSigned THEN 128 ELSE 256,
         1 + Len(name) + Len(state) < SizeValues
  PROVE  LET message == PackSyncMessage(name, state)
         IN  ExtractMutexName(message) = name /\ ExtractSerializedData(message) = state
  <1> DEFINE message == PackSyncMessage(name, state)
             values == Char \cup {AsChar(Len(name))}
  <1>1. /\ message \in Seq(values)
        /\ Len(message) = 1 + Len(name) + Len(state)
        /\ message[1] = AsChar(Len(name))
        /\ \A i \in 1 .. Len(name) : message[1 + i] = name[i]
        /\ \A i \in 1 .. Len(state) : message[1 + Len(name) + i] = state[i]
    BY Packed
  <1>2. Len(name) \in Nat /\ Len(state) \in Nat
    OBVIOUS
  <1>3. AsSize(message[1]) = Len(name)
    BY <1>1, <1>2, KeptLength DEF Length
  <1> HIDE DEF message, values
  <1>4. \A i \in 1 .. Len(message) : message[i] \in values
    BY <1>1
  <1>5. ExtractMutexName(message) = name
    <2> DEFINE part == SubSeq(message, 2, 1 + Len(name))
    <2>1. ExtractMutexName(message) = part
      BY <1>1, <1>2, <1>3 DEF ExtractMutexName, Substr
    <2>2. part \in Seq(values) /\ Len(part) = Len(name)
          /\ \A i \in 1 .. Len(name) : part[i] = message[1 + i]
      BY <1>1, <1>2, <1>4, SubSeqProperties
    <2>3. name \in Seq(values)
      BY SeqMonotonic DEF values
    <2> HIDE DEF part
    <2>4. part = name
      BY <1>1, <2>2, <2>3, SeqEqual
    <2> QED BY <2>1, <2>4
  <1>6. ExtractSerializedData(message) = state
    <2> DEFINE part == SubSeq(message, 2 + Len(name), Len(message))
    <2>1. (Len(name) + 1) % SizeValues = Len(name) + 1
      BY <1>2
    <2>2. ExtractSerializedData(message) = part
      BY <1>1, <1>2, <1>3, <2>1 DEF ExtractSerializedData, Substr
    <2>3. part \in Seq(values) /\ Len(part) = Len(state)
          /\ \A i \in 1 .. Len(state) : part[i] = message[1 + Len(name) + i]
      BY <1>1, <1>2, <1>4, SubSeqProperties
    <2>4. state \in Seq(values)
      BY SeqMonotonic DEF values
    <2> HIDE DEF part
    <2>5. part = state
      BY <1>1, <2>3, <2>4, SeqEqual
    <2> QED BY <2>2, <2>5
  <1> QED
    BY <1>5, <1>6 DEF message

(* Where char is signed, a longer name, which the assertion allows, is not   *)
(* recognised: the name that is extracted is the rest of the message, and    *)
(* the packet of a monitor with any state finds no callback, which ends the  *)
(* process.                                                                  *)
THEOREM LongNameLost ==
  ASSUME CharSigned = TRUE, SizeValues \in Nat,
         NEW name \in Seq(Char), NEW state \in Seq(Char),
         128 <= Len(name), Len(name) <= 255, state # <<>>,
         1 + Len(name) + Len(state) < SizeValues - 128
  PROVE  ExtractMutexName(PackSyncMessage(name, state)) # name
  <1> DEFINE message == PackSyncMessage(name, state)
             values == Char \cup {AsChar(Len(name))}
             part == SubSeq(message, 2, Len(message))
  <1>1. /\ message \in Seq(values)
        /\ Len(message) = 1 + Len(name) + Len(state)
        /\ message[1] = AsChar(Len(name))
    BY Packed
  <1>2. /\ Len(name) \in Nat /\ 128 <= Len(name) /\ Len(name) < 256
        /\ Len(state) \in Nat /\ Len(state) > 0
        /\ 1 + Len(name) + Len(state) < SizeValues - 128
    <2>1. Len(name) \in Nat /\ 128 <= Len(name) /\ Len(name) < 256
      OBVIOUS
    <2>2. Len(state) \in Nat /\ Len(state) > 0
      BY EmptySeq
    <2>3. 1 + Len(name) + Len(state) < SizeValues - 128
      OBVIOUS
    <2> QED BY <2>1, <2>2, <2>3
  <1>3. AsChar(Len(name)) = Len(name) - 256
    BY <1>2, NegativeLength
  <1> HIDE DEF message, values
  <1>4. ExtractMutexName(message) = part
    <2> DEFINE n == AsSize(message[1])
    <2>1. n = SizeValues + (Len(name) - 256)
      BY <1>1, <1>2, <1>3 DEF AsSize
    <2>2. ~(1 + n < Len(message))
      BY <1>1, <1>2, <2>1
    <2> QED BY <2>2 DEF ExtractMutexName, Substr
  <1>5. Len(part) = Len(name) + Len(state)
    <2>1. \A i \in 2 .. Len(message) : message[i] \in values
      BY <1>1
    <2> QED BY <1>1, <1>2, <2>1, SubSeqProperties
  <1> QED
    BY <1>2, <1>4, <1>5 DEF message
=============================================================================
