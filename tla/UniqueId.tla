------------------------------ MODULE UniqueId -------------------------------
(***************************************************************************)
(* UniqueIdGenerator, the process-wide source of message ids: a prefix     *)
(* made of the MAC address and the low half of the process id, the seconds *)
(* since a fixed epoch and a sequence number within the second.  The       *)
(* seconds are read from the steady clock; the wall clock, which NTP may   *)
(* set back, is read only once, when the generator is made.                *)
(***************************************************************************)
EXTENDS Naturals, Sequences

CONSTANTS
  Mac,          \* the addresses UtilAll::macAddress may find; 0 when there is none
  Pid,          \* process ids
  Byte,         \* values of a byte: one byte stands for a field of several
  Digit,        \* values of a hexadecimal digit, Digit * Digit = Byte
  MaxSequence,  \* the sequence is counted modulo MaxSequence + 1 (2^32)
  MaxClock,     \* bound on both clocks
  MaxIds        \* bound on the ids made

ASSUME UniqueIdConstants ==
  /\ Digit \in Nat /\ Digit > 1 /\ Byte = Digit * Digit
  /\ Mac \subseteq 0 .. Byte - 1 /\ Pid \subseteq Nat
  /\ MaxSequence \in 0 .. Byte - 1 /\ MaxIds \in Nat
  /\ MaxClock \in Nat /\ 2 * MaxClock < Byte * Byte   \* the seconds fit their field

VARIABLES
  wall, steady,  \* the two clocks, in seconds
  process,       \* how many processes have run
  generator,     \* the generator of the running process
  made           \* every id made, with the process that made it

idVars == <<wall, steady, process, generator, made>>

deltaSeconds(g) == (steady - g.start_time_point) + g.since_custom_epoch

(* getifaddrs failing and no interface having an address both leave the    *)
(* six bytes zero.                                                         *)
macAddress == Mac

(* The generator a process makes at its first use. *)
Generator(mac, pid) ==
  [prefix |-> <<mac, pid % Byte>>, pid |-> pid, since_custom_epoch |-> wall,
   start_time_point |-> steady, seconds |-> wall, sequence |-> 0]

hexCharValue(c) == IF c \in 0 .. Digit - 1 THEN c ELSE Digit

hex(raw) == [i \in 1 .. 2 * Len(raw) |->
  LET b == raw[(i + 1) \div 2] IN IF i % 2 = 1 THEN b \div Digit ELSE b % Digit]

hexToBinary(text) ==
  IF Len(text) % 2 = 1 \/ \E i \in DOMAIN text : hexCharValue(text[i]) = Digit THEN <<>>
  ELSE [i \in 1 .. Len(text) \div 2 |->
          hexCharValue(text[2 * i - 1]) * Digit + hexCharValue(text[2 * i])]

Raw(g, seconds, sequence) == <<1>> \o g.prefix \o <<seconds % Byte, seconds \div Byte, sequence>>

readsWallClock ==  \* mutant: the seconds are those of the wall clock
  /\ process > 0 /\ Len(made) < MaxIds
  /\ LET fresh == generator.seconds # wall
         sequence == IF fresh THEN 0 ELSE (generator.sequence + 1) % (MaxSequence + 1)
     IN /\ generator' = [generator EXCEPT !.seconds = wall, !.sequence = sequence]
        /\ made' = Append(made, [process |-> process, prefix |-> generator.prefix,
                                 seconds |-> wall, id |-> hex(Raw(generator, wall, sequence))])
  /\ UNCHANGED <<wall, steady, process>>

(* next(): under mtx_ the pair of second and sequence moves on; the bytes  *)
(* are put together outside the lock from the copy taken under it.         *)
next ==
  /\ process > 0 /\ Len(made) < MaxIds
  /\ LET delta == deltaSeconds(generator)
         sequence == IF generator.seconds # delta THEN 0
                     ELSE (generator.sequence + 1) % (MaxSequence + 1)
     IN /\ generator' = [generator EXCEPT !.seconds = delta, !.sequence = sequence]
        /\ made' = Append(made, [process |-> process, prefix |-> generator.prefix,
                                 seconds |-> delta, id |-> hex(Raw(generator, delta, sequence))])
  /\ UNCHANGED <<wall, steady, process>>

secondPasses ==
  /\ steady < MaxClock /\ wall < MaxClock
  /\ steady' = steady + 1 /\ wall' = wall + 1
  /\ UNCHANGED <<process, generator, made>>

wallClockIsSet ==
  /\ wall' \in 0 .. MaxClock \ {wall}
  /\ UNCHANGED <<steady, process, generator, made>>

(* instance(): the first use in a process makes its generator; a second    *)
(* process is the program restarted.                                       *)
instance ==
  /\ process < 2 /\ process' = process + 1
  /\ \E mac \in macAddress, pid \in Pid :
       /\ process = 1 => pid # generator.pid
       /\ generator' = Generator(mac, pid)
  /\ UNCHANGED <<wall, steady, made>>

UniqueIdInit ==
  /\ wall = 0 /\ steady = 0 /\ process = 0 /\ made = <<>>
  /\ generator = [prefix |-> <<0, 0>>, pid |-> 0, since_custom_epoch |-> 0,
                  start_time_point |-> 0, seconds |-> 0, sequence |-> 0]

UniqueIdNext == next \/ secondPasses \/ wallClockIsSet \/ instance

(* Two ids are equal only when two processes with the same prefix made     *)
(* them, as the comment on start_time_point_ allows for, or when the       *)
(* sequence went all the way round within one second; setting the wall     *)
(* clock back never makes an id twice.  hexToBinary reads back what hex    *)
(* wrote.                                                                  *)
IdsUnique ==
  /\ \A i \in DOMAIN made : \A j \in 1 .. i - 1 : made[i].id = made[j].id =>
       \/ made[i].process # made[j].process /\ made[i].prefix = made[j].prefix
       \/ i - j > MaxSequence /\ \A k \in j .. i : made[k].seconds = made[i].seconds
  /\ \A i \in DOMAIN made : hex(hexToBinary(made[i].id)) = made[i].id
=============================================================================
