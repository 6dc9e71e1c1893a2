------------------------------ MODULE TunerId ------------------------------
(***************************************************************************)
(* Tuner ids, the strings a client names a tuner by (dtv.c).               *)
(* dtv_get_tuners prints the HAL's device id in as many characters as      *)
(* get_int_length says; dtv_set_source reads such a string back.  A string *)
(* is the sequence of its characters' distances from '0'.                  *)
(***************************************************************************)
EXTENDS Integers, Sequences

CONSTANT UINT_RANGE    \* how many numbers a uint32_t holds

ASSUME UintAssumption == UINT_RANGE \in Nat \ {0}

get_int_length[target \in Nat] ==
  IF target > 10 THEN 1 + get_int_length[target \div 10] ELSE 1

(* What "%d" prints. *)
Decimal[n \in Nat] ==
  IF n < 10 THEN <<n>> ELSE Append(Decimal[n \div 10], n % 10)

(* snprintf cuts off what its buffer does not hold. *)
TunerIdOf(device_id) == SubSeq(Decimal[device_id], 1, get_int_length[device_id])

DeviceIdOf(tuner_id) ==
  LET value[n \in 0..Len(tuner_id)] ==
        IF n = 0 THEN 0 ELSE (value[n - 1] * 10 + tuner_id[n]) % UINT_RANGE
  IN  value[Len(tuner_id)]
=============================================================================
