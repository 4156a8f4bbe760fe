------------------------------ MODULE ArrayMap ------------------------------
(***************************************************************************)
(* usb::ArrayMap (kernel/usb/arraymap.hpp): a map in an array of N slots,  *)
(* each empty or holding one key and its value.  Put takes the first empty *)
(* slot without looking whether the key is there already, and does nothing *)
(* when no slot is empty; Get and Delete take the first slot with the key. *)
(***************************************************************************)
EXTENDS Naturals, Sequences

Empty         == <<>>
EmptyTable(n) == [i \in 1..n |-> Empty]

HasKey(slot, key) == slot # Empty /\ slot[1] = key
FirstOf(S)        == CHOOSE i \in S : \A j \in S : i <= j
SlotsOf(t, key)   == {i \in DOMAIN t : HasKey(t[i], key)}
EmptySlots(t)     == {i \in DOMAIN t : t[i] = Empty}
Contains(t, key)  == SlotsOf(t, key) # {}

(* The value of key; only for keys the table contains.                     *)
Get(t, key) == t[FirstOf(SlotsOf(t, key))][2]

Put(t, key, value) ==
  IF EmptySlots(t) = {} THEN t
  ELSE [t EXCEPT ![FirstOf(EmptySlots(t))] = <<key, value>>]

Delete(t, key) ==
  IF ~Contains(t, key) THEN t
  ELSE [t EXCEPT ![FirstOf(SlotsOf(t, key))] = Empty]
=============================================================================
