--------------------------- MODULE RealtimeBuffer ---------------------------
(***************************************************************************)
(* RealtimeBuffer<T> (types/realtime_buffer.hpp): three slots and one      *)
(* atomic word that says which slot is being written, which is ready and   *)
(* which is being read.  Copying a payload into or out of a slot is not    *)
(* atomic, so a copy is two steps here and a slot is Torn in between.      *)
(*                                                                         *)
(* The buffer itself is for one producer.  command_buffer_ has two (the    *)
(* user thread and the RT thread), which HandCore serialises with          *)
(* staging_mutex_; mutex is that lock.  A buffer with one producer         *)
(* (state_buffer_, diagnostics_buffer_) is the instance with a singleton   *)
(* Producers, where the lock is never contended.                           *)
(*                                                                         *)
(* A compare_exchange_weak that fails only reloads cur and tries again, so *)
(* it is a stutter; the step that is modelled is the one that succeeds.    *)
(*                                                                         *)
(* An action that no other definition uses (LockUnserialised, ...) is the  *)
(* one after it with a bug in it, which the properties must notice.        *)
(***************************************************************************)
EXTENDS Integers

CONSTANTS Producers,  \* the threads that write the buffer
          Values,     \* payloads
          NoProducer, \* the holder of a free staging_mutex_
          None,       \* no payload: an unwritten slot, nothing read yet
          Torn        \* a payload caught in the middle of a copy

ASSUME BufferAssumption ==
  /\ NoProducer \notin Producers
  /\ None \notin Values
  /\ Torn \notin Values
  /\ None # Torn

VARIABLES slot,     \* slot_, the three payload slots
          state,    \* state_, the packed word: write, ready, read, fresh
          mutex,    \* the producer that holds staging_mutex_
          wpc,      \* where each producer is in write()
          wval,     \* the value each producer is writing
          wslot,    \* the slot each producer took from its load of state_
          rpc,      \* where the consumer is in read()
          snapshot, \* what the consumer saw when its copy began
          out       \* the payload read() filled last

vars == <<slot, state, mutex, wpc, wval, wslot, rpc, snapshot, out>>

Slots == 0 .. 2

Init ==
  /\ slot = [i \in Slots |-> None]
  /\ state = [wr |-> 0, rdy |-> 1, rd |-> 2, fresh |-> FALSE]
  /\ mutex = NoProducer
  /\ wpc = [p \in Producers |-> "idle"]
  /\ wval = [p \in Producers |-> None]
  /\ wslot = [p \in Producers |-> 0]
  /\ rpc = "idle"
  /\ snapshot = None
  /\ out = None

-----------------------------------------------------------------------------
(* The producer.                                                           *)

LockUnserialised(p, v) ==
  /\ wpc[p] = "idle"
  /\ mutex' = p
  /\ wpc' = [wpc EXCEPT ![p] = "load"]
  /\ wval' = [wval EXCEPT ![p] = v]
  /\ UNCHANGED <<slot, state, wslot, rpc, snapshot, out>>

(* lock_guard on staging_mutex_, ahead of command_buffer_.write(). *)
Lock(p, v) ==
  /\ wpc[p] = "idle"
  /\ mutex = NoProducer
  /\ mutex' = p
  /\ wpc' = [wpc EXCEPT ![p] = "load"]
  /\ wval' = [wval EXCEPT ![p] = v]
  /\ UNCHANGED <<slot, state, wslot, rpc, snapshot, out>>

(* The acquire load, and the start of the payload copy into the write slot. *)
BeginWrite(p) ==
  /\ wpc[p] = "load"
  /\ wslot' = [wslot EXCEPT ![p] = state.wr]
  /\ slot' = [slot EXCEPT ![state.wr] = Torn]
  /\ wpc' = [wpc EXCEPT ![p] = "copy"]
  /\ UNCHANGED <<state, mutex, wval, rpc, snapshot, out>>

(* The payload copy is complete. *)
EndWrite(p) ==
  /\ wpc[p] = "copy"
  /\ slot' = [slot EXCEPT ![wslot[p]] = wval[p]]
  /\ wpc' = [wpc EXCEPT ![p] = "publish"]
  /\ UNCHANGED <<state, mutex, wval, wslot, rpc, snapshot, out>>

(* The successful exchange: write and ready swap, the value is fresh. *)
Publish(p) ==
  /\ wpc[p] = "publish"
  /\ state' = [state EXCEPT !.wr = state.rdy, !.rdy = state.wr, !.fresh = TRUE]
  /\ mutex' = NoProducer
  /\ wpc' = [wpc EXCEPT ![p] = "idle"]
  /\ UNCHANGED <<slot, wval, wslot, rpc, snapshot, out>>

-----------------------------------------------------------------------------
(* The consumer.                                                           *)

(* read(): without a fresh value it returns false and nothing changes. *)
BeginRead ==
  /\ rpc = "idle"
  /\ state.fresh
  /\ rpc' = "swap"
  /\ UNCHANGED <<slot, state, mutex, wpc, wval, wslot, snapshot, out>>

SwapKeepsReady ==
  /\ rpc = "swap"
  /\ state' = [state EXCEPT !.rd = state.rdy, !.fresh = FALSE]
  /\ snapshot' = slot[state.rdy]
  /\ rpc' = "copy"
  /\ UNCHANGED <<slot, mutex, wpc, wval, wslot, out>>
SwapStaysFresh ==
  /\ rpc = "swap"
  /\ state' = [state EXCEPT !.rdy = state.rd, !.rd = state.rdy]
  /\ snapshot' = slot[state.rdy]
  /\ rpc' = "copy"
  /\ UNCHANGED <<slot, mutex, wpc, wval, wslot, out>>

(* The successful exchange, and the start of the copy out of the read slot. *)
Swap ==
  /\ rpc = "swap"
  /\ state' = [state EXCEPT !.rdy = state.rd, !.rd = state.rdy, !.fresh = FALSE]
  /\ snapshot' = slot[state.rdy]
  /\ rpc' = "copy"
  /\ UNCHANGED <<slot, mutex, wpc, wval, wslot, out>>

(* The copy is complete: whole only if nobody wrote the slot meanwhile. *)
EndRead ==
  /\ rpc = "copy"
  /\ out' = IF slot[state.rd] = snapshot THEN snapshot ELSE Torn
  /\ snapshot' = None
  /\ rpc' = "idle"
  /\ UNCHANGED <<slot, state, mutex, wpc, wval, wslot>>

-----------------------------------------------------------------------------
Produce(p) ==
  \/ \E v \in Values : Lock(p, v)
  \/ BeginWrite(p)
  \/ EndWrite(p)
  \/ Publish(p)

Consume == BeginRead \/ Swap \/ EndRead

Next == Consume \/ \E p \in Producers : Produce(p)

Spec == Init /\ [][Next]_vars

-----------------------------------------------------------------------------
(* Properties.                                                             *)

Copying == {"copy", "publish"}

(* Every variable holds a value of its type; write()'s and read()'s        *)
(* program counters only take the values of their steps.                   *)
TypeOK ==
  /\ slot \in [Slots -> Values \cup {None, Torn}]
  /\ state \in [wr : Slots, rdy : Slots, rd : Slots, fresh : BOOLEAN]
  /\ mutex \in Producers \cup {NoProducer}
  /\ wpc \in [Producers -> {"idle", "load", "copy", "publish"}]
  /\ wval \in [Producers -> Values \cup {None}]
  /\ wslot \in [Producers -> Slots]
  /\ rpc \in {"idle", "swap", "copy"}
  /\ snapshot \in Values \cup {None, Torn}
  /\ out \in Values \cup {None, Torn}

(* "The writer never reuses a slot the reader still holds": from its load  *)
(* of state_ to its exchange a producer's slot is not the one read() is    *)
(* copying out of, however the exchanges of the two sides fall in between. *)
NoSharedSlot ==
  \A p \in Producers :
    (wpc[p] \in Copying /\ rpc = "copy") => wslot[p] # state.rd

(* read() never fills its caller's struct with half of one value and half  *)
(* of another.                                                             *)
NoTornRead == out # Torn

(* The buffer is a mailbox of the latest value: the exchange in write() is *)
(* where the value is put, the exchange in read() is where it is taken,    *)
(* and a value already taken or overwritten is never handed over again.    *)
Mailbox == INSTANCE LatestValue WITH
  pending <- IF state.fresh THEN slot[state.rdy] ELSE None,
  taken   <- IF rpc = "copy" THEN slot[state.rd] ELSE out

ImplementsLatestValue == Mailbox!Spec

(* The inductive invariant: the three indices are three different slots,   *)
(* the producer inside write() holds the lock and still owns the write     *)
(* slot, and only that slot can be Torn.                                   *)
DistinctSlots ==
  /\ state.wr # state.rdy
  /\ state.wr # state.rd
  /\ state.rdy # state.rd

OneWriter ==
  \A p \in Producers :
    /\ wpc[p] # "idle" => mutex = p /\ wval[p] \in Values
    /\ wpc[p] \in Copying => wslot[p] = state.wr
    /\ wpc[p] = "publish" => slot[state.wr] = wval[p]

WholeSlots ==
  /\ slot[state.rdy] # Torn
  /\ slot[state.rd] # Torn
  /\ state.fresh => slot[state.rdy] \in Values
  /\ rpc = "swap" => state.fresh
  /\ rpc = "copy" => /\ snapshot = slot[state.rd]
                     /\ snapshot \in Values
  /\ out # Torn

IInv == TypeOK /\ DistinctSlots /\ OneWriter /\ WholeSlots
=============================================================================
