------------------------ MODULE RealtimeBufferProofs ------------------------
(***************************************************************************)
(* The slots of a RealtimeBuffer never overlap, a read is never torn, and  *)
(* the buffer implements the mailbox of LatestValue: for any number of     *)
(* producers under the lock and any set of payloads.                       *)
(***************************************************************************)
EXTENDS RealtimeBuffer, TLAPS

(* The invariant holds before the first write(). *)
LEMMA InitIInv == Init => IInv
  BY BufferAssumption
  DEF Init, IInv, TypeOK, DistinctSlots, OneWriter, WholeSlots, Slots, Copying

(* Every step of either side keeps it. *)
LEMMA NextIInv == IInv /\ [Next]_vars => IInv'
<1> SUFFICES ASSUME IInv, [Next]_vars PROVE IInv'
  OBVIOUS
<1> USE BufferAssumption DEF IInv, TypeOK, DistinctSlots, OneWriter, WholeSlots, Slots, Copying
<1>1. ASSUME NEW p \in Producers, NEW v \in Values, Lock(p, v) PROVE IInv'
  BY <1>1 DEF Lock
<1>2. ASSUME NEW p \in Producers, BeginWrite(p) PROVE IInv'
  <2>1. TypeOK'
    BY <1>2 DEF BeginWrite
  <2>2. (DistinctSlots /\ OneWriter)'
    BY <1>2 DEF BeginWrite
  <2>3. WholeSlots'
    BY <1>2 DEF BeginWrite
  <2> QED
    BY <2>1, <2>2, <2>3
<1>3. ASSUME NEW p \in Producers, EndWrite(p) PROVE IInv'
  <2>1. wslot[p] = state.wr /\ wval[p] \in Values /\ mutex = p
    BY <1>3 DEF EndWrite
  <2>2. TypeOK'
    BY <1>3, <2>1 DEF EndWrite
  <2>3. (DistinctSlots /\ OneWriter)'
    BY <1>3, <2>1 DEF EndWrite
  <2>4. WholeSlots'
    BY <1>3, <2>1 DEF EndWrite
  <2> QED
    BY <2>2, <2>3, <2>4
<1>4. ASSUME NEW p \in Producers, Publish(p) PROVE IInv'
  <2>1. mutex = p /\ slot[state.wr] = wval[p] /\ wval[p] \in Values
    BY <1>4 DEF Publish
  <2>2. TypeOK' /\ DistinctSlots'
    BY <1>4 DEF Publish
  <2>3. OneWriter'
    BY <1>4, <2>1 DEF Publish
  <2>4. WholeSlots'
    BY <1>4, <2>1 DEF Publish
  <2> QED
    BY <2>2, <2>3, <2>4
<1>5. ASSUME BeginRead PROVE IInv'
  BY <1>5 DEF BeginRead
<1>6. ASSUME Swap PROVE IInv'
  <2>1. TypeOK' /\ DistinctSlots'
    BY <1>6 DEF Swap
  <2>2. OneWriter' /\ WholeSlots'
    BY <1>6 DEF Swap
  <2> QED
    BY <2>1, <2>2
<1>7. ASSUME EndRead PROVE IInv'
  BY <1>7 DEF EndRead
<1>8. CASE UNCHANGED vars
  BY <1>8 DEF vars
<1> QED
  BY <1>1, <1>2, <1>3, <1>4, <1>5, <1>6, <1>7, <1>8 DEF Next, Produce, Consume

(* The invariant holds in every state the buffer reaches. *)
LEMMA Invariance == Spec => []IInv
  BY InitIInv, NextIInv, PTL DEF Spec

(* Every variable of the buffer keeps its type. *)
THEOREM TypeCorrect == Spec => []TypeOK
<1>1. IInv => TypeOK
  BY DEF IInv
<1> QED
  BY Invariance, <1>1, PTL

(* No producer ever writes the slot the consumer is copying out of. *)
THEOREM SlotsDisjoint == Spec => []NoSharedSlot
<1>1. IInv => NoSharedSlot
  BY DEF IInv, DistinctSlots, OneWriter, NoSharedSlot, Copying
<1> QED
  BY Invariance, <1>1, PTL

(* read() never returns a payload that was overwritten during its copy. *)
THEOREM ReadsWhole == Spec => []NoTornRead
<1>1. IInv => NoTornRead
  BY DEF IInv, WholeSlots, NoTornRead
<1> QED
  BY Invariance, <1>1, PTL

(* The mailbox starts empty. *)
LEMMA InitMailbox == Init => Mailbox!Init
  BY DEF Init, Mailbox!Init

(* A step of the buffer is a Put, a Take or nothing to the mailbox. *)
LEMMA StepMailbox == IInv /\ [Next]_vars => [Mailbox!Next]_(Mailbox!vars)
<1> SUFFICES ASSUME IInv, [Next]_vars PROVE [Mailbox!Next]_(Mailbox!vars)
  OBVIOUS
<1> USE BufferAssumption DEF IInv, TypeOK, DistinctSlots, OneWriter, WholeSlots, Slots, Copying,
        Mailbox!vars
<1>1. ASSUME NEW p \in Producers, NEW v \in Values, Lock(p, v)
      PROVE  UNCHANGED Mailbox!vars
  BY <1>1 DEF Lock
<1>2. ASSUME NEW p \in Producers, BeginWrite(p) PROVE UNCHANGED Mailbox!vars
  BY <1>2 DEF BeginWrite
<1>3. ASSUME NEW p \in Producers, EndWrite(p) PROVE UNCHANGED Mailbox!vars
  BY <1>3 DEF EndWrite
<1>4. ASSUME NEW p \in Producers, Publish(p) PROVE Mailbox!Next
  <2>1. slot[state.wr] = wval[p] /\ wval[p] \in Values
    BY <1>4 DEF Publish
  <2>2. Mailbox!Put(wval[p])
    BY <1>4, <2>1 DEF Publish, Mailbox!Put
  <2> QED
    BY <2>1, <2>2 DEF Mailbox!Next
<1>5. ASSUME BeginRead PROVE UNCHANGED Mailbox!vars
  BY <1>5 DEF BeginRead
<1>6. ASSUME Swap PROVE Mailbox!Next
  <2>1. state.fresh /\ slot[state.rdy] \in Values
    BY <1>6 DEF Swap
  <2>2. Mailbox!Take
    BY <1>6, <2>1 DEF Swap, Mailbox!Take
  <2> QED
    BY <2>2 DEF Mailbox!Next
<1>7. ASSUME EndRead PROVE UNCHANGED Mailbox!vars
  BY <1>7 DEF EndRead
<1>8. CASE UNCHANGED vars
  BY <1>8 DEF vars
<1> QED
  BY <1>1, <1>2, <1>3, <1>4, <1>5, <1>6, <1>7, <1>8 DEF Next, Produce, Consume

(* The triple buffer implements the mailbox of the latest value. *)
THEOREM BufferIsMailbox == Spec => ImplementsLatestValue
<1>1. Init /\ [][Next]_vars /\ []IInv => Mailbox!Init /\ [][Mailbox!Next]_(Mailbox!vars)
  BY InitMailbox, StepMailbox, PTL
<1> QED
  BY Invariance, <1>1, PTL DEF Spec, ImplementsLatestValue, Mailbox!Spec
=============================================================================
