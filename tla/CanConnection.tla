--------------------------- MODULE CanConnection ---------------------------
(***************************************************************************)
(* How a program gets a CAN socket for its hand: the scan for the hand's   *)
(* channel and the opening of the socket (hand_comms.cpp), the system      *)
(* calls behind it (canfd/transport.cpp) and the bring-up of a link that   *)
(* is down (canfd/interface_setup.cpp).                                    *)
(*                                                                         *)
(*   prog    per program its one HandComms: the call it is in, the config, *)
(*           and the socket it is setting up or using                      *)
(*   fds     per program the sockets the kernel holds open for it          *)
(*   link    the CAN interfaces of the host                                *)
(*   wired   the channel each hand is on                                   *)
(*   budget  failures and events left, which bound the model               *)
(*                                                                         *)
(* Every system call is a step of its own: other programs, the operator    *)
(* and the adapter act between any two of them.  A window of 150 ms is     *)
(* longer than the period of any sender, so whoever was sending when it    *)
(* opened and still sends has been heard before it closes.  HandCore calls *)
(* connect() only on a closed socket, so WrongCallOrder is left out.       *)
(*                                                                         *)
(* A definition that no other uses (BringLinkUpByName) is the one after it *)
(* with a bug in it, which the properties must notice.                     *)
(***************************************************************************)
EXTENDS Naturals, FiniteSets

CONSTANTS
  Programs,     \* the programs of the host, each with one hand
  Side,         \* the hand each program is configured for
  Config,       \* HandConfig::interface_name of each program, "auto" or a channel
  Channels,     \* the names of the CAN interfaces
  Wiring,       \* the channel each hand is on at first
  MaxFailures,  \* bound: system calls that fail for reasons of their own
  MaxEvents     \* bound: adapters replugged or unplugged, links taken down or up, hands moved

Sides == {"left", "right"}
AutoInterface == "auto"
Nowhere == "nowhere"

ASSUME CanConnectionAssumption ==
  /\ Side \in [Programs -> Sides]
  /\ {AutoInterface, Nowhere} \cap Channels = {} /\ Programs \cap Sides = {}
  /\ Config \in [Programs -> Channels \cup {AutoInterface}]
  /\ Wiring \in [Sides -> Channels \cup {Nowhere}]
  /\ MaxFailures \in Nat /\ MaxEvents \in Nat

VARIABLES prog, fds, link, wired, budget
vars == <<prog, fds, link, wired, budget>>

(* A frame, as the filters and decode() tell frames apart: whose ids it     *)
(* carries and whether the hand or a master sends it.                       *)
Frames == [side : Sides, kind : {"state", "command"}]

(* index 0: no such interface.  by: who brought it up.  rates: the bit      *)
(* rates in it, none in an adapter just plugged in, the protocol's, or      *)
(* others the operator chose.                                               *)
Links == [index : 0..MaxEvents + 1, up : BOOLEAN, rates : {"none", "protocol", "other"}, by : {"sdk", "operator"}]

(* A socket: the index it is bound to, 0 for none; whether only the ids of  *)
(* the hand pass; what it has queued; the senders a window has yet to hear. *)
NoSocket == [bound |-> 0, filtered |-> FALSE, masked |-> FALSE, queue |-> {}, owed |-> {}]

Init ==
  /\ prog = [p \in Programs |->
               [pc |-> "idle", name |-> Config[p], chan |-> Nowhere, index |-> 0, todo |-> {},
                scan |-> FALSE, sock |-> NoSocket, open |-> FALSE, running |-> FALSE,
                code |-> "None", rivals |-> {}, steady |-> FALSE, from |-> Config[p]]]
  /\ fds = [p \in Programs |-> 0]
  /\ link \in [Channels -> {[index |-> 1, up |-> TRUE, rates |-> "protocol", by |-> "operator"],
                            [index |-> 1, up |-> FALSE, rates |-> "none", by |-> "operator"]}]
  /\ wired = Wiring
  /\ budget = [failures |-> MaxFailures, events |-> MaxEvents]

-----------------------------------------------------------------------------
(* The bus *)

(* The senders on a channel: masters by name, a hand by its side. *)
Live(p) == prog[p].sock.bound # 0 /\ link[prog[p].chan].index = prog[p].sock.bound /\ link[prog[p].chan].up
Masters(c) == {p \in Programs : prog[p].running /\ prog[p].chan = c /\ Live(p)}
Senders(c) == Masters(c) \cup {s \in Sides : wired[s] = c /\ link[c].up}

OwnIdsOnlyState(p, f) == f.side = Side[p] /\ f.kind = "state"
OwnIds(p, f) == f.side = Side[p]
Passes(p, f) == ~prog[p].sock.filtered \/ OwnIds(p, f)

Deliver(sender, f, c) ==
  prog' = [p \in Programs |->
             IF p = sender \/ prog[p].chan # c \/ ~Live(p) THEN prog[p]
             ELSE [prog[p] EXCEPT !.sock.queue = IF Passes(p, f) THEN @ \cup {f} ELSE @,
                                  !.sock.owed = @ \ {sender}]]

(* decode(): the frame of another hand is unknown to this one. *)
DecodeAnySide(p, f) == IF f.kind = "state" THEN "Decoded" ELSE "ConflictingCommand"
Decode(p, f) ==
  CASE f.side # Side[p] -> "Unknown"
    [] f.side = Side[p] /\ f.kind = "state" -> "Decoded"
    [] f.side = Side[p] /\ f.kind = "command" -> "ConflictingCommand"

-----------------------------------------------------------------------------
(* A program in its call *)

In(p, label) == prog[p].pc = label
Set(p, r) == prog' = [prog EXCEPT ![p] = r]
At(p, label) == [prog[p] EXCEPT !.pc = label]

Ended(r, code) == [r EXCEPT !.pc = "idle", !.code = code, !.index = 0, !.todo = {}, !.scan = FALSE, !.rivals = {}]
Closed(r) == [r EXCEPT !.sock = NoSocket, !.open = FALSE, !.running = FALSE, !.chan = Nowhere]

(* What a failed opening comes to: a scan goes on to the next candidate, a  *)
(* connect() returns.                                                       *)
Back(r) ==
  IF r.scan THEN [r EXCEPT !.pc = "scan", !.sock = NoSocket, !.index = 0]
  ELSE Closed(Ended(r, "InterfaceUnavailable"))

(* A system call that can succeed when possible holds, and may fail anyway. *)
Outcomes(possible) ==
  (IF possible THEN {TRUE} ELSE {}) \cup (IF possible => budget.failures > 0 THEN {FALSE} ELSE {})
Spend(possible, ok) ==
  budget' = IF possible /\ ~ok THEN [budget EXCEPT !.failures = @ - 1] ELSE budget

(* Ghost bookkeeping: a scan cannot be expected to find the hand through a  *)
(* call that failed on the hand's own channel.                              *)
Troubled(p, r) == [r EXCEPT !.steady = @ /\ prog[p].chan # wired[Side[p]]]

(* One system call of p: on success it goes on as next, with delta more     *)
(* sockets; on failure it closes what the function has opened and is back.  *)
SystemCall(p, possible, next, delta, closes) ==
  \E ok \in Outcomes(possible) :
    /\ Spend(possible, ok)
    /\ Set(p, IF ok THEN next ELSE Troubled(p, Back(prog[p])))
    /\ fds' = [fds EXCEPT ![p] = IF ok THEN @ + delta ELSE @ - closes]

(* Opening index of the link p is at, in the kernel's eyes now. *)
Named(p) == link[prog[p].chan]
SameDevice(p) == Named(p).index # 0 /\ Named(p).index = prog[p].index

-----------------------------------------------------------------------------
(* connect() and discover_interface() *)

Connect(p) ==
  /\ In(p, "idle") /\ ~prog[p].open
  /\ LET hand == wired[Side[p]]
         call == [prog[p] EXCEPT !.code = "None", !.from = prog[p].name, !.steady = hand # Nowhere /\ link[hand].index # 0] IN
     Set(p, IF call.name = AutoInterface THEN [call EXCEPT !.pc = "list"]
            ELSE [call EXCEPT !.pc = "interface", !.chan = call.name, !.scan = FALSE])
  /\ UNCHANGED <<fds, link, wired, budget>>

ListInterfaces(p) ==
  /\ In(p, "list")
  /\ Set(p, [At(p, "scan") EXCEPT !.todo = {c \in Channels : link[c].index # 0}, !.scan = TRUE])
  /\ UNCHANGED <<fds, link, wired, budget>>

NextCandidate(p) ==
  /\ In(p, "scan")
  /\ \E c \in prog[p].todo : Set(p, [At(p, "interface") EXCEPT !.chan = c, !.todo = @ \ {c}])
  /\ UNCHANGED <<fds, link, wired, budget>>

ScanFails(p) ==
  /\ In(p, "scan") /\ prog[p].todo = {}
  /\ Set(p, Closed(Ended(prog[p], "InterfaceUnavailable")))
  /\ UNCHANGED <<fds, link, wired, budget>>

(* The window is over once everyone who was sending when it opened and      *)
(* still is has been heard, and the queue is drained.                       *)
WindowOver(p) ==
  prog[p].sock.queue = {} /\ (Live(p) => prog[p].sock.owed \cap Senders(prog[p].chan) = {})

(* One frame off the queue of the probing socket. *)
ScanHears(p) ==
  /\ In(p, "observe")
  /\ \E f \in prog[p].sock.queue :
       IF Decode(p, f) = "Decoded"
       THEN /\ Set(p, [At(p, "interface") EXCEPT !.name = prog[p].chan, !.scan = FALSE, !.todo = {}, !.sock = NoSocket])
            /\ fds' = [fds EXCEPT ![p] = @ - 1]
       ELSE Set(p, [prog[p] EXCEPT !.sock.queue = @ \ {f}]) /\ UNCHANGED fds
  /\ UNCHANGED <<link, wired, budget>>

ScanIsSilent(p) ==
  /\ In(p, "observe") /\ WindowOver(p)
  /\ Set(p, Back(prog[p]))
  /\ fds' = [fds EXCEPT ![p] = @ - 1]
  /\ UNCHANGED <<link, wired, budget>>

(* The probe for a conflicting master. *)
ProbeHears(p) ==
  /\ In(p, "probe")
  /\ \E f \in prog[p].sock.queue :
       IF Decode(p, f) = "ConflictingCommand"
       THEN /\ Set(p, [Back(prog[p]) EXCEPT !.code = "Conflict"])
            /\ fds' = [fds EXCEPT ![p] = @ - 1]
       ELSE Set(p, [prog[p] EXCEPT !.sock.queue = @ \ {f}]) /\ UNCHANGED fds
  /\ UNCHANGED <<link, wired, budget>>

ConnectSucceeds(p) ==
  /\ In(p, "probe") /\ WindowOver(p)
  /\ Set(p, Ended(prog[p], "None"))
  /\ UNCHANGED <<fds, link, wired, budget>>

Run(p) ==
  /\ In(p, "idle") /\ prog[p].open /\ ~prog[p].running
  /\ Set(p, [prog[p] EXCEPT !.running = TRUE])
  /\ UNCHANGED <<fds, link, wired, budget>>

Disconnect(p) ==
  /\ In(p, "idle") /\ prog[p].open
  /\ prog' = [q \in Programs |-> IF q = p THEN Closed(prog[p]) ELSE [prog[q] EXCEPT !.rivals = @ \ {p}]]
  /\ fds' = [fds EXCEPT ![p] = @ - 1]
  /\ UNCHANGED <<link, wired, budget>>

-----------------------------------------------------------------------------
(* ensure_interface_up() *)

FindInterface(p) ==
  /\ In(p, "interface")
  /\ Set(p, IF Named(p).index = 0 THEN Troubled(p, Back(prog[p]))
            ELSE [At(p, "is up") EXCEPT !.index = Named(p).index])
  /\ UNCHANGED <<fds, link, wired, budget>>

(* A query that fails counts as down. *)
IsInterfaceUp(p) ==
  /\ In(p, "is up")
  /\ \E answered \in Outcomes(TRUE) :
       /\ Spend(TRUE, answered)
       /\ Set(p, IF answered /\ Named(p).up THEN At(p, "socket") ELSE At(p, "netlink"))
  /\ UNCHANGED <<fds, link, wired>>

OpenNetlink(p) ==
  /\ In(p, "netlink")
  /\ SystemCall(p, TRUE, At(p, "configure"), 1, 0)
  /\ UNCHANGED <<link, wired>>

(* send_and_acknowledge(): the kernel applies a request for the index named *)
(* in it.  It refuses new bit rates while the link is up.                   *)
ConfigureProtocolConstants(p) ==
  /\ In(p, "configure")
  /\ SystemCall(p, SameDevice(p) /\ ~Named(p).up, At(p, "bring up"), 0, 1)
  /\ link' = IF prog'[p].pc = "bring up"
             THEN [link EXCEPT ![prog[p].chan].rates = "protocol"] ELSE link
  /\ UNCHANGED wired

BringLinkUpByName(p) ==
  /\ In(p, "bring up")
  /\ SystemCall(p, Named(p).index # 0, At(p, "socket"), 0 - 1, 1)
  /\ link' = IF prog'[p].pc = "socket" /\ ~Named(p).up
             THEN [link EXCEPT ![prog[p].chan].up = TRUE, ![prog[p].chan].by = "sdk"] ELSE link
  /\ UNCHANGED wired
BringLinkUp(p) ==
  /\ In(p, "bring up")
  /\ SystemCall(p, SameDevice(p), At(p, "socket"), 0 - 1, 1)
  /\ link' = IF prog'[p].pc = "socket" /\ ~Named(p).up
             THEN [link EXCEPT ![prog[p].chan].up = TRUE, ![prog[p].chan].by = "sdk"] ELSE link
  /\ UNCHANGED wired

-----------------------------------------------------------------------------
(* Transport::open(), set_id_filters() and set_error_mask() *)

CreateSocket(p) ==
  /\ In(p, "socket")
  /\ SystemCall(p, TRUE, At(p, "fd frames"), 1, 0)
  /\ UNCHANGED <<link, wired>>

EnableFdFrames(p) ==
  /\ In(p, "fd frames")
  /\ SystemCall(p, TRUE, At(p, "resolve"), 0, 1)
  /\ UNCHANGED <<link, wired>>

ResolveIndex(p) ==
  /\ In(p, "resolve")
  /\ SystemCall(p, Named(p).index # 0, [At(p, "bind") EXCEPT !.index = Named(p).index], 0, 1)
  /\ UNCHANGED <<link, wired>>

(* The socket receives from here on, every id until the filters are set. *)
Bind(p) ==
  /\ In(p, "bind")
  /\ SystemCall(p, SameDevice(p),
                [At(p, "filters") EXCEPT !.sock.bound = prog[p].index, !.open = ~prog[p].scan], 0, 1)
  /\ UNCHANGED <<link, wired>>

SetIdFiltersKept(p) ==
  /\ In(p, "filters")
  /\ \E ok \in Outcomes(TRUE) :
       /\ Spend(TRUE, ok)
       /\ Set(p, IF ok THEN [At(p, IF prog[p].scan THEN "observe" ELSE "error mask")
                               EXCEPT !.sock.filtered = TRUE, !.sock.owed = Senders(prog[p].chan)]
                 ELSE Ended(prog[p], "InterfaceUnavailable"))
  /\ UNCHANGED <<fds, link, wired>>
SetIdFilters(p) ==
  /\ In(p, "filters")
  /\ SystemCall(p, TRUE, [At(p, IF prog[p].scan THEN "observe" ELSE "error mask")
                            EXCEPT !.sock.filtered = TRUE, !.sock.owed = Senders(prog[p].chan)], 0, 1)
  /\ UNCHANGED <<link, wired>>

SetErrorMask(p) ==
  /\ In(p, "error mask")
  /\ LET masters == Masters(prog[p].chan) IN
     SystemCall(p, TRUE, [At(p, "probe") EXCEPT !.sock.masked = TRUE, !.sock.owed = Senders(prog[p].chan),
                                                !.rivals = {q \in masters : Side[q] = Side[p]}], 0, 1)
  /\ UNCHANGED <<link, wired>>

-----------------------------------------------------------------------------
(* What goes on around the programs *)

Transmit(p) ==
  /\ prog[p].running /\ Live(p)
  /\ Deliver(p, [side |-> Side[p], kind |-> "command"], prog[p].chan)
  /\ UNCHANGED <<fds, link, wired, budget>>

HandSpeaks(s) ==
  /\ wired[s] # Nowhere /\ link[wired[s]].up
  /\ Deliver(s, [side |-> s, kind |-> "state"], wired[s])
  /\ UNCHANGED <<fds, link, wired, budget>>

(* Ghost bookkeeping: nobody is expected to find a hand that was disturbed. *)
Disturb(s) == prog' = [p \in Programs |-> IF Side[p] \in s THEN [prog[p] EXCEPT !.steady = FALSE] ELSE prog[p]]
On(c) == {s \in Sides : wired[s] = c}

Event(c, new) ==
  /\ budget.events > 0 /\ budget' = [budget EXCEPT !.events = @ - 1]
  /\ link' = [link EXCEPT ![c] = new]
  /\ Disturb(On(c))
  /\ UNCHANGED <<fds, wired>>
Replug(c) ==
  Event(c, [link[c] EXCEPT !.index = MaxEvents + 2 - budget.events, !.up = FALSE, !.rates = "none"])
Unplug(c) == Event(c, [link[c] EXCEPT !.index = 0, !.up = FALSE, !.rates = "none"])
TakeDown(c) == link[c].up /\ Event(c, [link[c] EXCEPT !.up = FALSE])
BringUpByHand(c) ==
  /\ link[c].index # 0 /\ ~link[c].up
  /\ \E rates \in {"protocol", "other"} : Event(c, [link[c] EXCEPT !.up = TRUE, !.rates = rates, !.by = "operator"])

Move(s) ==
  /\ budget.events > 0 /\ budget' = [budget EXCEPT !.events = @ - 1]
  /\ \E c \in (Channels \cup {Nowhere}) \ {wired[s]} : wired' = [wired EXCEPT ![s] = c]
  /\ Disturb({s})
  /\ UNCHANGED <<fds, link>>

-----------------------------------------------------------------------------
Opening(p) ==
  \/ FindInterface(p) \/ IsInterfaceUp(p) \/ OpenNetlink(p) \/ ConfigureProtocolConstants(p) \/ BringLinkUp(p)
  \/ CreateSocket(p) \/ EnableFdFrames(p) \/ ResolveIndex(p) \/ Bind(p) \/ SetIdFilters(p) \/ SetErrorMask(p)
InCall(p) ==
  \/ ListInterfaces(p) \/ NextCandidate(p) \/ ScanFails(p) \/ ScanHears(p) \/ ScanIsSilent(p)
  \/ Opening(p) \/ ProbeHears(p) \/ ConnectSucceeds(p)
Next ==
  \/ \E p \in Programs : Connect(p) \/ InCall(p) \/ Run(p) \/ Disconnect(p) \/ Transmit(p)
  \/ \E s \in Sides : HandSpeaks(s) \/ Move(s)
  \/ \E c \in Channels : Replug(c) \/ Unplug(c) \/ TakeDown(c) \/ BringUpByHand(c)
Spec == Init /\ [][Next]_vars

-----------------------------------------------------------------------------
(* Properties *)

Labels == {"idle", "list", "scan", "interface", "is up", "netlink", "configure", "bring up", "socket",
           "fd frames", "resolve", "bind", "filters", "error mask", "observe", "probe"}

Sockets ==
  [bound : 0..MaxEvents + 1, filtered : BOOLEAN, masked : BOOLEAN, queue : SUBSET Frames,
   owed : SUBSET (Programs \cup Sides)]
Calls ==
  [pc : Labels, name : Channels \cup {AutoInterface}, chan : Channels \cup {Nowhere}, index : 0..MaxEvents + 1,
   todo : SUBSET Channels, scan : BOOLEAN, open : BOOLEAN, running : BOOLEAN, steady : BOOLEAN,
   from : Channels \cup {AutoInterface}, code : {"None", "InterfaceUnavailable", "Conflict"}, rivals : SUBSET Programs,
   sock : Sockets]

(* Every variable has its type; a program holds at most one CAN socket and, *)
(* while it brings a link up, one netlink socket.                           *)
TypeOK ==
  /\ prog \in [Programs -> Calls]
  /\ fds \in [Programs -> 0..1]
  /\ link \in [Channels -> Links]
  /\ wired \in [Sides -> Channels \cup {Nowhere}]
  /\ budget \in [failures : 0..MaxFailures, events : 0..MaxEvents]

(* Whatever step of a scan or an opening failed, a program between its      *)
(* calls has exactly the socket it is connected through, and one that it    *)
(* counts as connected is filtered and reports errors.                      *)
SocketsAreOwned ==
  \A p \in Programs : In(p, "idle") =>
    /\ fds[p] = IF prog[p].open THEN 1 ELSE 0
    /\ prog[p].open => prog[p].sock.filtered /\ prog[p].sock.masked

(* The SDK brings up no link whose bit rates nobody has set: an adapter     *)
(* that was replaced between the configuration and the bring-up, which      *)
(* would come up without them, is another index.  (Rates the operator gives *)
(* the same adapter in between do stay: the bring-up names the index only.) *)
BroughtUpConfigured == \A c \in Channels : link[c].up /\ link[c].by = "sdk" => link[c].rates # "none"

Returns(p) == ~In(p, "idle") /\ prog'[p].pc = "idle"

(* connect() does not succeed next to a master that was commanding the same *)
(* hand when the probe began and still is.                                  *)
MasterIsNoticed ==
  [][\A p \in Programs : ConnectSucceeds(p) /\ Live(p) => prog[p].rivals \cap Masters(prog[p].chan) = {}]_vars

(* A scan during which the hand stayed on one channel and that channel gave *)
(* no trouble ends connected to it, or names the other master: no candidate *)
(* that is silent or does not open, and no other hand, ends the search.     *)
EndsAtItsHand(p) ==
  prog'[p].steady => prog'[p].code = "Conflict" \/ (prog'[p].open /\ prog'[p].chan = wired[Side[p]])
ScanFindsItsHand ==
  [][\A p \in Programs : Returns(p) /\ prog[p].from = AutoInterface => EndsAtItsHand(p)]_vars

(* What a comment expects of "auto" on a later connection.  The code pins   *)
(* the channel the first scan found, and never scans again.                 *)
AutoFollowsItsHand ==
  [][\A p \in Programs : Returns(p) /\ Config[p] = AutoInterface => EndsAtItsHand(p)]_vars
=============================================================================
