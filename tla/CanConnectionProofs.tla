------------------------ MODULE CanConnectionProofs ------------------------
(***************************************************************************)
(* No call leaks or loses a socket, no link is brought up without bit      *)
(* rates, a probe notices the master it started next to, and a scan that   *)
(* is not disturbed ends at its hand: for any number of programs, channels,*)
(* failures and events.                                                    *)
(***************************************************************************)
EXTENDS CanConnection, TLAPS

-----------------------------------------------------------------------------
(* The inductive invariant, in four parts.                                 *)

(* Where a call holds a socket, and where that socket is bound.            *)
Holding == {"configure", "bring up", "fd frames", "resolve", "bind", "filters", "error mask", "observe", "probe"}
Bound == {"filters", "error mask", "observe", "probe"}

(* A call r that holds n sockets. *)
Owns(r, n) ==
  /\ n = IF r.pc \in Holding \/ (r.pc = "idle" /\ r.open) THEN 1 ELSE 0
  /\ r.pc \notin {"idle", "list", "scan"} \/ r.open => r.chan \in Channels
  /\ r.pc \in Bound => r.open = ~r.scan
  /\ r.pc \notin Bound \cup {"idle"} => ~r.open
  /\ r.pc \in {"scan", "observe"} => r.scan
  /\ r.pc \in {"error mask", "probe"} => ~r.scan
  /\ r.running => r.pc = "idle" /\ r.open

(* How far the socket of r is set up. *)
SetUp(r) ==
  /\ r.pc \notin Bound /\ ~(r.pc = "idle" /\ r.open) => r.sock = NoSocket
  /\ r.pc \in {"error mask", "observe", "probe"} => r.sock.filtered
  /\ r.pc = "probe" => r.sock.masked
  /\ r.pc = "idle" /\ r.open => r.sock.filtered /\ r.sock.masked

CallsOwn == TypeOK /\ \A p \in Programs : Owns(prog[p], fds[p]) /\ SetUp(prog[p])

(* An index is never given twice on a host; between the configuration and  *)
(* the bring-up, a link that still has the index has bit rates.            *)
Fresh == MaxEvents + 2 - budget.events
Indexed ==
  /\ \A c \in Channels : link[c].index < Fresh
  /\ \A p \in Programs : prog[p].index < Fresh
  /\ \A p \in Programs : In(p, "bring up") /\ SameDevice(p) => Named(p).rates # "none"
LinksConfigured == CallsOwn /\ Indexed /\ BroughtUpConfigured

(* A rival not yet heard is still owed; one that was is in the queue.      *)
Command(s) == [side |-> s, kind |-> "command"]
State(s) == [side |-> s, kind |-> "state"]
Heard(r, s) ==
  r.pc = "probe" => \A q \in r.rivals : Side[q] = s /\ (q \in r.sock.owed \/ Command(s) \in r.sock.queue)
RivalsAreHeard == CallsOwn /\ \A p \in Programs : Heard(prog[p], Side[p])

(* A scan that nothing disturbed has the channel h of its hand s before it *)
(* or is at it; what it does there succeeds, and only there can it hear    *)
(* its hand.  l is the link of h.                                          *)
Opened == {"socket", "fd frames", "resolve", "bind"} \cup Bound
OnTheWay(r, s, h, l) ==
  /\ h \in Channels /\ l.index # 0
  /\ r.pc # "list" /\ r.scan => h \in r.todo \/ (r.chan = h /\ r.pc # "scan")
  /\ r.pc # "list" /\ ~r.scan => r.chan = h
  /\ r.pc \in Opened /\ r.chan = h => l.up
  /\ r.pc \in Bound /\ r.chan = h => r.sock.bound = l.index
  /\ r.pc = "observe" /\ r.chan = h => s \in r.sock.owed \/ State(s) \in r.sock.queue
  /\ State(s) \in r.sock.queue => r.chan = h
Expected(r) == r.pc # "idle" /\ r.from = AutoInterface /\ r.steady
ScansAreOnTheWay ==
  CallsOwn /\ \A p \in Programs : Expected(prog[p]) => OnTheWay(prog[p], Side[p], wired[Side[p]], link[wired[Side[p]]])

-----------------------------------------------------------------------------
(* First part: the sockets.                                                *)

(* What the constants are, in the form the proofs use. *)
LEMMA Constants ==
  /\ MaxEvents \in Nat /\ MaxFailures \in Nat
  /\ 0 \in 0..MaxEvents + 1 /\ 1 \in 0..MaxEvents + 1
  /\ AutoInterface \notin Channels /\ Nowhere \notin Channels
  /\ Programs \cap Sides = {} /\ Side \in [Programs -> Sides]
  /\ Config \in [Programs -> Channels \cup {AutoInterface}]
  /\ NoSocket \in Sockets /\ NoSocket.bound = 0 /\ NoSocket.queue = {}
BY CanConnectionAssumption DEF NoSocket, Sockets

(* A call that fails while it opens something gives back all it holds, and *)
(* the ghost of a scan has no part in that.                                *)
LEMMA FailureOwns ==
  ASSUME NEW r \in Calls, NEW n, Owns(r, n), SetUp(r), r.pc \notin {"idle", "list", "scan"}, NEW b \in BOOLEAN
  PROVE  /\ Back(r) \in Calls /\ [Back(r) EXCEPT !.steady = b] \in Calls
         /\ Owns([Back(r) EXCEPT !.steady = b], 0) /\ SetUp([Back(r) EXCEPT !.steady = b])
         /\ Owns(Back(r), 0) /\ SetUp(Back(r)) /\ Back(r).pc \in {"scan", "idle"}
<1>1. NoSocket \in Sockets /\ 0 \in 0..MaxEvents + 1
  BY Constants
<1>2. CASE r.scan
  <2>1. Back(r) = [r EXCEPT !.pc = "scan", !.sock = NoSocket, !.index = 0]
    BY <1>2 DEF Back
  <2>2. Back(r) \in Calls
    BY <1>1, <2>1 DEF Calls, Labels
  <2>3. Owns([Back(r) EXCEPT !.steady = b], 0) /\ Owns(Back(r), 0)
    <3> DEFINE s == [Back(r) EXCEPT !.steady = b]
    <3>1. ~r.running /\ (r.open => r.pc \in Bound)
      BY DEF Owns
    <3>2. r.open => ~r.scan
      BY <3>1 DEF Owns
    <3>3. Back(r).pc = "scan" /\ Back(r).scan /\ ~Back(r).running /\ ~Back(r).open
      BY <1>2, <2>1, <3>1, <3>2 DEF Calls
    <3>4. s.pc = "scan" /\ s.scan /\ ~s.running /\ ~s.open
      BY <2>2, <3>3 DEF Calls
    <3> HIDE DEF s
    <3>5. Owns(s, 0) /\ Owns(Back(r), 0)
      BY <3>3, <3>4 DEF Owns, Holding, Bound
    <3> QED
      BY <3>5 DEF s
  <2>4. SetUp([Back(r) EXCEPT !.steady = b]) /\ SetUp(Back(r))
    BY <1>2, <2>1 DEF Calls, SetUp, Owns, Holding, Bound
  <2> QED
    BY <2>1, <2>2, <2>3, <2>4 DEF Calls, Closed, Ended
<1>3. CASE ~r.scan
  <2>1. Back(r) = Closed(Ended(r, "InterfaceUnavailable"))
    BY <1>3 DEF Back
  <2>2. Back(r) \in Calls
    BY <1>1, <2>1 DEF Calls, Labels, Closed, Ended
  <2>3. Owns([Back(r) EXCEPT !.steady = b], 0) /\ Owns(Back(r), 0)
    <3> DEFINE s == [Back(r) EXCEPT !.steady = b]
    <3>1. Back(r).pc = "idle" /\ ~Back(r).running /\ ~Back(r).open
      BY <2>1 DEF Calls, Closed, Ended
    <3>2. s.pc = "idle" /\ ~s.running /\ ~s.open
      BY <2>2, <3>1 DEF Calls
    <3> HIDE DEF s
    <3>3. Owns(s, 0) /\ Owns(Back(r), 0)
      BY <3>1, <3>2 DEF Owns, Holding, Bound
    <3> QED
      BY <3>3 DEF s
  <2>4. SetUp([Back(r) EXCEPT !.steady = b]) /\ SetUp(Back(r))
    BY <1>3, <2>1 DEF Calls, SetUp, Owns, Holding, Bound, Closed, Ended
  <2> QED
    BY <2>1, <2>2, <2>3, <2>4 DEF Calls, Closed, Ended
<1> QED
  BY <1>2, <1>3 DEF Calls

(* What a system call makes of the call of p when it succeeds: r, which    *)
(* then holds n sockets.                                                   *)
Advances(p, r) ==
  /\ r = At(p, r.pc)
  /\ \/ In(p, "is up") /\ (r.pc = "netlink" \/ (r.pc = "socket" /\ Named(p).up))
     \/ In(p, "netlink") /\ r.pc = "configure"
     \/ In(p, "configure") /\ r.pc = "bring up" /\ SameDevice(p)
     \/ In(p, "bring up") /\ r.pc = "socket" /\ SameDevice(p)
     \/ In(p, "socket") /\ r.pc = "fd frames"
     \/ In(p, "fd frames") /\ r.pc = "resolve"
Resolves(p, r) ==
  /\ r = [At(p, r.pc) EXCEPT !.index = Named(p).index] /\ Named(p).index # 0
  /\ (In(p, "interface") /\ r.pc = "is up") \/ (In(p, "resolve") /\ r.pc = "bind")
Binds(p, r) ==
  /\ In(p, "bind") /\ SameDevice(p)
  /\ r = [At(p, "filters") EXCEPT !.sock = [prog[p].sock EXCEPT !.bound = prog[p].index], !.open = ~prog[p].scan]
Filters(p, r) ==
  /\ In(p, "filters")
  /\ r = [At(p, IF prog[p].scan THEN "observe" ELSE "error mask")
            EXCEPT !.sock = [prog[p].sock EXCEPT !.filtered = TRUE, !.owed = Senders(prog[p].chan)]]
Masks(p, r) ==
  /\ In(p, "error mask")
  /\ r = [At(p, "probe") EXCEPT !.sock = [prog[p].sock EXCEPT !.masked = TRUE, !.owed = Senders(prog[p].chan)],
                                !.rivals = {q \in Masters(prog[p].chan) : Side[q] = Side[p]}]
Onward(p, r, n) ==
  /\ Advances(p, r) \/ Resolves(p, r) \/ Binds(p, r) \/ Filters(p, r) \/ Masks(p, r)
  /\ n = IF r.pc \in Holding THEN 1 ELSE 0

(* What it makes of the links. *)
Configured(p) == [link EXCEPT ![prog[p].chan].rates = "protocol"]
BroughtUp(p) == [link EXCEPT ![prog[p].chan].up = TRUE, ![prog[p].chan].by = "sdk"]

(* A step of an opening goes on or fails, and only two of them touch a     *)
(* link, which is then down.                                               *)
LEMMA OpeningSteps ==
  ASSUME CallsOwn, NEW p \in Programs, Opening(p)
  PROVE  /\ wired' = wired /\ budget'.events = budget.events
         /\ budget' \in [failures : 0..MaxFailures, events : 0..MaxEvents]
         /\ \/ \E r, n : /\ Onward(p, r, n)
                         /\ prog' = [prog EXCEPT ![p] = r] /\ fds' = [fds EXCEPT ![p] = n]
                         /\ \/ link' = link /\ r.pc # "bring up"
                            \/ In(p, "configure") /\ link' = Configured(p)
                            \/ In(p, "bring up") /\ ~Named(p).up /\ link' = BroughtUp(p)
            \/ \E b \in BOOLEAN :
                 /\ b => prog[p].steady /\ prog[p].chan # wired[Side[p]]
                 /\ prog' = [prog EXCEPT ![p] = [Back(prog[p]) EXCEPT !.steady = b]]
                 /\ fds' = [fds EXCEPT ![p] = 0] /\ link' = link
<1>1. /\ prog \in [Programs -> Calls] /\ prog[p] \in Calls /\ Owns(prog[p], fds[p]) /\ fds \in [Programs -> 0..1]
      /\ budget \in [failures : 0..MaxFailures, events : 0..MaxEvents]
  BY DEF CallsOwn, TypeOK
<1>2. /\ Troubled(p, Back(prog[p])).pc \in {"idle", "scan"}
      /\ \E b \in BOOLEAN : /\ b => prog[p].steady /\ prog[p].chan # wired[Side[p]]
                            /\ Troubled(p, Back(prog[p])) = [Back(prog[p]) EXCEPT !.steady = b]
  BY <1>1 DEF Troubled, Back, Closed, Ended, Calls
<1>3. ASSUME NEW possible \in BOOLEAN, NEW ok, ok \in Outcomes(possible), Spend(possible, ok)
      PROVE  /\ ok \in BOOLEAN /\ (ok => possible) /\ budget'.events = budget.events
             /\ budget' \in [failures : 0..MaxFailures, events : 0..MaxEvents]
  <2>1. ok \in BOOLEAN /\ (ok => possible) /\ (possible /\ ~ok => budget.failures > 0)
    BY <1>3 DEF Outcomes
  <2>2. budget.failures \in 0..MaxFailures /\ budget.events \in 0..MaxEvents /\ MaxFailures \in Nat
    BY <1>1, Constants
  <2>3. CASE possible /\ ~ok
    <3>1. budget' = [budget EXCEPT !.failures = budget.failures - 1]
      BY <1>3, <2>3 DEF Spend
    <3>2. budget.failures - 1 \in 0..MaxFailures
      BY <2>1, <2>2, <2>3
    <3> QED
      BY <1>1, <2>1, <3>1, <3>2
  <2>4. CASE ~(possible /\ ~ok)
    BY <1>1, <1>3, <2>1, <2>4 DEF Spend
  <2> QED
    BY <2>3, <2>4
<1> DEFINE Fails ==
      \E b \in BOOLEAN :
        /\ b => prog[p].steady /\ prog[p].chan # wired[Side[p]]
        /\ prog' = [prog EXCEPT ![p] = [Back(prog[p]) EXCEPT !.steady = b]]
        /\ fds' = [fds EXCEPT ![p] = 0] /\ prog'[p].pc \in {"idle", "scan"}
<1>4. ASSUME prog' = [prog EXCEPT ![p] = Troubled(p, Back(prog[p]))], fds' = [fds EXCEPT ![p] = 0]
      PROVE  Fails
  BY <1>1, <1>2, <1>4
<1> HIDE DEF Fails
<1> DEFINE Goes ==
      \E r, n : /\ Onward(p, r, n)
               /\ prog' = [prog EXCEPT ![p] = r] /\ fds' = [fds EXCEPT ![p] = n]
               /\ \/ link' = link /\ r.pc # "bring up"
                  \/ In(p, "configure") /\ link' = Configured(p)
                  \/ In(p, "bring up") /\ ~Named(p).up /\ link' = BroughtUp(p)
<1>5. SUFFICES /\ wired' = wired /\ budget'.events = budget.events
               /\ budget' \in [failures : 0..MaxFailures, events : 0..MaxEvents]
               /\ Goes \/ (Fails /\ link' = link)
  BY <1>5 DEF Goes, Fails
<1> HIDE DEF Goes
<1>6. Named(p).up \in BOOLEAN /\ SameDevice(p) \in BOOLEAN /\ (Named(p).index # 0) \in BOOLEAN
  <2>1. prog[p].pc \notin {"idle", "list", "scan"}
    BY DEF Opening, FindInterface, IsInterfaceUp, OpenNetlink, ConfigureProtocolConstants, BringLinkUp, CreateSocket,
           EnableFdFrames, ResolveIndex, Bind, SetIdFilters, SetErrorMask, In
  <2>2. prog[p].chan \in Channels
    BY <1>1, <2>1 DEF Owns
  <2>3. link[prog[p].chan] \in Links
    BY <2>2 DEF CallsOwn, TypeOK
  <2> QED
    BY <2>3 DEF Links, Named, SameDevice
<1>7. CASE FindInterface(p)
  <2>1. fds = [fds EXCEPT ![p] = 0] /\ In(p, "interface")
    BY <1>1, <1>7 DEF FindInterface, Owns, Holding, In
  <2>2. CASE Named(p).index = 0
    <3>1. prog' = [prog EXCEPT ![p] = Troubled(p, Back(prog[p]))] /\ fds' = fds
      BY <1>7, <2>2 DEF FindInterface, Set
    <3>2. Fails
      BY <1>1, <1>2, <2>1, <3>1 DEF Fails
    <3> QED
      BY <1>1, <1>7, <3>2 DEF FindInterface
  <2>3. CASE Named(p).index # 0
    <3> DEFINE r == [At(p, "is up") EXCEPT !.index = Named(p).index]
    <3>1. Onward(p, r, 0) /\ r.pc # "bring up"
      BY <1>1, <2>1, <2>3 DEF Onward, Resolves, At, Calls, Holding
    <3>2. prog' = [prog EXCEPT ![p] = r] /\ fds' = [fds EXCEPT ![p] = 0] /\ link' = link
      BY <1>7, <2>1, <2>3, <3>1 DEF FindInterface, Set
    <3> HIDE DEF r
    <3>3. Goes
      BY <2>1, <3>1, <3>2 DEF Goes
    <3> QED
      BY <1>1, <1>7, <3>3 DEF FindInterface
  <2> QED
    BY <2>2, <2>3
<1>8. CASE IsInterfaceUp(p)
  <2>1. PICK ok \in Outcomes(TRUE) :
          /\ Spend(TRUE, ok)
          /\ Set(p, IF ok /\ Named(p).up THEN At(p, "socket") ELSE At(p, "netlink"))
    BY <1>8 DEF IsInterfaceUp
  <2> DEFINE r == IF ok /\ Named(p).up THEN At(p, "socket") ELSE At(p, "netlink")
  <2>2. Onward(p, r, 0) /\ r.pc # "bring up"
    BY <1>1, <1>8 DEF IsInterfaceUp, Onward, Advances, At, Calls, Holding
  <2>3. fds = [fds EXCEPT ![p] = 0]
    BY <1>1, <1>8 DEF IsInterfaceUp, Owns, Holding, In
  <2>4. prog' = [prog EXCEPT ![p] = r] /\ fds' = [fds EXCEPT ![p] = 0] /\ link' = link
    BY <1>8, <2>1, <2>2, <2>3 DEF IsInterfaceUp, Set
  <2> HIDE DEF r
  <2>5. Goes
    BY <2>2, <2>4 DEF Goes
  <2> QED
    BY <1>3, <1>8, <2>1, <2>5 DEF IsInterfaceUp
<1>9. CASE OpenNetlink(p)
  <2> DEFINE r == At(p, "configure")
  <2>1. PICK ok \in Outcomes(TRUE) :
          /\ Spend(TRUE, ok)
          /\ prog' = [prog EXCEPT ![p] = IF ok THEN r ELSE Troubled(p, Back(prog[p]))]
          /\ fds' = [fds EXCEPT ![p] = IF ok THEN @ + 1 ELSE @ - 0]
    BY <1>9 DEF OpenNetlink, SystemCall, Set
  <2>2. fds[p] = 0
    BY <1>1, <1>9 DEF OpenNetlink, Owns, Holding, In
  <2>3. ASSUME TRUE
        PROVE  Onward(p, r, 1) /\ r.pc # "bring up"
    BY <1>1, <1>9, <2>3 DEF OpenNetlink, Onward, Advances, At, Calls, Holding
  <2> HIDE DEF r
  <2>4. /\ budget'.events = budget.events
        /\ budget' \in [failures : 0..MaxFailures, events : 0..MaxEvents]
        /\ \/ /\ TRUE
              /\ prog' = [prog EXCEPT ![p] = r] /\ fds' = [fds EXCEPT ![p] = 1]
           \/ Fails
    <3>1. ok \in BOOLEAN /\ (ok => TRUE)
      BY <1>3, <1>6, <2>1
    <3>2. /\ budget'.events = budget.events
          /\ budget' \in [failures : 0..MaxFailures, events : 0..MaxEvents]
      BY <1>3, <1>6, <2>1 DEF Spend
    <3>3. CASE ok
      <4>1. prog' = [prog EXCEPT ![p] = r] /\ fds' = [fds EXCEPT ![p] = 1]
        BY <2>1, <2>2, <3>1, <3>3
      <4> QED
        BY <3>1, <3>2, <3>3, <4>1
    <3>4. CASE ~ok
      <4>1. /\ prog' = [prog EXCEPT ![p] = Troubled(p, Back(prog[p]))]
            /\ fds' = [fds EXCEPT ![p] = 0]
        BY <2>1, <2>2, <3>1, <3>4
      <4> QED
        BY <1>4, <3>2, <4>1
    <3> QED
      BY <3>1, <3>3, <3>4
  <2>5. wired' = wired /\ link' = link
    BY <1>9 DEF OpenNetlink
  <2> QED
    BY <2>3, <2>4, <2>5 DEF Goes
<1>10. CASE ConfigureProtocolConstants(p)
  <2> DEFINE r == At(p, "bring up")
  <2>1. PICK ok \in Outcomes(SameDevice(p) /\ ~Named(p).up) :
          /\ Spend(SameDevice(p) /\ ~Named(p).up, ok)
          /\ prog' = [prog EXCEPT ![p] = IF ok THEN r ELSE Troubled(p, Back(prog[p]))]
          /\ fds' = [fds EXCEPT ![p] = IF ok THEN @ + 0 ELSE @ - 1]
    BY <1>10 DEF ConfigureProtocolConstants, SystemCall, Set
  <2>2. fds[p] = 1
    BY <1>1, <1>10 DEF ConfigureProtocolConstants, Owns, Holding, In
  <2>3. ASSUME SameDevice(p) /\ ~Named(p).up
        PROVE  Onward(p, r, 1) /\ r.pc = "bring up"
    BY <1>1, <1>10, <2>3 DEF ConfigureProtocolConstants, Onward, Advances, At, Calls, Holding
  <2> HIDE DEF r
  <2>4. /\ budget'.events = budget.events
        /\ budget' \in [failures : 0..MaxFailures, events : 0..MaxEvents]
        /\ \/ /\ SameDevice(p) /\ ~Named(p).up
              /\ prog' = [prog EXCEPT ![p] = r] /\ fds' = [fds EXCEPT ![p] = 1]
           \/ Fails
    <3>1. ok \in BOOLEAN /\ (ok => SameDevice(p) /\ ~Named(p).up)
      BY <1>3, <1>6, <2>1
    <3>2. /\ budget'.events = budget.events
          /\ budget' \in [failures : 0..MaxFailures, events : 0..MaxEvents]
      BY <1>3, <1>6, <2>1 DEF Spend
    <3>3. CASE ok
      <4>1. prog' = [prog EXCEPT ![p] = r] /\ fds' = [fds EXCEPT ![p] = 1]
        BY <2>1, <2>2, <3>1, <3>3
      <4> QED
        BY <3>1, <3>2, <3>3, <4>1
    <3>4. CASE ~ok
      <4>1. /\ prog' = [prog EXCEPT ![p] = Troubled(p, Back(prog[p]))]
            /\ fds' = [fds EXCEPT ![p] = 0]
        BY <2>1, <2>2, <3>1, <3>4
      <4> QED
        BY <1>4, <3>2, <4>1
    <3> QED
      BY <3>1, <3>3, <3>4
  <2>5. /\ wired' = wired /\ In(p, "configure")
        /\ link' = IF prog'[p].pc = "bring up" THEN Configured(p) ELSE link
    BY <1>10 DEF ConfigureProtocolConstants, Configured
  <2>6. CASE Fails
    BY <2>4, <2>5, <2>6 DEF Fails
  <2>7. CASE ~Fails
    BY <1>1, <2>3, <2>4, <2>5, <2>7 DEF Goes
  <2> QED
    BY <2>6, <2>7
<1>11. CASE BringLinkUp(p)
  <2> DEFINE r == At(p, "socket")
  <2>1. PICK ok \in Outcomes(SameDevice(p)) :
          /\ Spend(SameDevice(p), ok)
          /\ prog' = [prog EXCEPT ![p] = IF ok THEN r ELSE Troubled(p, Back(prog[p]))]
          /\ fds' = [fds EXCEPT ![p] = IF ok THEN @ + (0 - 1) ELSE @ - 1]
    BY <1>11 DEF BringLinkUp, SystemCall, Set
  <2>2. fds[p] = 1
    BY <1>1, <1>11 DEF BringLinkUp, Owns, Holding, In
  <2>3. ASSUME SameDevice(p)
        PROVE  Onward(p, r, 0) /\ r.pc = "socket"
    BY <1>1, <1>11, <2>3 DEF BringLinkUp, Onward, Advances, At, Calls, Holding
  <2> HIDE DEF r
  <2>4. /\ budget'.events = budget.events
        /\ budget' \in [failures : 0..MaxFailures, events : 0..MaxEvents]
        /\ \/ /\ SameDevice(p)
              /\ prog' = [prog EXCEPT ![p] = r] /\ fds' = [fds EXCEPT ![p] = 0]
           \/ Fails
    <3>1. ok \in BOOLEAN /\ (ok => SameDevice(p))
      BY <1>3, <1>6, <2>1
    <3>2. /\ budget'.events = budget.events
          /\ budget' \in [failures : 0..MaxFailures, events : 0..MaxEvents]
      BY <1>3, <1>6, <2>1 DEF Spend
    <3>3. CASE ok
      <4>1. prog' = [prog EXCEPT ![p] = r] /\ fds' = [fds EXCEPT ![p] = 0]
        BY <2>1, <2>2, <3>1, <3>3
      <4> QED
        BY <3>1, <3>2, <3>3, <4>1
    <3>4. CASE ~ok
      <4>1. /\ prog' = [prog EXCEPT ![p] = Troubled(p, Back(prog[p]))]
            /\ fds' = [fds EXCEPT ![p] = 0]
        BY <2>1, <2>2, <3>1, <3>4
      <4> QED
        BY <1>4, <3>2, <4>1
    <3> QED
      BY <3>1, <3>3, <3>4
  <2>5. /\ wired' = wired /\ In(p, "bring up")
        /\ link' = IF prog'[p].pc = "socket" /\ ~Named(p).up THEN BroughtUp(p) ELSE link
    BY <1>11 DEF BringLinkUp, BroughtUp
  <2>6. CASE Fails
    BY <2>4, <2>5, <2>6 DEF Fails
  <2>7. CASE ~Fails
    BY <1>1, <2>3, <2>4, <2>5, <2>7 DEF Goes
  <2> QED
    BY <2>6, <2>7
<1>12. CASE CreateSocket(p)
  <2> DEFINE r == At(p, "fd frames")
  <2>1. PICK ok \in Outcomes(TRUE) :
          /\ Spend(TRUE, ok)
          /\ prog' = [prog EXCEPT ![p] = IF ok THEN r ELSE Troubled(p, Back(prog[p]))]
          /\ fds' = [fds EXCEPT ![p] = IF ok THEN @ + 1 ELSE @ - 0]
    BY <1>12 DEF CreateSocket, SystemCall, Set
  <2>2. fds[p] = 0
    BY <1>1, <1>12 DEF CreateSocket, Owns, Holding, In
  <2>3. ASSUME TRUE
        PROVE  Onward(p, r, 1) /\ r.pc # "bring up"
    BY <1>1, <1>12, <2>3 DEF CreateSocket, Onward, Advances, At, Calls, Holding
  <2> HIDE DEF r
  <2>4. /\ budget'.events = budget.events
        /\ budget' \in [failures : 0..MaxFailures, events : 0..MaxEvents]
        /\ \/ /\ TRUE
              /\ prog' = [prog EXCEPT ![p] = r] /\ fds' = [fds EXCEPT ![p] = 1]
           \/ Fails
    <3>1. ok \in BOOLEAN /\ (ok => TRUE)
      BY <1>3, <1>6, <2>1
    <3>2. /\ budget'.events = budget.events
          /\ budget' \in [failures : 0..MaxFailures, events : 0..MaxEvents]
      BY <1>3, <1>6, <2>1 DEF Spend
    <3>3. CASE ok
      <4>1. prog' = [prog EXCEPT ![p] = r] /\ fds' = [fds EXCEPT ![p] = 1]
        BY <2>1, <2>2, <3>1, <3>3
      <4> QED
        BY <3>1, <3>2, <3>3, <4>1
    <3>4. CASE ~ok
      <4>1. /\ prog' = [prog EXCEPT ![p] = Troubled(p, Back(prog[p]))]
            /\ fds' = [fds EXCEPT ![p] = 0]
        BY <2>1, <2>2, <3>1, <3>4
      <4> QED
        BY <1>4, <3>2, <4>1
    <3> QED
      BY <3>1, <3>3, <3>4
  <2>5. wired' = wired /\ link' = link
    BY <1>12 DEF CreateSocket
  <2> QED
    BY <2>3, <2>4, <2>5 DEF Goes
<1>13. CASE EnableFdFrames(p)
  <2> DEFINE r == At(p, "resolve")
  <2>1. PICK ok \in Outcomes(TRUE) :
          /\ Spend(TRUE, ok)
          /\ prog' = [prog EXCEPT ![p] = IF ok THEN r ELSE Troubled(p, Back(prog[p]))]
          /\ fds' = [fds EXCEPT ![p] = IF ok THEN @ + 0 ELSE @ - 1]
    BY <1>13 DEF EnableFdFrames, SystemCall, Set
  <2>2. fds[p] = 1
    BY <1>1, <1>13 DEF EnableFdFrames, Owns, Holding, In
  <2>3. ASSUME TRUE
        PROVE  Onward(p, r, 1) /\ r.pc # "bring up"
    BY <1>1, <1>13, <2>3 DEF EnableFdFrames, Onward, Advances, At, Calls, Holding
  <2> HIDE DEF r
  <2>4. /\ budget'.events = budget.events
        /\ budget' \in [failures : 0..MaxFailures, events : 0..MaxEvents]
        /\ \/ /\ TRUE
              /\ prog' = [prog EXCEPT ![p] = r] /\ fds' = [fds EXCEPT ![p] = 1]
           \/ Fails
    <3>1. ok \in BOOLEAN /\ (ok => TRUE)
      BY <1>3, <1>6, <2>1
    <3>2. /\ budget'.events = budget.events
          /\ budget' \in [failures : 0..MaxFailures, events : 0..MaxEvents]
      BY <1>3, <1>6, <2>1 DEF Spend
    <3>3. CASE ok
      <4>1. prog' = [prog EXCEPT ![p] = r] /\ fds' = [fds EXCEPT ![p] = 1]
        BY <2>1, <2>2, <3>1, <3>3
      <4> QED
        BY <3>1, <3>2, <3>3, <4>1
    <3>4. CASE ~ok
      <4>1. /\ prog' = [prog EXCEPT ![p] = Troubled(p, Back(prog[p]))]
            /\ fds' = [fds EXCEPT ![p] = 0]
        BY <2>1, <2>2, <3>1, <3>4
      <4> QED
        BY <1>4, <3>2, <4>1
    <3> QED
      BY <3>1, <3>3, <3>4
  <2>5. wired' = wired /\ link' = link
    BY <1>13 DEF EnableFdFrames
  <2> QED
    BY <2>3, <2>4, <2>5 DEF Goes
<1>14. CASE ResolveIndex(p)
  <2> DEFINE r == [At(p, "bind") EXCEPT !.index = Named(p).index]
  <2>1. PICK ok \in Outcomes(Named(p).index # 0) :
          /\ Spend(Named(p).index # 0, ok)
          /\ prog' = [prog EXCEPT ![p] = IF ok THEN r ELSE Troubled(p, Back(prog[p]))]
          /\ fds' = [fds EXCEPT ![p] = IF ok THEN @ + 0 ELSE @ - 1]
    BY <1>14 DEF ResolveIndex, SystemCall, Set
  <2>2. fds[p] = 1
    BY <1>1, <1>14 DEF ResolveIndex, Owns, Holding, In
  <2>3. ASSUME Named(p).index # 0
        PROVE  Onward(p, r, 1) /\ r.pc # "bring up"
    BY <1>1, <1>14, <2>3 DEF ResolveIndex, Onward, Resolves, At, Calls, Holding
  <2> HIDE DEF r
  <2>4. /\ budget'.events = budget.events
        /\ budget' \in [failures : 0..MaxFailures, events : 0..MaxEvents]
        /\ \/ /\ Named(p).index # 0
              /\ prog' = [prog EXCEPT ![p] = r] /\ fds' = [fds EXCEPT ![p] = 1]
           \/ Fails
    <3>1. ok \in BOOLEAN /\ (ok => Named(p).index # 0)
      BY <1>3, <1>6, <2>1
    <3>2. /\ budget'.events = budget.events
          /\ budget' \in [failures : 0..MaxFailures, events : 0..MaxEvents]
      BY <1>3, <1>6, <2>1 DEF Spend
    <3>3. CASE ok
      <4>1. prog' = [prog EXCEPT ![p] = r] /\ fds' = [fds EXCEPT ![p] = 1]
        BY <2>1, <2>2, <3>1, <3>3
      <4> QED
        BY <3>1, <3>2, <3>3, <4>1
    <3>4. CASE ~ok
      <4>1. /\ prog' = [prog EXCEPT ![p] = Troubled(p, Back(prog[p]))]
            /\ fds' = [fds EXCEPT ![p] = 0]
        BY <2>1, <2>2, <3>1, <3>4
      <4> QED
        BY <1>4, <3>2, <4>1
    <3> QED
      BY <3>1, <3>3, <3>4
  <2>5. wired' = wired /\ link' = link
    BY <1>14 DEF ResolveIndex
  <2> QED
    BY <2>3, <2>4, <2>5 DEF Goes
<1>15. CASE Bind(p)
  <2> DEFINE r == [At(p, "filters") EXCEPT !.sock.bound = prog[p].index, !.open = ~prog[p].scan]
  <2>1. PICK ok \in Outcomes(SameDevice(p)) :
          /\ Spend(SameDevice(p), ok)
          /\ prog' = [prog EXCEPT ![p] = IF ok THEN r ELSE Troubled(p, Back(prog[p]))]
          /\ fds' = [fds EXCEPT ![p] = IF ok THEN @ + 0 ELSE @ - 1]
    BY <1>15 DEF Bind, SystemCall, Set
  <2>2. fds[p] = 1
    BY <1>1, <1>15 DEF Bind, Owns, Holding, In
  <2>3. ASSUME SameDevice(p)
        PROVE  Onward(p, r, 1) /\ r.pc # "bring up"
    BY <1>1, <1>15, <2>3 DEF Bind, Onward, Binds, At, Calls, Holding, Sockets
  <2> HIDE DEF r
  <2>4. /\ budget'.events = budget.events
        /\ budget' \in [failures : 0..MaxFailures, events : 0..MaxEvents]
        /\ \/ /\ SameDevice(p)
              /\ prog' = [prog EXCEPT ![p] = r] /\ fds' = [fds EXCEPT ![p] = 1]
           \/ Fails
    <3>1. ok \in BOOLEAN /\ (ok => SameDevice(p))
      BY <1>3, <1>6, <2>1
    <3>2. /\ budget'.events = budget.events
          /\ budget' \in [failures : 0..MaxFailures, events : 0..MaxEvents]
      BY <1>3, <1>6, <2>1 DEF Spend
    <3>3. CASE ok
      <4>1. prog' = [prog EXCEPT ![p] = r] /\ fds' = [fds EXCEPT ![p] = 1]
        BY <2>1, <2>2, <3>1, <3>3
      <4> QED
        BY <3>1, <3>2, <3>3, <4>1
    <3>4. CASE ~ok
      <4>1. /\ prog' = [prog EXCEPT ![p] = Troubled(p, Back(prog[p]))]
            /\ fds' = [fds EXCEPT ![p] = 0]
        BY <2>1, <2>2, <3>1, <3>4
      <4> QED
        BY <1>4, <3>2, <4>1
    <3> QED
      BY <3>1, <3>3, <3>4
  <2>5. wired' = wired /\ link' = link
    BY <1>15 DEF Bind
  <2> QED
    BY <2>3, <2>4, <2>5 DEF Goes
<1>16. CASE SetIdFilters(p)
  <2> DEFINE r == [At(p, IF prog[p].scan THEN "observe" ELSE "error mask")
                     EXCEPT !.sock.filtered = TRUE, !.sock.owed = Senders(prog[p].chan)]
  <2>1. PICK ok \in Outcomes(TRUE) :
          /\ Spend(TRUE, ok)
          /\ prog' = [prog EXCEPT ![p] = IF ok THEN r ELSE Troubled(p, Back(prog[p]))]
          /\ fds' = [fds EXCEPT ![p] = IF ok THEN @ + 0 ELSE @ - 1]
    BY <1>16 DEF SetIdFilters, SystemCall, Set
  <2>2. fds[p] = 1
    BY <1>1, <1>16 DEF SetIdFilters, Owns, Holding, In
  <2>3. ASSUME TRUE
        PROVE  Onward(p, r, 1) /\ r.pc # "bring up"
    BY <1>1, <1>16, <2>3 DEF SetIdFilters, Onward, Filters, At, Calls, Holding, Sockets
  <2> HIDE DEF r
  <2>4. /\ budget'.events = budget.events
        /\ budget' \in [failures : 0..MaxFailures, events : 0..MaxEvents]
        /\ \/ /\ TRUE
              /\ prog' = [prog EXCEPT ![p] = r] /\ fds' = [fds EXCEPT ![p] = 1]
           \/ Fails
    <3>1. ok \in BOOLEAN /\ (ok => TRUE)
      BY <1>3, <1>6, <2>1
    <3>2. /\ budget'.events = budget.events
          /\ budget' \in [failures : 0..MaxFailures, events : 0..MaxEvents]
      BY <1>3, <1>6, <2>1 DEF Spend
    <3>3. CASE ok
      <4>1. prog' = [prog EXCEPT ![p] = r] /\ fds' = [fds EXCEPT ![p] = 1]
        BY <2>1, <2>2, <3>1, <3>3
      <4> QED
        BY <3>1, <3>2, <3>3, <4>1
    <3>4. CASE ~ok
      <4>1. /\ prog' = [prog EXCEPT ![p] = Troubled(p, Back(prog[p]))]
            /\ fds' = [fds EXCEPT ![p] = 0]
        BY <2>1, <2>2, <3>1, <3>4
      <4> QED
        BY <1>4, <3>2, <4>1
    <3> QED
      BY <3>1, <3>3, <3>4
  <2>5. wired' = wired /\ link' = link
    BY <1>16 DEF SetIdFilters
  <2> QED
    BY <2>3, <2>4, <2>5 DEF Goes
<1>17. CASE SetErrorMask(p)
  <2> DEFINE r == [At(p, "probe") EXCEPT !.sock.masked = TRUE, !.sock.owed = Senders(prog[p].chan),
                                  !.rivals = {q \in Masters(prog[p].chan) : Side[q] = Side[p]}]
  <2>1. PICK ok \in Outcomes(TRUE) :
          /\ Spend(TRUE, ok)
          /\ prog' = [prog EXCEPT ![p] = IF ok THEN r ELSE Troubled(p, Back(prog[p]))]
          /\ fds' = [fds EXCEPT ![p] = IF ok THEN @ + 0 ELSE @ - 1]
    BY <1>17 DEF SetErrorMask, SystemCall, Set
  <2>2. fds[p] = 1
    BY <1>1, <1>17 DEF SetErrorMask, Owns, Holding, In
  <2>3. ASSUME TRUE
        PROVE  Onward(p, r, 1) /\ r.pc # "bring up"
    BY <1>1, <1>17, <2>3 DEF SetErrorMask, Onward, Masks, At, Calls, Holding, Sockets
  <2> HIDE DEF r
  <2>4. /\ budget'.events = budget.events
        /\ budget' \in [failures : 0..MaxFailures, events : 0..MaxEvents]
        /\ \/ /\ TRUE
              /\ prog' = [prog EXCEPT ![p] = r] /\ fds' = [fds EXCEPT ![p] = 1]
           \/ Fails
    <3>1. ok \in BOOLEAN /\ (ok => TRUE)
      BY <1>3, <1>6, <2>1
    <3>2. /\ budget'.events = budget.events
          /\ budget' \in [failures : 0..MaxFailures, events : 0..MaxEvents]
      BY <1>3, <1>6, <2>1 DEF Spend
    <3>3. CASE ok
      <4>1. prog' = [prog EXCEPT ![p] = r] /\ fds' = [fds EXCEPT ![p] = 1]
        BY <2>1, <2>2, <3>1, <3>3
      <4> QED
        BY <3>1, <3>2, <3>3, <4>1
    <3>4. CASE ~ok
      <4>1. /\ prog' = [prog EXCEPT ![p] = Troubled(p, Back(prog[p]))]
            /\ fds' = [fds EXCEPT ![p] = 0]
        BY <2>1, <2>2, <3>1, <3>4
      <4> QED
        BY <1>4, <3>2, <4>1
    <3> QED
      BY <3>1, <3>3, <3>4
  <2>5. wired' = wired /\ link' = link
    BY <1>17 DEF SetErrorMask
  <2> QED
    BY <2>3, <2>4, <2>5 DEF Goes
<1> QED
  BY <1>7, <1>8, <1>9, <1>10, <1>11, <1>12, <1>13, <1>14, <1>15, <1>16, <1>17 DEF Opening

(* What a system call makes of a call owns its sockets. *)
LEMMA OnwardOwns ==
  ASSUME CallsOwn, NEW p \in Programs, NEW r, NEW n, Onward(p, r, n)
  PROVE  /\ r \in Calls /\ n \in 0..1 /\ Owns(r, n) /\ SetUp(r)
         /\ prog[p].chan \in Channels /\ r.chan = prog[p].chan /\ r.pc \notin {"idle", "list", "scan"}
<1>1. /\ prog[p] \in Calls /\ Owns(prog[p], fds[p]) /\ SetUp(prog[p])
      /\ prog[p].sock \in Sockets /\ prog[p].index \in 0..MaxEvents + 1
  BY DEF CallsOwn, TypeOK, Calls
<1>2. prog[p].chan \in Channels /\ prog[p].pc \notin {"idle", "list", "scan"}
  BY <1>1 DEF Onward, Advances, Resolves, Binds, Filters, Masks, Owns, In
<1>3. n \in 0..1 /\ n = IF r.pc \in Holding THEN 1 ELSE 0
  BY DEF Onward
<1>4. CASE Advances(p, r)
  <2>1. r.pc \in Labels /\ r.pc \notin {"idle", "list", "scan"} /\ r.pc \notin Bound /\ prog[p].pc \notin Bound
    BY <1>4 DEF Advances, Labels, In, Bound
  <2> QED
    BY <1>1, <1>2, <1>3, <1>4, <2>1 DEF Advances, At, Calls, Owns, SetUp, Bound
<1>5. CASE Resolves(p, r)
  <2>1. Named(p).index \in 0..MaxEvents + 1
    BY <1>2 DEF CallsOwn, TypeOK, Links, Named
  <2>2. r.pc \in Labels /\ r.pc \notin {"idle", "list", "scan"} /\ r.pc \notin Bound /\ prog[p].pc \notin Bound
    BY <1>5 DEF Resolves, Labels, In, Bound
  <2> QED
    BY <1>1, <1>2, <1>3, <1>5, <2>1, <2>2 DEF Resolves, At, Calls, Owns, SetUp, Bound
<1>6. CASE Binds(p, r)
  <2> DEFINE sock == [prog[p].sock EXCEPT !.bound = prog[p].index]
  <2>1. sock \in Sockets
    BY <1>1 DEF Sockets
  <2>2. r = [At(p, "filters") EXCEPT !.sock = sock, !.open = ~prog[p].scan] /\ In(p, "bind")
    BY <1>6 DEF Binds
  <2> HIDE DEF sock
  <2> QED
    BY <1>1, <1>2, <1>3, <2>1, <2>2 DEF At, Calls, Labels, In, Owns, SetUp, Bound, Holding
<1>7. Masters(prog[p].chan) \subseteq Programs /\ Senders(prog[p].chan) \subseteq Programs \cup Sides
  BY DEF Masters, Senders
<1>8. CASE Filters(p, r)
  <2> DEFINE sock == [prog[p].sock EXCEPT !.filtered = TRUE, !.owed = Senders(prog[p].chan)]
  <2>1. sock \in Sockets /\ sock.filtered
    BY <1>1, <1>7 DEF Sockets
  <2>2. r = [At(p, IF prog[p].scan THEN "observe" ELSE "error mask") EXCEPT !.sock = sock] /\ In(p, "filters")
    BY <1>8 DEF Filters
  <2> HIDE DEF sock
  <2> QED
    BY <1>1, <1>2, <1>3, <2>1, <2>2 DEF At, Calls, Labels, In, Owns, SetUp, Bound, Holding
<1>9. CASE Masks(p, r)
  <2> DEFINE sock == [prog[p].sock EXCEPT !.masked = TRUE, !.owed = Senders(prog[p].chan)]
             rivals == {q \in Masters(prog[p].chan) : Side[q] = Side[p]}
  <2>1. sock \in Sockets /\ sock.filtered = prog[p].sock.filtered /\ sock.masked /\ rivals \in SUBSET Programs
    BY <1>1, <1>7 DEF Sockets
  <2>2. r = [At(p, "probe") EXCEPT !.sock = sock, !.rivals = rivals] /\ In(p, "error mask")
    BY <1>9 DEF Masks
  <2> HIDE DEF sock, rivals
  <2> QED
    BY <1>1, <1>2, <1>3, <2>1, <2>2 DEF At, Calls, Labels, In, Owns, SetUp, Bound, Holding
<1> QED
  BY <1>4, <1>5, <1>6, <1>8, <1>9 DEF Onward

(* One program goes on with the call r, and holds n sockets.               *)
LEMMA OneOwns ==
  ASSUME CallsOwn, NEW p \in Programs, NEW r \in Calls, NEW n \in 0..1, Owns(r, n), SetUp(r),
         prog' = [prog EXCEPT ![p] = r], fds' = [fds EXCEPT ![p] = n], wired' = wired,
         link' \in [Channels -> Links], budget' \in [failures : 0..MaxFailures, events : 0..MaxEvents]
  PROVE  CallsOwn'
BY DEF CallsOwn, TypeOK

(* Whatever happens to the queues, what is owed and the ghosts, the        *)
(* sockets stay where they are.                                            *)
Alike(r, s) ==
  /\ s \in Calls
  /\ s.pc = r.pc /\ s.open = r.open /\ s.scan = r.scan /\ s.running = r.running /\ s.chan = r.chan
  /\ s.sock.bound = r.sock.bound /\ s.sock.filtered = r.sock.filtered /\ s.sock.masked = r.sock.masked
  /\ r.sock = NoSocket => s.sock = NoSocket
  /\ s.index = r.index

(* A call owns what one alike it owns. *)
LEMMA AlikeOwns ==
  ASSUME NEW r \in Calls, NEW s, NEW n, Alike(r, s), Owns(r, n), SetUp(r)
  PROVE  Owns(s, n) /\ SetUp(s)
BY DEF Alike, Owns, SetUp

(* A frame on the bus. *)
LEMMA DeliverAlike ==
  ASSUME CallsOwn, NEW sender \in Programs \cup Sides, NEW f \in Frames, NEW c, Deliver(sender, f, c)
  PROVE  prog' = [p \in Programs |-> prog'[p]] /\ \A p \in Programs : Alike(prog[p], prog'[p])
<1>1. ASSUME NEW p \in Programs
      PROVE  Alike(prog[p], prog'[p])
  <2>1. prog[p] \in Calls /\ prog[p].sock \in Sockets
    BY DEF CallsOwn, TypeOK, Calls
  <2>2. CASE p = sender \/ prog[p].chan # c \/ ~Live(p)
    BY <2>1, <2>2 DEF Deliver, Alike
  <2>3. CASE ~(p = sender \/ prog[p].chan # c \/ ~Live(p))
    <3> DEFINE queue == IF Passes(p, f) THEN prog[p].sock.queue \cup {f} ELSE prog[p].sock.queue
               owed == prog[p].sock.owed \ {sender}
    <3>1. queue \in SUBSET Frames /\ owed \in SUBSET (Programs \cup Sides)
      BY <2>1 DEF Sockets
    <3>2. prog'[p] = [prog[p] EXCEPT !.sock = [prog[p].sock EXCEPT !.queue = queue, !.owed = owed]]
      <4>1. prog'[p] = [prog[p] EXCEPT !.sock.queue = queue, !.sock.owed = owed]
        BY <2>3 DEF Deliver
      <4> HIDE DEF queue, owed
      <4> QED
        BY <2>1, <4>1 DEF Calls, Sockets
    <3>3. prog[p].sock # NoSocket
      BY <2>3, Constants DEF Live
    <3> HIDE DEF queue, owed
    <3> DEFINE sock == [prog[p].sock EXCEPT !.queue = queue, !.owed = owed]
    <3>4. /\ sock \in Sockets /\ sock.bound = prog[p].sock.bound
          /\ sock.filtered = prog[p].sock.filtered /\ sock.masked = prog[p].sock.masked
      BY <2>1, <3>1 DEF Sockets
    <3>5. prog'[p] = [prog[p] EXCEPT !.sock = sock]
      BY <3>2
    <3> HIDE DEF sock
    <3> QED
      BY <2>1, <3>3, <3>4, <3>5 DEF Alike, Calls
  <2> QED
    BY <2>2, <2>3
<1>2. prog' = [p \in Programs |-> prog'[p]]
  BY DEF Deliver
<1> QED
  BY <1>1, <1>2

(* A disturbance is noted, and nothing else. *)
LEMMA DisturbAlike ==
  ASSUME CallsOwn, NEW s, Disturb(s)
  PROVE  prog' = [q \in Programs |-> prog'[q]] /\ \A q \in Programs : Alike(prog[q], prog'[q])
<1>1. \A q \in Programs : prog[q] \in Calls
  BY DEF CallsOwn, TypeOK
<1>2. prog' = [q \in Programs |-> IF Side[q] \in s THEN [prog[q] EXCEPT !.steady = FALSE] ELSE prog[q]]
  BY DEF Disturb
<1>3. ASSUME NEW q \in Programs
      PROVE  Alike(prog[q], prog'[q])
  <2>1. prog[q] \in Calls /\ prog'[q] \in {prog[q], [prog[q] EXCEPT !.steady = FALSE]}
    BY <1>1, <1>2
  <2>2. Alike(prog[q], prog[q]) /\ Alike(prog[q], [prog[q] EXCEPT !.steady = FALSE])
    BY <2>1 DEF Alike, Calls
  <2> QED
    BY <2>1, <2>2
<1> QED
  BY <1>2, <1>3

(* What the operator and the adapter do to a link: they give it no index   *)
(* that any link had, and bring it up with bit rates or not at all.        *)
LEMMA EventSteps ==
  ASSUME CallsOwn, NEW c \in Channels, Replug(c) \/ Unplug(c) \/ TakeDown(c) \/ BringUpByHand(c)
  PROVE  /\ fds' = fds /\ wired' = wired /\ budget.events > 0
         /\ budget' = [budget EXCEPT !.events = budget.events - 1]
         /\ link' \in [Channels -> Links]
         /\ \E new \in Links : /\ link' = [link EXCEPT ![c] = new]
                             /\ \/ new.index \in {0, Fresh} /\ ~new.up
                                \/ /\ new.index = link[c].index /\ link[c].up /\ ~new.up
                                   /\ new.rates = link[c].rates
                                \/ new.index = link[c].index /\ new.by = "operator" /\ new.rates # "none"
<1>1. /\ link \in [Channels -> Links] /\ link[c] \in Links /\ budget.events \in 0..MaxEvents /\ MaxEvents \in Nat
  BY Constants DEF CallsOwn, TypeOK
<1>2. \E new : /\ Event(c, new)
               /\ \/ new = [link[c] EXCEPT !.index = Fresh, !.up = FALSE, !.rates = "none"]
                  \/ new = [link[c] EXCEPT !.index = 0, !.up = FALSE, !.rates = "none"]
                  \/ link[c].up /\ new = [link[c] EXCEPT !.up = FALSE]
                  \/ \E rates \in {"protocol", "other"} :
                       new = [link[c] EXCEPT !.up = TRUE, !.rates = rates, !.by = "operator"]
  BY DEF Replug, Unplug, TakeDown, BringUpByHand, Fresh, Event
<1>3. PICK new : /\ budget.events > 0 /\ budget' = [budget EXCEPT !.events = budget.events - 1]
                 /\ link' = [link EXCEPT ![c] = new] /\ fds' = fds /\ wired' = wired
                 /\ \/ new = [link[c] EXCEPT !.index = Fresh, !.up = FALSE, !.rates = "none"]
                    \/ new = [link[c] EXCEPT !.index = 0, !.up = FALSE, !.rates = "none"]
                    \/ link[c].up /\ new = [link[c] EXCEPT !.up = FALSE]
                    \/ \E rates \in {"protocol", "other"} :
                         new = [link[c] EXCEPT !.up = TRUE, !.rates = rates, !.by = "operator"]
  BY <1>2 DEF Event
<1>4. Fresh \in 0..MaxEvents + 1 /\ 0 \in 0..MaxEvents + 1
  BY <1>1, <1>3 DEF Fresh
<1>5. new \in Links
  BY <1>1, <1>3, <1>4 DEF Links
<1>6. \/ new.index \in {0, Fresh} /\ ~new.up
      \/ new.index = link[c].index /\ link[c].up /\ ~new.up /\ new.rates = link[c].rates
      \/ new.index = link[c].index /\ new.by = "operator" /\ new.rates # "none"
  BY <1>1, <1>3 DEF Links
<1> QED
  BY <1>1, <1>3, <1>5, <1>6

(* A step of a call that is not one of an opening. *)
Elsewhere(p) ==
  \/ Connect(p) \/ ListInterfaces(p) \/ NextCandidate(p) \/ ScanFails(p) \/ ScanHears(p) \/ ScanIsSilent(p)
  \/ ProbeHears(p) \/ ConnectSucceeds(p) \/ Run(p)

(* It leaves the links alone, brings none up, finds no index, and probes   *)
(* only where a probe was on.                                              *)
LEMMA CallSteps ==
  ASSUME CallsOwn, NEW p \in Programs, Elsewhere(p)
  PROVE  /\ UNCHANGED <<link, wired, budget>>
         /\ \E r \in Calls, n \in 0..1 :
              /\ Owns(r, n) /\ SetUp(r) /\ prog' = [prog EXCEPT ![p] = r] /\ fds' = [fds EXCEPT ![p] = n]
              /\ r.pc # "bring up" /\ r.index \in {0, prog[p].index} /\ (r.pc = "probe" => In(p, "probe"))
<1>0. /\ prog \in [Programs -> Calls] /\ fds \in [Programs -> 0..1]
      /\ prog[p] \in Calls /\ Owns(prog[p], fds[p]) /\ SetUp(prog[p])
      /\ 0 \in 0..1 /\ 1 \in 0..1
  BY DEF CallsOwn, TypeOK
<1>1. UNCHANGED <<link, wired, budget>>
  BY DEF Elsewhere, Connect, ListInterfaces, NextCandidate, ScanFails, ScanHears, ScanIsSilent, ProbeHears,
         ConnectSucceeds, Run
<1> DEFINE Fine(r) == r.pc # "bring up" /\ r.index \in {0, prog[p].index} /\ (r.pc = "probe" => In(p, "probe"))
           Goal == \E r \in Calls, n \in 0..1 :
                     /\ Owns(r, n) /\ SetUp(r) /\ prog' = [prog EXCEPT ![p] = r] /\ fds' = [fds EXCEPT ![p] = n]
                     /\ Fine(r)
<1>2. SUFFICES Goal
  BY <1>1, <1>2
<1>3. CASE Connect(p)
  <2> DEFINE steady == wired[Side[p]] # Nowhere /\ link[wired[Side[p]]].index # 0
             call == [prog[p] EXCEPT !.code = "None", !.from = prog[p].name, !.steady = steady]
             r == IF prog[p].name = AutoInterface THEN [call EXCEPT !.pc = "list"]
                  ELSE [call EXCEPT !.pc = "interface", !.chan = prog[p].name, !.scan = FALSE]
  <2>1. steady \in BOOLEAN
    OBVIOUS
  <2> HIDE DEF steady
  <2>2. /\ prog[p].pc = "idle" /\ ~prog[p].open /\ ~prog[p].running /\ prog[p].sock = NoSocket
        /\ prog[p].name \in Channels \cup {AutoInterface}
    BY <1>0, <1>3 DEF Connect, In, Calls, Owns, SetUp, Bound
  <2>3. call \in Calls /\ call.name = prog[p].name /\ call.pc = "idle" /\ ~call.open /\ ~call.running /\ call.sock = NoSocket
        /\ call.index = prog[p].index
    BY <1>0, <2>1, <2>2 DEF Calls
  <2>4. prog' = [prog EXCEPT ![p] = r] /\ fds' = fds /\ UNCHANGED <<link, wired, budget>>
    BY <1>3, <2>3 DEF Connect, Set, steady
  <2> HIDE DEF call
  <2>5. r \in Calls /\ Owns(r, 0) /\ SetUp(r) /\ Fine(r)
    BY <2>2, <2>3 DEF Calls, Labels, Owns, SetUp, Holding, Bound
  <2>6. fds' = [fds EXCEPT ![p] = 0]
    BY <1>0, <2>2, <2>4 DEF Owns, Holding
  <2> HIDE DEF r
  <2> QED
    BY <1>0, <2>4, <2>5, <2>6
<1>4. CASE ListInterfaces(p)
  <2> DEFINE todo == {c \in Channels : link[c].index # 0}
             r == [At(p, "scan") EXCEPT !.todo = todo, !.scan = TRUE]
  <2>0. prog[p] \in Calls
    BY <1>0
  <2>1. todo \in SUBSET Channels
    OBVIOUS
  <2>2. prog[p].pc = "list" /\ ~prog[p].open /\ ~prog[p].running /\ prog[p].sock = NoSocket
    BY <1>0, <1>4 DEF ListInterfaces, In, Owns, SetUp, Bound
  <2>3. prog' = [prog EXCEPT ![p] = r] /\ fds' = fds /\ UNCHANGED <<link, wired, budget>>
    BY <1>4 DEF ListInterfaces, Set
  <2> HIDE DEF todo
  <2>4. r \in Calls /\ Owns(r, 0) /\ SetUp(r) /\ Fine(r)
    <3>1. r \in Calls
      BY <2>0, <2>1 DEF At, Calls, Labels
    <3>2. r.index \in {0, prog[p].index} /\ r.pc = "scan" /\ r.scan /\ r.open = prog[p].open /\ r.running = prog[p].running /\ r.sock = prog[p].sock
      BY <2>0, <2>1 DEF At, Calls
    <3> QED
      BY <2>2, <3>1, <3>2 DEF Owns, SetUp, Holding, Bound, In
  <2>5. fds' = [fds EXCEPT ![p] = 0]
    BY <1>0, <2>2, <2>3 DEF Owns, Holding
  <2> HIDE DEF r
  <2> QED
    BY <1>0, <2>3, <2>4, <2>5
<1>5. CASE NextCandidate(p)
  <2>0. prog[p] \in Calls
    BY <1>0
  <2>1. PICK c \in prog[p].todo :
          prog' = [prog EXCEPT ![p] = [At(p, "interface") EXCEPT !.chan = c, !.todo = @ \ {c}]]
    BY <1>5 DEF NextCandidate, Set
  <2> DEFINE r == [At(p, "interface") EXCEPT !.chan = c, !.todo = @ \ {c}]
  <2>2. prog[p].pc = "scan" /\ prog[p].scan /\ ~prog[p].open /\ ~prog[p].running /\ prog[p].sock = NoSocket
    BY <1>0, <1>5 DEF NextCandidate, In, Owns, SetUp, Bound
  <2>3. c \in Channels /\ prog[p].todo \ {c} \in SUBSET Channels
    BY <1>0, <2>1 DEF Calls
  <2>4. r \in Calls /\ Owns(r, 0) /\ SetUp(r) /\ Fine(r)
    <3>1. r \in Calls
      BY <2>0, <2>3 DEF At, Calls, Labels
    <3>2. r.index \in {0, prog[p].index} /\ r.pc = "interface" /\ r.chan = c /\ r.open = prog[p].open /\ r.running = prog[p].running /\ r.sock = prog[p].sock
      BY <2>0, <2>3 DEF At, Calls
    <3> QED
      BY <2>2, <2>3, <3>1, <3>2 DEF Owns, SetUp, Holding, Bound, In
  <2>5. fds' = [fds EXCEPT ![p] = 0] /\ prog' = [prog EXCEPT ![p] = r] /\ UNCHANGED <<link, wired, budget>>
    BY <1>0, <1>5, <2>1, <2>2 DEF NextCandidate, Owns, Holding
  <2> HIDE DEF r
  <2> QED
    BY <1>0, <2>4, <2>5
<1>6. CASE ScanFails(p) \/ ConnectSucceeds(p) \/ Run(p)
  <2>1. CASE ScanFails(p)
    <3> DEFINE r == Closed(Ended(prog[p], "InterfaceUnavailable"))
    <3>0. prog[p] \in Calls /\ NoSocket \in Sockets /\ 0 \in 0..MaxEvents + 1
      BY <1>0, Constants
    <3>1. prog[p].pc = "scan"
      BY <2>1 DEF ScanFails, In
    <3>2. r \in Calls /\ Owns(r, 0) /\ SetUp(r) /\ Fine(r)
      <4>1. r \in Calls
        BY <3>0 DEF Closed, Ended, Calls, Labels
      <4>2. r.index \in {0, prog[p].index} /\ r.pc = "idle" /\ ~r.open /\ ~r.running /\ r.sock = NoSocket
        BY <3>0 DEF Closed, Ended, Calls
      <4> QED
        BY <3>0, <4>1, <4>2 DEF Owns, SetUp, Holding, Bound, In
    <3>3. fds' = [fds EXCEPT ![p] = 0] /\ prog' = [prog EXCEPT ![p] = r] /\ UNCHANGED <<link, wired, budget>>
      BY <1>0, <2>1, <3>1 DEF ScanFails, Set, Owns, Holding
    <3> HIDE DEF r
    <3> QED
      BY <1>0, <3>2, <3>3
  <2>2. CASE ConnectSucceeds(p)
    <3> DEFINE r == Ended(prog[p], "None")
    <3>0. prog[p] \in Calls /\ 0 \in 0..MaxEvents + 1
      BY <1>0, Constants
    <3>1. /\ prog[p].pc = "probe" /\ ~prog[p].scan /\ prog[p].open /\ ~prog[p].running /\ prog[p].chan \in Channels
          /\ prog[p].sock.filtered /\ prog[p].sock.masked
      BY <1>0, <2>2 DEF ConnectSucceeds, In, Owns, SetUp, Bound
    <3>2. r \in Calls /\ Owns(r, 1) /\ SetUp(r) /\ Fine(r)
      <4>1. r \in Calls
        BY <3>0, <3>1 DEF Ended, Calls, Labels
      <4>2. r.index \in {0, prog[p].index} /\ r.pc = "idle" /\ r.open /\ r.running = prog[p].running /\ r.chan = prog[p].chan /\ r.sock = prog[p].sock
        BY <3>0, <3>1 DEF Ended, Calls
      <4> QED
        BY <3>1, <4>1, <4>2 DEF Owns, SetUp, Holding, Bound, In
    <3>3. fds' = [fds EXCEPT ![p] = 1] /\ prog' = [prog EXCEPT ![p] = r] /\ UNCHANGED <<link, wired, budget>>
      BY <1>0, <2>2, <3>1 DEF ConnectSucceeds, Set, Owns, Holding
    <3> HIDE DEF r
    <3> QED
      BY <1>0, <3>2, <3>3
  <2>3. CASE Run(p)
    <3> DEFINE r == [prog[p] EXCEPT !.running = TRUE]
    <3>0. prog[p] \in Calls
      BY <1>0
    <3>1. /\ prog[p].pc = "idle" /\ prog[p].open /\ prog[p].chan \in Channels
          /\ prog[p].sock.filtered /\ prog[p].sock.masked
      BY <1>0, <2>3 DEF Run, In, Owns, SetUp
    <3>2. r \in Calls /\ Owns(r, 1) /\ SetUp(r) /\ Fine(r)
      <4>1. r \in Calls
        BY <3>0, <3>1 DEF Calls, Labels
      <4>2. r.index \in {0, prog[p].index} /\ r.pc = "idle" /\ r.open /\ r.running /\ r.chan = prog[p].chan /\ r.sock = prog[p].sock
        BY <3>0, <3>1 DEF Calls
      <4> QED
        BY <3>1, <4>1, <4>2 DEF Owns, SetUp, Holding, Bound, In
    <3>3. fds' = [fds EXCEPT ![p] = 1] /\ prog' = [prog EXCEPT ![p] = r] /\ UNCHANGED <<link, wired, budget>>
      BY <1>0, <2>3, <3>1 DEF Run, Set, Owns, Holding
    <3> HIDE DEF r
    <3> QED
      BY <1>0, <3>2, <3>3
  <2> QED
    BY <1>6, <2>1, <2>2, <2>3
<1>7. CASE ScanHears(p) \/ ScanIsSilent(p) \/ ProbeHears(p)
  <2>1. prog[p].pc \in {"observe", "probe"} /\ fds[p] = 1 /\ UNCHANGED <<link, wired, budget>>
    BY <1>0, <1>7 DEF ScanHears, ScanIsSilent, ProbeHears, In, Owns, Holding
  <2>2. CASE \E f : prog' = [prog EXCEPT ![p] = [prog[p] EXCEPT !.sock.queue = @ \ {f}]] /\ fds' = fds
    <3>1. PICK f : prog' = [prog EXCEPT ![p] = [prog[p] EXCEPT !.sock.queue = @ \ {f}]]
      BY <2>2
    <3> DEFINE sock == [prog[p].sock EXCEPT !.queue = prog[p].sock.queue \ {f}]
               r == [prog[p] EXCEPT !.sock = sock]
    <3>0. prog[p] \in Calls
      BY <1>0
    <3>2. prog[p].sock \in Sockets
      BY <1>0 DEF Calls
    <3>3. prog' = [prog EXCEPT ![p] = r]
      BY <1>0, <3>1, <3>2 DEF Calls, Sockets
    <3>4. /\ sock \in Sockets /\ sock.bound = prog[p].sock.bound
          /\ sock.filtered = prog[p].sock.filtered /\ sock.masked = prog[p].sock.masked
      BY <3>2 DEF Sockets
    <3> HIDE DEF sock
    <3>5. r \in Calls /\ Owns(r, 1) /\ SetUp(r) /\ Fine(r)
      <4>1. r \in Calls
        BY <3>0, <3>4 DEF Calls, Labels
      <4>2. /\ r.index = prog[p].index
            /\ r.pc = prog[p].pc /\ r.open = prog[p].open /\ r.scan = prog[p].scan /\ r.running = prog[p].running
            /\ r.chan = prog[p].chan /\ r.sock = sock
        BY <3>0, <3>4 DEF Calls
      <4> QED
        BY <1>0, <2>1, <3>4, <4>1, <4>2 DEF Owns, SetUp, Holding, Bound, In
    <3>6. fds' = [fds EXCEPT ![p] = 1]
      BY <1>0, <2>1, <2>2
    <3> HIDE DEF r
    <3> QED
      BY <1>0, <2>1, <3>3, <3>5, <3>6
  <2>3. CASE /\ In(p, "observe")
             /\ prog' = [prog EXCEPT ![p] = [At(p, "interface") EXCEPT !.name = prog[p].chan, !.scan = FALSE, !.todo = {},
                                                                     !.sock = NoSocket]]
             /\ fds' = [fds EXCEPT ![p] = @ - 1]
    <3> DEFINE r == [At(p, "interface") EXCEPT !.name = prog[p].chan, !.scan = FALSE, !.todo = {}, !.sock = NoSocket]
    <3>0. prog[p] \in Calls /\ NoSocket \in Sockets
      BY <1>0, Constants
    <3>1. prog[p].pc = "observe"
      BY <2>3 DEF In
    <3>2. prog[p].chan \in Channels /\ ~prog[p].open /\ ~prog[p].running
      BY <1>0, <3>1 DEF Owns, Bound
    <3>3. r \in Calls /\ Owns(r, 0) /\ SetUp(r) /\ Fine(r)
      <4>1. r \in Calls
        BY <3>0, <3>2 DEF At, Calls, Labels
      <4>2. r.index \in {0, prog[p].index} /\ r.pc = "interface" /\ ~r.open /\ ~r.running /\ r.chan = prog[p].chan /\ r.sock = NoSocket
        BY <3>0, <3>2 DEF At, Calls
      <4> QED
        BY <3>2, <4>1, <4>2 DEF Owns, SetUp, Holding, Bound, In
    <3>4. fds' = [fds EXCEPT ![p] = 0] /\ prog' = [prog EXCEPT ![p] = r]
      BY <2>1, <2>3
    <3> HIDE DEF r
    <3> QED
      BY <1>0, <2>1, <3>3, <3>4
  <2>4. CASE /\ \/ prog' = [prog EXCEPT ![p] = Back(prog[p])]
                \/ prog' = [prog EXCEPT ![p] = [Back(prog[p]) EXCEPT !.code = "Conflict"]]
             /\ fds' = [fds EXCEPT ![p] = @ - 1]
    <3>1. /\ Back(prog[p]) \in Calls /\ Owns(Back(prog[p]), 0) /\ SetUp(Back(prog[p]))
          /\ Back(prog[p]).pc \in {"scan", "idle"}
      BY <1>0, <2>1, FailureOwns
    <3>2. PICK r : r \in {Back(prog[p]), [Back(prog[p]) EXCEPT !.code = "Conflict"]} /\ prog' = [prog EXCEPT ![p] = r]
      BY <2>4
    <3>3. r \in Calls /\ Owns(r, 0) /\ SetUp(r) /\ Fine(r)
      <4> DEFINE s == [Back(prog[p]) EXCEPT !.code = "Conflict"]
      <4>1. Alike(Back(prog[p]), s)
        BY <3>1 DEF Alike, Calls
      <4>2. s \in Calls
        BY <3>1 DEF Calls
      <4>3. Back(prog[p]).index = 0
        BY <1>0 DEF Back, Closed, Ended, Calls
      <4>4. r.index = 0 /\ r.pc \in {"scan", "idle"}
        BY <3>1, <3>2, <4>1, <4>3 DEF Alike
      <4> QED
        BY <3>1, <3>2, <4>1, <4>2, <4>4, AlikeOwns
    <3>4. fds' = [fds EXCEPT ![p] = 0]
      BY <2>1, <2>4
    <3> QED
      BY <1>0, <2>1, <3>2, <3>3, <3>4
  <2> QED
    BY <1>7, <2>2, <2>3, <2>4 DEF ScanHears, ScanIsSilent, ProbeHears, Set
<1> QED
  BY <1>3, <1>4, <1>5, <1>6, <1>7 DEF Elsewhere

(* Every step keeps the sockets where they belong. *)
LEMMA StepOwns == CallsOwn /\ [Next]_vars => CallsOwn'
<1> SUFFICES ASSUME CallsOwn, [Next]_vars
             PROVE  CallsOwn'
  OBVIOUS
<1>0. /\ prog \in [Programs -> Calls] /\ fds \in [Programs -> 0..1]
      /\ link \in [Channels -> Links] /\ wired \in [Sides -> Channels \cup {Nowhere}]
      /\ budget \in [failures : 0..MaxFailures, events : 0..MaxEvents]
      /\ \A p \in Programs : prog[p] \in Calls /\ Owns(prog[p], fds[p]) /\ SetUp(prog[p])
      /\ 0 \in 0..1 /\ 1 \in 0..1
  BY DEF CallsOwn, TypeOK
<1>1. ASSUME NEW p \in Programs, Opening(p)
      PROVE  CallsOwn'
  <2>1. /\ wired' = wired /\ budget' \in [failures : 0..MaxFailures, events : 0..MaxEvents]
    BY <1>1, OpeningSteps
  <2>2. CASE \E r, n : /\ Onward(p, r, n)
                       /\ prog' = [prog EXCEPT ![p] = r] /\ fds' = [fds EXCEPT ![p] = n]
                       /\ link' = link \/ link' = Configured(p) \/ link' = BroughtUp(p)
    <3>1. PICK r, n : /\ Onward(p, r, n)
                      /\ prog' = [prog EXCEPT ![p] = r] /\ fds' = [fds EXCEPT ![p] = n]
                      /\ link' = link \/ link' = Configured(p) \/ link' = BroughtUp(p)
      BY <2>2
    <3>2. r \in Calls /\ n \in 0..1 /\ Owns(r, n) /\ SetUp(r) /\ prog[p].chan \in Channels
      BY <3>1, OnwardOwns
    <3>3. link' \in [Channels -> Links]
      <4>1. link[prog[p].chan] \in Links
        BY <1>0, <3>2
      <4>2. /\ Configured(p) = [link EXCEPT ![prog[p].chan] = [link[prog[p].chan] EXCEPT !.rates = "protocol"]]
            /\ BroughtUp(p) = [link EXCEPT ![prog[p].chan] = [link[prog[p].chan] EXCEPT !.up = TRUE, !.by = "sdk"]]
        BY <1>0, <3>2, <4>1 DEF Configured, BroughtUp
      <4>3. /\ [link[prog[p].chan] EXCEPT !.rates = "protocol"] \in Links
            /\ [link[prog[p].chan] EXCEPT !.up = TRUE, !.by = "sdk"] \in Links
        BY <4>1 DEF Links
      <4> QED
        BY <1>0, <3>1, <4>2, <4>3
    <3> QED
      BY <2>1, <3>1, <3>2, <3>3, OneOwns
  <2>3. CASE \E b \in BOOLEAN : /\ prog' = [prog EXCEPT ![p] = [Back(prog[p]) EXCEPT !.steady = b]]
                                /\ fds' = [fds EXCEPT ![p] = 0] /\ link' = link
    <3>1. PICK b \in BOOLEAN : /\ prog' = [prog EXCEPT ![p] = [Back(prog[p]) EXCEPT !.steady = b]]
                               /\ fds' = [fds EXCEPT ![p] = 0] /\ link' = link
      BY <2>3
    <3>2. prog[p].pc \notin {"idle", "list", "scan"}
      BY <1>1 DEF Opening, FindInterface, IsInterfaceUp, OpenNetlink, ConfigureProtocolConstants, BringLinkUp,
                  CreateSocket, EnableFdFrames, ResolveIndex, Bind, SetIdFilters, SetErrorMask, In
    <3> DEFINE r == [Back(prog[p]) EXCEPT !.steady = b]
    <3>3. r \in Calls /\ Owns(r, 0) /\ SetUp(r)
      BY <1>0, <3>2, FailureOwns
    <3>4. prog' = [prog EXCEPT ![p] = r] /\ fds' = [fds EXCEPT ![p] = 0] /\ link' = link
      BY <3>1
    <3> HIDE DEF r
    <3>5. link' \in [Channels -> Links] /\ 0 \in 0..1
      BY <1>0, <3>4
    <3> QED
      BY <2>1, <3>3, <3>4, <3>5, OneOwns
  <2> QED
    BY <1>1, <2>2, <2>3, OpeningSteps
<1>2. ASSUME NEW p \in Programs, Elsewhere(p)
      PROVE  CallsOwn'
  <2>1. PICK r \in Calls, n \in 0..1 :
          Owns(r, n) /\ SetUp(r) /\ prog' = [prog EXCEPT ![p] = r] /\ fds' = [fds EXCEPT ![p] = n]
    BY <1>2, CallSteps
  <2>2. UNCHANGED <<link, wired, budget>>
    BY <1>2, CallSteps
  <2> QED
    BY <1>0, <2>1, <2>2, OneOwns
<1>8. ASSUME NEW p \in Programs, Disconnect(p)
      PROVE  CallsOwn'
  <2>1. prog[p].pc = "idle" /\ fds[p] = 1 /\ fds' = [fds EXCEPT ![p] = 0] /\ UNCHANGED <<link, wired, budget>>
    <3>1. prog[p].pc = "idle" /\ fds[p] = 1
      BY <1>0, <1>8 DEF Disconnect, In, Owns
    <3>2. fds' = [fds EXCEPT ![p] = fds[p] - 1] /\ UNCHANGED <<link, wired, budget>>
      BY <1>8 DEF Disconnect
    <3> QED
      BY <3>1, <3>2
  <2>2. prog' = [q \in Programs |-> IF q = p THEN Closed(prog[p]) ELSE [prog[q] EXCEPT !.rivals = prog[q].rivals \ {p}]]
    BY <1>8 DEF Disconnect
  <2>3. ASSUME NEW q \in Programs
        PROVE  prog'[q] \in Calls /\ Owns(prog'[q], fds'[q]) /\ SetUp(prog'[q])
    <3>1. CASE q = p
      <4>1. prog'[p] = Closed(prog[p]) /\ fds'[p] = 0
        BY <1>0, <2>1, <2>2
      <4> QED
        <5>1. prog[p] \in Calls /\ NoSocket \in Sockets
          BY <1>0, Constants
        <5>2. Closed(prog[p]) \in Calls
          BY <5>1 DEF Closed, Calls
        <5>3. LET r == Closed(prog[p]) IN r.pc = "idle" /\ ~r.open /\ ~r.running /\ r.sock = NoSocket
          BY <2>1, <5>1 DEF Closed, Calls
        <5>4. Owns(Closed(prog[p]), 0) /\ SetUp(Closed(prog[p]))
          BY <5>3 DEF Owns, SetUp, Holding, Bound
        <5> QED
          BY <3>1, <4>1, <5>2, <5>4
    <3>2. CASE q # p
      <4>1. prog'[q] = [prog[q] EXCEPT !.rivals = prog[q].rivals \ {p}] /\ fds'[q] = fds[q]
        BY <1>0, <2>1, <2>2, <3>2
      <4>2. prog[q].rivals \ {p} \in SUBSET Programs
        BY <1>0 DEF Calls
      <4> QED
        <5>1. prog[q] \in Calls /\ Owns(prog[q], fds[q]) /\ SetUp(prog[q])
          BY <1>0
        <5>2. Alike(prog[q], prog'[q])
          BY <4>1, <4>2, <5>1 DEF Alike, Calls
        <5> QED
          BY <4>1, <5>1, <5>2, AlikeOwns DEF Alike
    <3> QED
      BY <3>1, <3>2
  <2>4. prog' \in [Programs -> Calls] /\ fds' \in [Programs -> 0..1]
    BY <1>0, <2>1, <2>2, <2>3
  <2> QED
    BY <1>0, <2>1, <2>3, <2>4 DEF CallsOwn, TypeOK
<1>9. ASSUME prog' = [q \in Programs |-> prog'[q]], \A q \in Programs : Alike(prog[q], prog'[q]),
             UNCHANGED fds, link' \in [Channels -> Links], wired' \in [Sides -> Channels \cup {Nowhere}],
             budget' \in [failures : 0..MaxFailures, events : 0..MaxEvents]
      PROVE  CallsOwn'
  <2>1. \A q \in Programs : prog'[q] \in Calls /\ Owns(prog'[q], fds'[q]) /\ SetUp(prog'[q])
    BY <1>0, <1>9, AlikeOwns DEF Alike
  <2>2. prog' \in [Programs -> Calls]
    BY <1>9, <2>1
  <2> QED
    BY <1>0, <1>9, <2>1, <2>2 DEF CallsOwn, TypeOK
<1>10. ASSUME NEW p \in Programs, Transmit(p)
       PROVE  CallsOwn'
  BY <1>0, <1>9, <1>10, DeliverAlike, Constants DEF Transmit, Frames
<1>11. ASSUME NEW s \in Sides, HandSpeaks(s)
       PROVE  CallsOwn'
  BY <1>0, <1>9, <1>11, DeliverAlike, Constants DEF HandSpeaks, Frames
<1>12. ASSUME NEW s, Disturb(s)
       PROVE  prog' = [q \in Programs |-> prog'[q]] /\ \A q \in Programs : Alike(prog[q], prog'[q])
  BY <1>12, DisturbAlike DEF Disturb
<1>13. budget.events > 0 => [budget EXCEPT !.events = budget.events - 1] \in [failures : 0..MaxFailures, events : 0..MaxEvents]
  <2>1. budget.events \in 0..MaxEvents /\ MaxEvents \in Nat
    BY <1>0, Constants
  <2>2. budget.events > 0 => budget.events - 1 \in 0..MaxEvents
    BY <2>1
  <2> QED
    BY <1>0, <2>2
<1>14. ASSUME NEW c \in Channels, Replug(c) \/ Unplug(c) \/ TakeDown(c) \/ BringUpByHand(c)
       PROVE  CallsOwn'
  <2>1. link' \in [Channels -> Links] /\ fds' = fds /\ wired' = wired /\ budget.events > 0
    BY <1>0, <1>14, EventSteps
  <2>2. \E s : Disturb(s)
    BY <1>14 DEF Replug, Unplug, TakeDown, BringUpByHand, Event
  <2>3. prog' = [q \in Programs |-> prog'[q]] /\ \A q \in Programs : Alike(prog[q], prog'[q])
    BY <1>12, <2>2 DEF Disturb
  <2>4. budget' \in [failures : 0..MaxFailures, events : 0..MaxEvents]
    BY <1>13, <1>14, EventSteps
  <2> QED
    BY <1>0, <1>9, <2>1, <2>3, <2>4
<1>15. ASSUME NEW s \in Sides, Move(s)
       PROVE  CallsOwn'
  <2>1. /\ Disturb({s}) /\ fds' = fds /\ link' = link /\ budget.events > 0
        /\ budget' = [budget EXCEPT !.events = budget.events - 1]
        /\ \E c \in (Channels \cup {Nowhere}) \ {wired[s]} : wired' = [wired EXCEPT ![s] = c]
    BY <1>15 DEF Move
  <2>2. wired' \in [Sides -> Channels \cup {Nowhere}]
    BY <1>0, <2>1
  <2> QED
    BY <1>0, <1>9, <1>12, <1>13, <2>1, <2>2
<1>16. CASE UNCHANGED vars
  BY <1>16 DEF CallsOwn, TypeOK, vars
<1> QED
  BY <1>1, <1>2, <1>8, <1>10, <1>11, <1>14, <1>15, <1>16 DEF Next, InCall, Elsewhere

(* No program has a socket at first.                                      *)
LEMMA InitOwns == Init => CallsOwn
<1> SUFFICES ASSUME Init
             PROVE  CallsOwn
  OBVIOUS
<1>1. /\ MaxEvents \in Nat /\ MaxFailures \in Nat /\ NoSocket \in Sockets /\ 0 \in 0..MaxEvents + 1 /\ 1 \in 0..MaxEvents + 1
      /\ Config \in [Programs -> Channels \cup {AutoInterface}]
  BY Constants
<1>2. ASSUME NEW p \in Programs
      PROVE  prog[p] \in Calls /\ Owns(prog[p], fds[p]) /\ SetUp(prog[p])
  <2>1. fds[p] = 0 /\ Config[p] \in Channels \cup {AutoInterface}
    BY <1>1 DEF Init
  <2>2. prog[p] = [pc |-> "idle", name |-> Config[p], chan |-> Nowhere, index |-> 0, todo |-> {},
                   scan |-> FALSE, sock |-> NoSocket, open |-> FALSE, running |-> FALSE,
                   code |-> "None", rivals |-> {}, steady |-> FALSE, from |-> Config[p]]
    BY DEF Init
  <2>3. prog[p] \in Calls
    BY <1>1, <2>1, <2>2 DEF Calls, Labels
  <2>4. prog[p].pc = "idle" /\ ~prog[p].open /\ ~prog[p].running /\ prog[p].sock = NoSocket
    BY <2>2
  <2> QED
    BY <2>1, <2>3, <2>4 DEF Owns, SetUp, Holding, Bound
<1>3. prog \in [Programs -> Calls] /\ fds \in [Programs -> 0..1]
  BY <1>2 DEF Init
<1>4. link \in [Channels -> Links]
  <2>1. /\ [index |-> 1, up |-> TRUE, rates |-> "protocol", by |-> "operator"] \in Links
        /\ [index |-> 1, up |-> FALSE, rates |-> "none", by |-> "operator"] \in Links
    BY <1>1 DEF Links
  <2> QED
    BY <2>1 DEF Init
<1>5. wired \in [Sides -> Channels \cup {Nowhere}] /\ budget \in [failures : 0..MaxFailures, events : 0..MaxEvents]
  BY <1>1, CanConnectionAssumption DEF Init
<1> QED
  BY <1>2, <1>3, <1>4, <1>5 DEF CallsOwn, TypeOK

(* The first part of the invariant.                                        *)
LEMMA AlwaysOwns == Spec => []CallsOwn
BY InitOwns, StepOwns, PTL DEF Spec

(* A program holds at most the CAN socket and the netlink socket its call  *)
(* needs (Transport::open(), ensure_interface_up()), and every variable    *)
(* keeps its type.                                                         *)
THEOREM CanTypeCorrect == Spec => []TypeOK
<1>1. CallsOwn => TypeOK
  BY DEF CallsOwn
<1> QED
  BY <1>1, AlwaysOwns, PTL

(* Whatever step of a scan or an opening fails, a program between its      *)
(* calls has exactly the socket it is connected through, set up as         *)
(* connect() promises (hand_comms.cpp, canfd/transport.cpp).               *)
THEOREM SocketsOwned == Spec => []SocketsAreOwned
<1>1. CallsOwn => SocketsAreOwned
  BY DEF CallsOwn, SocketsAreOwned, Owns, SetUp, Holding, In
<1> QED
  BY <1>1, AlwaysOwns, PTL

-----------------------------------------------------------------------------
(* Second part: the links.                                                 *)

(* At first every link is the operator's and nothing has an index.         *)
LEMMA InitConfigured == Init => LinksConfigured
<1> SUFFICES ASSUME Init
             PROVE  LinksConfigured
  OBVIOUS
<1>1. CallsOwn /\ MaxEvents \in Nat
  BY InitOwns, Constants
<1>2. Fresh = 2
  BY <1>1 DEF Init, Fresh
<1>3. ASSUME NEW c \in Channels
      PROVE  link[c].index = 1 /\ link[c].by = "operator"
  BY DEF Init
<1>4. ASSUME NEW p \in Programs
      PROVE  prog[p].index = 0 /\ ~In(p, "bring up")
  BY DEF Init, In
<1>5. Indexed
  <2>1. \A c \in Channels : link[c].index < Fresh
    BY <1>2, <1>3
  <2>2. ASSUME NEW p \in Programs
        PROVE  prog[p].index < Fresh
    <3>1. prog[p].index = 0
      BY <1>4
    <3> QED
      BY <1>2, <3>1
  <2> QED
    BY <1>4, <2>1, <2>2 DEF Indexed
<1>6. BroughtUpConfigured
  BY <1>3 DEF BroughtUpConfigured
<1> QED
  BY <1>1, <1>5, <1>6 DEF LinksConfigured

(* What the four kinds of steps do to the indices: none is ever beyond     *)
(* what has been given, and a bring-up is reached only from a              *)
(* configuration of the same device.                                       *)
LEMMA StepConfigures == LinksConfigured /\ [Next]_vars => LinksConfigured'
<1> SUFFICES ASSUME LinksConfigured, [Next]_vars
             PROVE  Indexed' /\ BroughtUpConfigured'
  BY StepOwns DEF LinksConfigured
<1>0. /\ CallsOwn /\ CallsOwn' /\ link \in [Channels -> Links] /\ prog \in [Programs -> Calls]
      /\ budget.events \in 0..MaxEvents /\ MaxEvents \in Nat /\ Fresh \in Nat /\ Fresh > 0
      /\ \A p \in Programs : prog[p].index \in Nat
      /\ \A c \in Channels : link[c].index \in Nat /\ link[c] \in Links
  BY StepOwns, Constants DEF LinksConfigured, CallsOwn, TypeOK, Links, Calls, Fresh
<1>1. ASSUME NEW p \in Programs, NEW r, prog' = [prog EXCEPT ![p] = r], budget'.events = budget.events,
             r.index \in {0, prog[p].index} \cup {link[c].index : c \in Channels},
             \/ link' = link
             \/ prog[p].chan \in Channels /\ link' = Configured(p)
             \/ prog[p].chan \in Channels /\ link' = BroughtUp(p) /\ In(p, "bring up") /\ SameDevice(p),
             r.pc = "bring up" => prog[p].chan \in Channels /\ link' = Configured(p) /\ r.chan = prog[p].chan
      PROVE  Indexed' /\ BroughtUpConfigured'
  <2>1. ASSUME NEW c \in Channels
        PROVE  /\ link'[c].index = link[c].index
               /\ link[c].rates # "none" => link'[c].rates # "none"
               /\ link' = Configured(p) /\ c = prog[p].chan => link'[c].rates # "none"
               /\ link'[c].up /\ link'[c].by = "sdk" => link'[c].rates # "none"
    <3>1. CASE link' = link
      BY <1>0, <3>1 DEF LinksConfigured, BroughtUpConfigured, Configured, Links
    <3>2. CASE prog[p].chan \in Channels /\ link' = Configured(p)
      BY <1>0, <3>2 DEF LinksConfigured, BroughtUpConfigured, Configured, Links
    <3>3. CASE prog[p].chan \in Channels /\ link' = BroughtUp(p) /\ In(p, "bring up") /\ SameDevice(p)
      <4>1. link[prog[p].chan].rates # "none"
        BY <1>1, <3>3 DEF LinksConfigured, Indexed, Named
      <4>2. /\ link'[c].index = link[c].index /\ link'[c].rates = link[c].rates
            /\ c # prog[p].chan => link'[c] = link[c]
        BY <1>0, <3>3 DEF BroughtUp, Links
      <4> QED
        BY <4>1, <4>2 DEF LinksConfigured, BroughtUpConfigured
    <3> QED
      BY <1>1, <3>1, <3>2, <3>3
  <2>2. Fresh' = Fresh
    BY <1>1 DEF Fresh
  <2>3. \A q \in Programs : prog'[q].index < Fresh
    BY <1>0, <1>1 DEF LinksConfigured, Indexed
  <2>4. ASSUME NEW q \in Programs, In(q, "bring up")', SameDevice(q)'
        PROVE  Named(q)'.rates # "none"
    <3>1. CASE q = p
      <4>1. prog'[p] = r /\ r.pc = "bring up"
        BY <1>0, <1>1, <2>4, <3>1 DEF In
      <4>2. prog[p].chan \in Channels /\ link' = Configured(p) /\ prog'[p].chan = prog[p].chan
        BY <1>1, <4>1
      <4> QED
        BY <2>1, <3>1, <4>2 DEF Named
    <3>2. CASE q # p
      <4>1. prog'[q] = prog[q]
        BY <1>0, <1>1, <3>2
      <4>2. prog[q].chan \in Channels
        BY <1>0, <2>4, <4>1 DEF CallsOwn, Owns, In
      <4> QED
        BY <2>1, <2>4, <4>1, <4>2 DEF LinksConfigured, Indexed, In, SameDevice, Named
    <3> QED
      BY <3>1, <3>2
  <2>5. Indexed'
    BY <2>1, <2>2, <2>3, <2>4 DEF Indexed, LinksConfigured
  <2> QED
    BY <2>1, <2>5 DEF BroughtUpConfigured
<1>2. ASSUME NEW p \in Programs, Opening(p)
      PROVE  Indexed' /\ BroughtUpConfigured'
  <2>1. prog[p] \in Calls /\ budget'.events = budget.events
    BY <1>0, <1>2, OpeningSteps
  <2>2. CASE \E r, n : /\ Onward(p, r, n)
                       /\ prog' = [prog EXCEPT ![p] = r]
                       /\ \/ link' = link /\ r.pc # "bring up"
                          \/ In(p, "configure") /\ link' = Configured(p)
                          \/ In(p, "bring up") /\ link' = BroughtUp(p)
    <3>1. PICK r, n : /\ Onward(p, r, n)
                      /\ prog' = [prog EXCEPT ![p] = r]
                      /\ \/ link' = link /\ r.pc # "bring up"
                         \/ In(p, "configure") /\ link' = Configured(p)
                         \/ In(p, "bring up") /\ link' = BroughtUp(p)
      BY <2>2
    <3>2. prog[p].chan \in Channels /\ r.chan = prog[p].chan
      BY <1>0, <3>1, OnwardOwns
    <3>3. r.index \in {prog[p].index, Named(p).index}
      BY <2>1, <3>1 DEF Onward, Advances, Resolves, Binds, Filters, Masks, At, Calls
    <3>4. In(p, "bring up") => SameDevice(p) /\ r.pc = "socket"
      BY <2>1, <3>1 DEF Onward, Advances, Resolves, Binds, Filters, Masks, In
    <3>5. In(p, "configure") => r.pc = "bring up"
      BY <2>1, <3>1 DEF Onward, Advances, Resolves, Binds, Filters, Masks, In
    <3>6. r.index \in {0, prog[p].index} \cup {link[c].index : c \in Channels}
      BY <3>2, <3>3 DEF Named
    <3>7. /\ \/ link' = link
             \/ prog[p].chan \in Channels /\ link' = Configured(p)
             \/ prog[p].chan \in Channels /\ link' = BroughtUp(p) /\ In(p, "bring up") /\ SameDevice(p)
          /\ r.pc = "bring up" => prog[p].chan \in Channels /\ link' = Configured(p) /\ r.chan = prog[p].chan
      BY <3>1, <3>2, <3>4, <3>5
    <3> QED
      BY <1>1, <2>1, <3>1, <3>6, <3>7
  <2>3. CASE \E b \in BOOLEAN : prog' = [prog EXCEPT ![p] = [Back(prog[p]) EXCEPT !.steady = b]] /\ link' = link
    <3>1. PICK b \in BOOLEAN : prog' = [prog EXCEPT ![p] = [Back(prog[p]) EXCEPT !.steady = b]] /\ link' = link
      BY <2>3
    <3> DEFINE r == [Back(prog[p]) EXCEPT !.steady = b]
    <3>2. r.index = 0 /\ r.pc # "bring up"
      BY <2>1 DEF Back, Closed, Ended, Calls
    <3>3. prog' = [prog EXCEPT ![p] = r] /\ link' = link
      BY <3>1
    <3> HIDE DEF r
    <3>4. PICK s : prog' = [prog EXCEPT ![p] = s] /\ s.index = 0 /\ s.pc # "bring up"
      BY <3>2, <3>3
    <3>5. /\ s.index \in {0, prog[p].index} \cup {link[c].index : c \in Channels}
          /\ s.pc = "bring up" => prog[p].chan \in Channels /\ link' = Configured(p) /\ s.chan = prog[p].chan
      BY <3>3, <3>4
    <3> QED
      BY <1>1, <2>1, <3>3, <3>4, <3>5
  <2> QED
    BY <1>0, <1>2, <2>2, <2>3, OpeningSteps
<1>3. ASSUME NEW p \in Programs, Elsewhere(p)
      PROVE  Indexed' /\ BroughtUpConfigured'
  <2>1. link' = link /\ budget'.events = budget.events
    BY <1>0, <1>3, CallSteps
  <2>2. PICK r : prog' = [prog EXCEPT ![p] = r] /\ r.pc # "bring up" /\ r.index \in {0, prog[p].index}
    BY <1>0, <1>3, CallSteps
  <2> QED
    BY <1>1, <2>1, <2>2
<1>4. ASSUME link' = link, budget' = budget,
             \A q \in Programs : prog'[q].index = prog[q].index /\ prog'[q].pc = prog[q].pc
                                /\ (In(q, "bring up") => prog'[q].chan = prog[q].chan)
      PROVE  Indexed' /\ BroughtUpConfigured'
  BY <1>4 DEF LinksConfigured, Indexed, BroughtUpConfigured, In, SameDevice, Named, Fresh
<1>5. ASSUME NEW p \in Programs, Disconnect(p)
      PROVE  Indexed' /\ BroughtUpConfigured'
  <2>1. ASSUME NEW q \in Programs
        PROVE  prog'[q].index = prog[q].index /\ prog'[q].pc = prog[q].pc /\ (In(q, "bring up") => prog'[q].chan = prog[q].chan)
    <3>1. prog[q] \in Calls
      BY <1>0
    <3>2. prog'[q] = IF q = p THEN Closed(prog[p]) ELSE [prog[q] EXCEPT !.rivals = prog[q].rivals \ {p}]
      BY <1>5 DEF Disconnect
    <3> QED
      BY <1>5, <3>1, <3>2 DEF Disconnect, Closed, Calls, In
  <2> QED
    BY <1>4, <1>5, <2>1 DEF Disconnect
<1>6. ASSUME NEW p \in Programs, Transmit(p)
      PROVE  Indexed' /\ BroughtUpConfigured'
  <2>1. /\ \A q \in Programs : Alike(prog[q], prog'[q])
        /\ UNCHANGED <<fds, link, wired, budget>>
    BY <1>0, <1>6, DeliverAlike, Constants DEF Transmit, Frames
  <2> QED
    BY <1>4, <2>1 DEF Alike
<1>7. ASSUME NEW s \in Sides, HandSpeaks(s)
      PROVE  Indexed' /\ BroughtUpConfigured'
  <2>1. /\ \A q \in Programs : Alike(prog[q], prog'[q])
        /\ UNCHANGED <<fds, link, wired, budget>>
    BY <1>0, <1>7, DeliverAlike, Constants DEF HandSpeaks, Frames
  <2> QED
    BY <1>4, <2>1 DEF Alike
<1>8. ASSUME NEW c \in Channels, Replug(c) \/ Unplug(c) \/ TakeDown(c) \/ BringUpByHand(c)
      PROVE  Indexed' /\ BroughtUpConfigured'
  <2>1. PICK new \in Links : /\ link' = [link EXCEPT ![c] = new]
                             /\ \/ new.index \in {0, Fresh} /\ ~new.up
                                \/ /\ new.index = link[c].index /\ link[c].up /\ ~new.up
                                   /\ new.rates = link[c].rates
                                \/ new.index = link[c].index /\ new.by = "operator" /\ new.rates # "none"
    BY <1>0, <1>8, EventSteps
  <2>2. budget.events > 0 /\ budget' = [budget EXCEPT !.events = budget.events - 1]
    BY <1>0, <1>8, EventSteps
  <2>3. Fresh' = Fresh + 1
    BY <1>0, <2>2 DEF Fresh, CallsOwn, TypeOK
  <2>4. \A q \in Programs : Alike(prog[q], prog'[q])
    BY <1>0, <1>8, DisturbAlike DEF Replug, Unplug, TakeDown, BringUpByHand, Event
  <2>5. ASSUME NEW d \in Channels
        PROVE  link'[d].index < Fresh'
    <3>1. link[d].index < Fresh /\ link[d].index \in Nat /\ link[c].index < Fresh /\ link[c].index \in Nat
      BY <1>0 DEF LinksConfigured, Indexed
    <3>2. link'[d].index \in {0, Fresh, link[d].index}
      BY <1>0, <2>1
    <3> HIDE DEF Fresh
    <3> QED
      BY <1>0, <2>3, <3>1, <3>2
  <2>6. ASSUME NEW q \in Programs
        PROVE  prog'[q].index < Fresh'
    <3>1. prog[q].index < Fresh /\ prog[q].index \in Nat
      BY <1>0 DEF LinksConfigured, Indexed
    <3>2. prog'[q].index = prog[q].index
      BY <2>4 DEF Alike
    <3> QED
      BY <1>0, <2>3, <3>1, <3>2
  <2>7. ASSUME NEW q \in Programs, In(q, "bring up")', SameDevice(q)'
        PROVE  Named(q)'.rates # "none"
    <3>1. /\ In(q, "bring up") /\ prog'[q].chan = prog[q].chan /\ prog'[q].index = prog[q].index
          /\ prog[q].chan \in Channels
      BY <1>0, <2>4, <2>7 DEF CallsOwn, Owns, In, Alike
    <3>2. prog[q].index # 0 /\ prog[q].index # Fresh /\ prog[q].index = link'[prog[q].chan].index
      <4>1. prog[q].index < Fresh /\ prog[q].index \in Nat
        BY <1>0 DEF LinksConfigured, Indexed
      <4>2. prog[q].index # Fresh
        BY <1>0, <4>1
      <4> QED
        BY <2>7, <3>1, <4>2 DEF SameDevice, Named
    <3>3. CASE prog[q].chan = c
      BY <1>0, <2>1, <2>7, <3>1, <3>2, <3>3 DEF LinksConfigured, Indexed, SameDevice, Named
    <3>4. CASE prog[q].chan # c
      BY <1>0, <2>1, <2>7, <3>1, <3>2, <3>4 DEF LinksConfigured, Indexed, SameDevice, Named
    <3> QED
      BY <3>3, <3>4
  <2>8. BroughtUpConfigured'
    BY <1>0, <2>1 DEF LinksConfigured, BroughtUpConfigured
  <2>9. Indexed'
    BY <2>5, <2>6, <2>7 DEF Indexed
  <2> QED
    BY <2>8, <2>9
<1>9. ASSUME NEW s \in Sides, Move(s)
      PROVE  Indexed' /\ BroughtUpConfigured'
  <2>1. \A q \in Programs : Alike(prog[q], prog'[q])
    BY <1>0, <1>9, DisturbAlike DEF Move
  <2>2. Fresh' = Fresh + 1 /\ link' = link
    BY <1>0, <1>9 DEF Fresh, Move, CallsOwn, TypeOK
  <2>3. ASSUME NEW c \in Channels
        PROVE  link'[c].index < Fresh'
    <3>1. link[c].index < Fresh /\ link[c].index \in Nat
      BY <1>0 DEF LinksConfigured, Indexed
    <3> QED
      BY <1>0, <2>2, <3>1
  <2>4. ASSUME NEW q \in Programs
        PROVE  prog'[q].index < Fresh'
    <3>1. prog[q].index < Fresh /\ prog[q].index \in Nat
      BY <1>0 DEF LinksConfigured, Indexed
    <3>2. prog'[q].index = prog[q].index
      BY <2>1 DEF Alike
    <3> QED
      BY <1>0, <2>2, <3>1, <3>2
  <2> QED
    BY <2>1, <2>2, <2>3, <2>4 DEF LinksConfigured, Indexed, BroughtUpConfigured, Alike, In, SameDevice, Named
<1>10. CASE UNCHANGED vars
  BY <1>10 DEF LinksConfigured, Indexed, BroughtUpConfigured, In, SameDevice, Named, Fresh, vars
<1> QED
  BY <1>2, <1>3, <1>5, <1>6, <1>7, <1>8, <1>9, <1>10 DEF Next, InCall, Elsewhere

(* The SDK brings up no link whose bit rates nobody has set: the index in  *)
(* both netlink requests is that of one device (ensure_interface_up()).    *)
THEOREM BroughtUpLinksConfigured == Spec => []BroughtUpConfigured
<1>1. LinksConfigured => BroughtUpConfigured
  BY DEF LinksConfigured
<1> QED
  BY <1>1, InitConfigured, StepConfigures, PTL DEF Spec

-----------------------------------------------------------------------------
(* Third part: the other master.                                           *)

(* What a frame on the bus does to the call of a program.                  *)
LEMMA DeliverKeeps ==
  ASSUME CallsOwn, NEW sender, NEW f, NEW c, Deliver(sender, f, c), NEW p \in Programs
  PROVE  LET r == prog[p]  t == prog'[p] IN
         /\ t.pc = r.pc /\ t.chan = r.chan /\ t.scan = r.scan /\ t.todo = r.todo /\ t.rivals = r.rivals
         /\ t.steady = r.steady /\ t.from = r.from /\ t.sock.bound = r.sock.bound
         /\ r.sock.queue \subseteq t.sock.queue /\ t.sock.queue \subseteq r.sock.queue \cup {f}
         /\ r.chan # c => t.sock.queue = r.sock.queue
         /\ t.sock.owed = r.sock.owed \/ (t.sock.owed = r.sock.owed \ {sender} /\ (OwnIds(p, f) => f \in t.sock.queue))
<1>1. prog[p] \in Calls /\ prog[p].sock \in Sockets
  BY DEF CallsOwn, TypeOK, Calls
<1>2. CASE p = sender \/ prog[p].chan # c \/ ~Live(p)
  <2>1. prog'[p] = prog[p]
    BY <1>2 DEF Deliver
  <2> QED
    BY <2>1
<1>3. CASE ~(p = sender \/ prog[p].chan # c \/ ~Live(p))
  <2> DEFINE queue == IF Passes(p, f) THEN prog[p].sock.queue \cup {f} ELSE prog[p].sock.queue
             owed == prog[p].sock.owed \ {sender}
  <2>1. prog'[p] = [prog[p] EXCEPT !.sock.queue = queue, !.sock.owed = owed]
    BY <1>3 DEF Deliver
  <2>2. queue \in {prog[p].sock.queue, prog[p].sock.queue \cup {f}} /\ (OwnIds(p, f) => f \in queue)
    BY DEF Passes
  <2> HIDE DEF queue, owed
  <2>3. /\ prog'[p] = [prog[p] EXCEPT !.sock = prog'[p].sock]
        /\ prog'[p].sock.queue = queue /\ prog'[p].sock.owed = owed /\ prog'[p].sock.bound = prog[p].sock.bound
    <3> DEFINE sock == [prog[p].sock EXCEPT !.queue = queue, !.owed = owed]
    <3>1. prog'[p] = [prog[p] EXCEPT !.sock = sock]
      BY <1>1, <2>1 DEF Calls, Sockets
    <3>2. sock.queue = queue /\ sock.owed = owed /\ sock.bound = prog[p].sock.bound
      BY <1>1 DEF Sockets
    <3> HIDE DEF sock
    <3>3. prog'[p].sock = sock
      BY <1>1, <3>1 DEF Calls
    <3> QED
      BY <3>1, <3>2, <3>3
  <2>4. LET r == prog[p]  t == prog'[p] IN
         /\ t.pc = r.pc /\ t.chan = r.chan /\ t.scan = r.scan /\ t.todo = r.todo /\ t.rivals = r.rivals
         /\ t.steady = r.steady /\ t.from = r.from
    BY <1>1, <2>3 DEF Calls
  <2>5. prog[p].chan = c
    BY <1>3
  <2> QED
    BY <2>2, <2>3, <2>4, <2>5 DEF owed
<1> QED
  BY <1>2, <1>3

(* What a disturbance does to it.                                          *)
LEMMA DisturbKeeps ==
  ASSUME CallsOwn, NEW s, Disturb(s), NEW p \in Programs
  PROVE  prog'[p] = prog[p] \/ prog'[p] = [prog[p] EXCEPT !.steady = FALSE]
BY DEF Disturb

(* One program goes on with the call r.                                    *)
LEMMA OneHeard ==
  ASSUME RivalsAreHeard, NEW p \in Programs, NEW r, prog' = [prog EXCEPT ![p] = r], Heard(r, Side[p])
  PROVE  \A q \in Programs : Heard(prog'[q], Side[q])
<1>1. prog \in [Programs -> Calls] /\ \A q \in Programs : Heard(prog[q], Side[q])
  BY DEF RivalsAreHeard, CallsOwn, TypeOK
<1>2. ASSUME NEW q \in Programs
      PROVE  Heard(prog'[q], Side[q])
  <2>1. prog'[q] = IF q = p THEN r ELSE prog[q]
    BY <1>1
  <2> QED
    BY <1>1, <2>1
<1> QED
  BY <1>2

(* A frame of this program is one of the frames it decodes as a conflict.  *)
LEMMA ProbeKeepsRivals ==
  ASSUME RivalsAreHeard, NEW p \in Programs, ProbeHears(p)
  PROVE  \E r : prog' = [prog EXCEPT ![p] = r] /\ Heard(r, Side[p])
<1>1. prog[p] \in Calls /\ Heard(prog[p], Side[p]) /\ In(p, "probe") /\ Side[p] \in Sides
  BY Constants DEF RivalsAreHeard, CallsOwn, TypeOK, ProbeHears
<1>2. PICK f \in prog[p].sock.queue :
        prog' = [prog EXCEPT ![p] = IF Decode(p, f) = "ConflictingCommand" THEN [Back(prog[p]) EXCEPT !.code = "Conflict"]
                                    ELSE [prog[p] EXCEPT !.sock.queue = @ \ {f}]]
  BY DEF ProbeHears, Set
<1>3. CASE Decode(p, f) = "ConflictingCommand"
  <2> DEFINE r == [Back(prog[p]) EXCEPT !.code = "Conflict"]
  <2>1. prog' = [prog EXCEPT ![p] = r]
    BY <1>2, <1>3
  <2>2. r.pc \in {"idle", "scan"}
    BY <1>1 DEF Back, Closed, Ended, Calls
  <2> QED
    BY <2>1, <2>2 DEF Heard
<1>4. CASE Decode(p, f) # "ConflictingCommand"
  <2> DEFINE r == [prog[p] EXCEPT !.sock = [prog[p].sock EXCEPT !.queue = prog[p].sock.queue \ {f}]]
  <2>1. prog' = [prog EXCEPT ![p] = r]
    BY <1>2, <1>4
  <2>2. f # Command(Side[p])
    BY <1>1, <1>4 DEF Decode, Command
  <2>3. /\ r.pc = prog[p].pc /\ r.rivals = prog[p].rivals
        /\ r.sock.queue = prog[p].sock.queue \ {f} /\ r.sock.owed = prog[p].sock.owed
    BY <1>1 DEF Calls, Sockets
  <2>4. Heard(r, Side[p])
    BY <1>1, <2>2, <2>3 DEF Heard
  <2> QED
    BY <2>1, <2>4
<1> QED
  BY <1>3, <1>4

(* A rival leaves what is owed only with a frame in the queue, and a frame *)
(* leaves the queue of a probe only as the conflict it is.                 *)
LEMMA StepHeard == RivalsAreHeard /\ [Next]_vars => RivalsAreHeard'
<1> SUFFICES ASSUME RivalsAreHeard, [Next]_vars
             PROVE  \A q \in Programs : Heard(prog'[q], Side[q])
  BY StepOwns DEF RivalsAreHeard
<1>0. CallsOwn /\ prog \in [Programs -> Calls] /\ \A q \in Programs : Heard(prog[q], Side[q])
  BY DEF RivalsAreHeard, CallsOwn, TypeOK
<1> DEFINE Goal == \A q \in Programs : Heard(prog'[q], Side[q])
<1>1. ASSUME NEW p \in Programs, Opening(p)
      PROVE  Goal
  <2>1. CASE \E r, n : Onward(p, r, n) /\ prog' = [prog EXCEPT ![p] = r]
    <3>1. PICK r, n : Onward(p, r, n) /\ prog' = [prog EXCEPT ![p] = r]
      BY <2>1
    <3>2. Masks(p, r) \/ r.pc # "probe"
      <4>1. prog[p] \in Calls
        BY <1>0
      <4>2. Binds(p, r) \/ Filters(p, r) => r.pc # "probe"
        <5>1. ASSUME NEW x, NEW y, NEW l
              PROVE  [At(p, l) EXCEPT !.sock = x].pc = l /\ [At(p, l) EXCEPT !.sock = x, !.open = y].pc = l
          BY <4>1 DEF At, Calls
        <5>2. Binds(p, r) => r.pc = "filters"
          BY <5>1 DEF Binds
        <5>3. ASSUME Filters(p, r)
              PROVE  r.pc # "probe"
          <6> DEFINE l == IF prog[p].scan THEN "observe" ELSE "error mask"
                     x == [prog[p].sock EXCEPT !.filtered = TRUE, !.owed = Senders(prog[p].chan)]
          <6>1. r = [At(p, l) EXCEPT !.sock = x] /\ l # "probe"
            BY <5>3 DEF Filters
          <6> HIDE DEF l, x
          <6> QED
            BY <5>1, <6>1
        <5> QED
          BY <5>2, <5>3
      <4>3. Advances(p, r) \/ Resolves(p, r) => r.pc # "probe"
        BY DEF Advances, Resolves
      <4> QED
        BY <3>1, <4>2, <4>3 DEF Onward
    <3>3. CASE Masks(p, r)
      <4> DEFINE sock == [prog[p].sock EXCEPT !.masked = TRUE, !.owed = Senders(prog[p].chan)]
                 rivals == {q \in Masters(prog[p].chan) : Side[q] = Side[p]}
      <4>1. prog[p] \in Calls /\ prog[p].sock \in Sockets
        BY <1>0 DEF Calls
      <4>2. sock.owed = Senders(prog[p].chan) /\ rivals \subseteq Senders(prog[p].chan)
        BY <4>1 DEF Sockets, Senders
      <4>3. r = [At(p, "probe") EXCEPT !.sock = sock, !.rivals = rivals]
        BY <3>3 DEF Masks
      <4>4. \A q \in rivals : Side[q] = Side[p]
        OBVIOUS
      <4> HIDE DEF sock, rivals
      <4>5. r.sock = sock /\ r.rivals = rivals
        BY <4>1, <4>3 DEF At, Calls
      <4>6. Heard(r, Side[p])
        BY <4>2, <4>4, <4>5 DEF Heard
      <4> QED
        BY <3>1, <4>6, OneHeard
    <3>4. CASE r.pc # "probe"
      BY <3>1, <3>4, OneHeard DEF Heard
    <3> QED
      BY <3>2, <3>3, <3>4
  <2>2. CASE \E b \in BOOLEAN : prog' = [prog EXCEPT ![p] = [Back(prog[p]) EXCEPT !.steady = b]]
    <3>1. PICK b \in BOOLEAN : prog' = [prog EXCEPT ![p] = [Back(prog[p]) EXCEPT !.steady = b]]
      BY <2>2
    <3> DEFINE r == [Back(prog[p]) EXCEPT !.steady = b]
    <3>2. prog[p] \in Calls
      BY <1>0
    <3>3. r.pc # "probe"
      BY <3>2 DEF Back, Closed, Ended, Calls
    <3>4. prog' = [prog EXCEPT ![p] = r]
      BY <3>1
    <3> HIDE DEF r
    <3> QED
      BY <3>3, <3>4, OneHeard DEF Heard
  <2> QED
    BY <1>0, <1>1, <2>1, <2>2, OpeningSteps
<1>2. ASSUME NEW p \in Programs, Elsewhere(p)
      PROVE  Goal
  <2>1. CASE ProbeHears(p)
    BY <2>1, ProbeKeepsRivals, OneHeard
  <2>2. CASE ConnectSucceeds(p)
    <3>1. prog' = [prog EXCEPT ![p] = Ended(prog[p], "None")] /\ prog[p] \in Calls
      BY <1>0, <2>2 DEF ConnectSucceeds, Set
    <3>2. Ended(prog[p], "None").pc = "idle"
      BY <3>1 DEF Ended, Calls
    <3>3. Heard(Ended(prog[p], "None"), Side[p])
      BY <3>2 DEF Heard
    <3> QED
      BY <3>1, <3>3, OneHeard
  <2>3. CASE ~ProbeHears(p) /\ ~ConnectSucceeds(p)
    <3>1. ~In(p, "probe")
      BY <1>2, <2>3 DEF Elsewhere, Connect, ListInterfaces, NextCandidate, ScanFails, ScanHears, ScanIsSilent, Run, In
    <3>2. PICK r : prog' = [prog EXCEPT ![p] = r] /\ r.pc # "probe"
      BY <1>0, <1>2, <3>1, CallSteps
    <3> QED
      BY <3>2, OneHeard DEF Heard
  <2> QED
    BY <2>1, <2>2, <2>3
<1>3. ASSUME NEW p \in Programs, Disconnect(p)
      PROVE  Goal
  <2>1. ASSUME NEW q \in Programs
        PROVE  Heard(prog'[q], Side[q])
    <3>1. prog[q] \in Calls /\ Heard(prog[q], Side[q])
      BY <1>0
    <3>2. prog'[q] = IF q = p THEN Closed(prog[p]) ELSE [prog[q] EXCEPT !.rivals = prog[q].rivals \ {p}]
      BY <1>3 DEF Disconnect
    <3>3. CASE q = p
      BY <1>3, <3>1, <3>2, <3>3 DEF Disconnect, Closed, Calls, In, Heard
    <3>4. CASE q # p
      <4>1. /\ prog'[q].pc = prog[q].pc /\ prog'[q].rivals = prog[q].rivals \ {p}
            /\ prog'[q].sock = prog[q].sock
        BY <3>1, <3>2, <3>4 DEF Calls
      <4> QED
        BY <3>1, <4>1 DEF Heard
    <3> QED
      BY <3>3, <3>4
  <2> QED
    BY <2>1
<1>4. ASSUME NEW p \in Programs, Transmit(p)
      PROVE  Goal
  <2>1. ASSUME NEW q \in Programs
        PROVE  Heard(prog'[q], Side[q])
    <3>1. Heard(prog[q], Side[q]) /\ Side[p] \in Sides
      BY <1>0, Constants
    <3>2. Deliver(p, Command(Side[p]), prog[p].chan)
      BY <1>4 DEF Transmit, Command
    <3>3. /\ prog'[q].pc = prog[q].pc /\ prog'[q].rivals = prog[q].rivals
          /\ prog[q].sock.queue \subseteq prog'[q].sock.queue
          /\ \/ prog'[q].sock.owed = prog[q].sock.owed
             \/ /\ prog'[q].sock.owed = prog[q].sock.owed \ {p}
                /\ OwnIds(q, Command(Side[p])) => Command(Side[p]) \in prog'[q].sock.queue
      BY <1>0, <3>2, DeliverKeeps
    <3>4. Side[p] = Side[q] => OwnIds(q, Command(Side[p]))
      BY DEF OwnIds, Command
    <3> QED
      BY <3>1, <3>3, <3>4 DEF Heard
  <2> QED
    BY <2>1
<1>5. ASSUME NEW s \in Sides, HandSpeaks(s)
      PROVE  Goal
  <2>1. ASSUME NEW q \in Programs
        PROVE  Heard(prog'[q], Side[q])
    <3>1. Heard(prog[q], Side[q]) /\ prog[q].rivals \subseteq Programs /\ s \notin Programs
      BY <1>0, <1>5, Constants DEF Calls
    <3>2. Deliver(s, State(s), wired[s])
      BY <1>5 DEF HandSpeaks, State
    <3>3. /\ prog'[q].pc = prog[q].pc /\ prog'[q].rivals = prog[q].rivals
          /\ prog[q].sock.queue \subseteq prog'[q].sock.queue
          /\ prog'[q].sock.owed = prog[q].sock.owed \/ prog'[q].sock.owed = prog[q].sock.owed \ {s}
      BY <1>0, <3>2, DeliverKeeps
    <3> QED
      BY <3>1, <3>3 DEF Heard
  <2> QED
    BY <2>1
<1>6. ASSUME NEW s, Disturb(s)
      PROVE  Goal
  <2>1. ASSUME NEW q \in Programs
        PROVE  Heard(prog'[q], Side[q])
    <3>1. prog[q] \in Calls /\ Heard(prog[q], Side[q])
      BY <1>0
    <3>2. prog'[q].pc = prog[q].pc /\ prog'[q].rivals = prog[q].rivals /\ prog'[q].sock = prog[q].sock
      BY <1>0, <1>6, <3>1, DisturbKeeps DEF Calls
    <3> QED
      BY <3>1, <3>2 DEF Heard
  <2> QED
    BY <2>1
<1>7. ASSUME NEW c \in Channels, Replug(c) \/ Unplug(c) \/ TakeDown(c) \/ BringUpByHand(c)
      PROVE  Goal
  BY <1>6, <1>7 DEF Replug, Unplug, TakeDown, BringUpByHand, Event
<1>8. ASSUME NEW s \in Sides, Move(s)
      PROVE  Goal
  BY <1>6, <1>8 DEF Move
<1>9. CASE UNCHANGED vars
  BY <1>0, <1>9 DEF vars
<1> QED
  BY <1>1, <1>2, <1>3, <1>4, <1>5, <1>7, <1>8, <1>9 DEF Next, InCall, Elsewhere

(* connect() does not succeed next to a master that was commanding the     *)
(* same hand when the probe for one began (HandComms::connect()).          *)
THEOREM MasterNoticed == Spec => MasterIsNoticed
<1>1. Init => RivalsAreHeard
  <2> SUFFICES ASSUME Init, NEW p \in Programs
               PROVE  prog[p].pc = "idle"
    BY InitOwns DEF RivalsAreHeard, Heard
  <2> QED
    BY DEF Init
<1>2. RivalsAreHeard => [\A p \in Programs : ConnectSucceeds(p) /\ Live(p) =>
                           prog[p].rivals \cap Masters(prog[p].chan) = {}]_vars
  <2> SUFFICES ASSUME RivalsAreHeard, NEW p \in Programs, ConnectSucceeds(p), Live(p),
                      NEW q \in prog[p].rivals, q \in Masters(prog[p].chan)
               PROVE  FALSE
    OBVIOUS
  <2>1. q \in prog[p].sock.owed \/ Command(Side[p]) \in prog[p].sock.queue
    BY DEF RivalsAreHeard, Heard, ConnectSucceeds, In
  <2>2. q \in Senders(prog[p].chan)
    BY DEF Senders
  <2> QED
    BY <2>1, <2>2 DEF ConnectSucceeds, WindowOver
<1> QED
  BY <1>1, <1>2, StepHeard, PTL DEF Spec, MasterIsNoticed

-----------------------------------------------------------------------------
(* Fourth part: the scan.                                                  *)

(* What a system call that succeeds leaves of a call, and what it adds.    *)
LEMMA OnwardKeeps ==
  ASSUME CallsOwn, NEW p \in Programs, NEW r, NEW n, Onward(p, r, n)
  PROVE  /\ r.chan = prog[p].chan /\ r.scan = prog[p].scan /\ r.todo = prog[p].todo
         /\ r.from = prog[p].from /\ r.steady = prog[p].steady /\ r.sock.queue = prog[p].sock.queue
         /\ prog[p].pc \notin {"idle", "list", "scan"}
         /\ r.pc \in Opened => r.pc = "socket" \/ prog[p].pc \in Opened
         /\ r.pc = "socket" => In(p, "bring up") \/ (In(p, "is up") /\ Named(p).up)
         /\ r.pc \in Bound => \/ In(p, "bind") /\ SameDevice(p) /\ r.sock.bound = prog[p].index
                              \/ prog[p].pc \in Bound /\ r.sock.bound = prog[p].sock.bound
         /\ r.pc = "observe" => r.sock.owed = Senders(prog[p].chan)
<1>1. prog[p] \in Calls /\ prog[p].sock \in Sockets
  BY DEF CallsOwn, TypeOK, Calls
<1>2. CASE Advances(p, r)
  <2>1. /\ r.pc \notin Bound /\ (r.pc \in Opened => r.pc = "socket" \/ prog[p].pc \in Opened)
        /\ r.pc = "socket" => In(p, "bring up") \/ (In(p, "is up") /\ Named(p).up)
    BY <1>2 DEF Advances, In, Opened, Bound
  <2>2. r = At(p, r.pc) /\ prog[p].pc \notin {"idle", "list", "scan"}
    BY <1>2 DEF Advances, In
  <2>3. /\ r.chan = prog[p].chan /\ r.scan = prog[p].scan /\ r.todo = prog[p].todo
        /\ r.from = prog[p].from /\ r.steady = prog[p].steady /\ r.sock = prog[p].sock
    BY <1>1, <2>2 DEF At, Calls
  <2> QED
    BY <2>1, <2>2, <2>3 DEF Bound
<1>3. CASE Resolves(p, r)
  <2>1. r.pc \notin Bound /\ (r.pc \in Opened => prog[p].pc \in Opened) /\ r.pc # "socket"
    BY <1>3 DEF Resolves, In, Opened, Bound
  <2>2. r = [At(p, r.pc) EXCEPT !.index = Named(p).index] /\ prog[p].pc \notin {"idle", "list", "scan"}
    BY <1>3 DEF Resolves, In
  <2>3. /\ r.chan = prog[p].chan /\ r.scan = prog[p].scan /\ r.todo = prog[p].todo
        /\ r.from = prog[p].from /\ r.steady = prog[p].steady /\ r.sock = prog[p].sock
    BY <1>1, <2>2 DEF At, Calls
  <2> QED
    BY <2>1, <2>2, <2>3 DEF Bound
<1>4. CASE Binds(p, r)
  <2> DEFINE sock == [prog[p].sock EXCEPT !.bound = prog[p].index]
  <2>1. sock.queue = prog[p].sock.queue /\ sock.bound = prog[p].index
    BY <1>1 DEF Sockets
  <2>2. r = [At(p, "filters") EXCEPT !.sock = sock, !.open = ~prog[p].scan] /\ In(p, "bind") /\ SameDevice(p)
    BY <1>4 DEF Binds
  <2> HIDE DEF sock
  <2>3. /\ r.chan = prog[p].chan /\ r.scan = prog[p].scan /\ r.todo = prog[p].todo /\ r.pc = "filters"
        /\ r.from = prog[p].from /\ r.steady = prog[p].steady /\ r.sock = sock
    BY <1>1, <2>2 DEF At, Calls
  <2> QED
    BY <2>1, <2>2, <2>3 DEF In, Opened
<1>5. CASE Filters(p, r)
  <2> DEFINE sock == [prog[p].sock EXCEPT !.filtered = TRUE, !.owed = Senders(prog[p].chan)]
             l == IF prog[p].scan THEN "observe" ELSE "error mask"
  <2>1. /\ sock.queue = prog[p].sock.queue /\ sock.bound = prog[p].sock.bound
        /\ sock.owed = Senders(prog[p].chan)
    BY <1>1 DEF Sockets
  <2>2. r = [At(p, l) EXCEPT !.sock = sock] /\ In(p, "filters") /\ l # "socket"
    BY <1>5 DEF Filters
  <2> HIDE DEF sock, l
  <2>3. /\ r.chan = prog[p].chan /\ r.scan = prog[p].scan /\ r.todo = prog[p].todo /\ r.pc = l
        /\ r.from = prog[p].from /\ r.steady = prog[p].steady /\ r.sock = sock
    BY <1>1, <2>2 DEF At, Calls
  <2> QED
    BY <2>1, <2>2, <2>3 DEF In, Opened, Bound
<1>6. CASE Masks(p, r)
  <2> DEFINE sock == [prog[p].sock EXCEPT !.masked = TRUE, !.owed = Senders(prog[p].chan)]
             rivals == {q \in Masters(prog[p].chan) : Side[q] = Side[p]}
  <2>1. /\ sock.queue = prog[p].sock.queue /\ sock.bound = prog[p].sock.bound
        /\ sock.owed = Senders(prog[p].chan)
    BY <1>1 DEF Sockets
  <2>2. r = [At(p, "probe") EXCEPT !.sock = sock, !.rivals = rivals] /\ In(p, "error mask")
    BY <1>6 DEF Masks
  <2> HIDE DEF sock, rivals
  <2>3. /\ r.chan = prog[p].chan /\ r.scan = prog[p].scan /\ r.todo = prog[p].todo /\ r.pc = "probe"
        /\ r.from = prog[p].from /\ r.steady = prog[p].steady /\ r.sock = sock
    BY <1>1, <2>2 DEF At, Calls
  <2> QED
    BY <2>1, <2>2, <2>3 DEF In, Opened, Bound
<1> QED
  BY <1>2, <1>3, <1>4, <1>5, <1>6 DEF Onward

(* What an opening does to the links.                                      *)
LEMMA OpeningKeepsLinks ==
  ASSUME CallsOwn, NEW p \in Programs, Opening(p)
  PROVE  /\ prog[p].pc \notin {"idle", "list", "scan"}
         /\ \A c \in Channels : link'[c].index = link[c].index /\ (link[c].up => link'[c].up)
         /\ In(p, "bring up") /\ prog'[p].pc = "socket" => link'[prog[p].chan].up
<1>1. /\ link \in [Channels -> Links] /\ Owns(prog[p], fds[p]) /\ prog[p].pc \notin {"idle", "list", "scan"}
  BY DEF CallsOwn, TypeOK, Opening, FindInterface, IsInterfaceUp, OpenNetlink, ConfigureProtocolConstants, BringLinkUp,
         CreateSocket, EnableFdFrames, ResolveIndex, Bind, SetIdFilters, SetErrorMask, In
<1>2. prog[p].chan \in Channels
  BY <1>1 DEF Owns
<1>3. link' \in {link, Configured(p), BroughtUp(p)}
  BY OpeningSteps
<1>4. \A c \in Channels : link'[c].index = link[c].index /\ (link[c].up => link'[c].up)
  <2>1. \A c \in Channels : link[c] \in Links
    BY <1>1
  <2>2. CASE link' = link
    BY <2>2
  <2>3. CASE link' = Configured(p)
    BY <1>1, <1>2, <2>1, <2>3 DEF Configured, Links
  <2>4. CASE link' = BroughtUp(p)
    BY <1>1, <1>2, <2>1, <2>4 DEF BroughtUp, Links
  <2> QED
    BY <1>3, <2>2, <2>3, <2>4
<1>5. ASSUME In(p, "bring up"), prog'[p].pc = "socket"
      PROVE  link'[prog[p].chan].up
  <2>1. BringLinkUp(p)
    BY <1>5 DEF Opening, FindInterface, IsInterfaceUp, OpenNetlink, ConfigureProtocolConstants, CreateSocket,
                EnableFdFrames, ResolveIndex, Bind, SetIdFilters, SetErrorMask, In
  <2>2. link' = IF ~Named(p).up THEN BroughtUp(p) ELSE link
    BY <1>5, <2>1 DEF BringLinkUp, BroughtUp
  <2>3. link[prog[p].chan] \in Links
    BY <1>1, <1>2
  <2> QED
    BY <1>1, <1>2, <2>2, <2>3 DEF BroughtUp, Named, Links
<1> QED
  BY <1>1, <1>4, <1>5

(* One program goes on with the call r.                                    *)
LEMMA OneOnTheWay ==
  ASSUME ScansAreOnTheWay, NEW p \in Programs, NEW r, prog' = [prog EXCEPT ![p] = r], wired' = wired,
         \A c \in Channels : link'[c].index = link[c].index /\ (link[c].up => link'[c].up),
         Expected(r) => OnTheWay(r, Side[p], wired[Side[p]], link'[wired[Side[p]]])
  PROVE  \A q \in Programs : Expected(prog'[q]) => OnTheWay(prog'[q], Side[q], wired'[Side[q]], link'[wired'[Side[q]]])
<1>1. prog \in [Programs -> Calls]
  BY DEF ScansAreOnTheWay, CallsOwn, TypeOK
<1>2. ASSUME NEW q \in Programs, Expected(prog'[q])
      PROVE  OnTheWay(prog'[q], Side[q], wired'[Side[q]], link'[wired'[Side[q]]])
  <2>1. CASE q = p
    <3>1. prog'[q] = r
      BY <1>1, <2>1
    <3> QED
      BY <1>2, <2>1, <3>1
  <2>2. CASE q # p
    <3>1. prog'[q] = prog[q]
      BY <1>1, <2>2
    <3> DEFINE h == wired[Side[q]]
    <3>2. OnTheWay(prog[q], Side[q], h, link[h])
      BY <1>2, <3>1 DEF ScansAreOnTheWay
    <3>3. h \in Channels
      BY <3>2 DEF OnTheWay
    <3>4. link'[h].index = link[h].index /\ (link[h].up => link'[h].up)
      BY <3>3
    <3> HIDE DEF h
    <3>5. OnTheWay(prog[q], Side[q], h, link'[h])
      BY <3>2, <3>4 DEF OnTheWay
    <3> QED
      BY <3>1, <3>5 DEF h
  <2> QED
    BY <2>1, <2>2
<1> QED
  BY <1>2

(* The opening of a channel: on that of the hand it cannot fail unnoticed. *)
LEMMA OpeningOnTheWay ==
  ASSUME ScansAreOnTheWay, NEW p \in Programs, Opening(p)
  PROVE  \A q \in Programs : Expected(prog'[q]) => OnTheWay(prog'[q], Side[q], wired'[Side[q]], link'[wired'[Side[q]]])
<1> DEFINE s == Side[p]  h == wired[s]
<1>0. /\ CallsOwn /\ prog[p] \in Calls /\ prog \in [Programs -> Calls] /\ Owns(prog[p], fds[p]) /\ s \in Sides
      /\ Expected(prog[p]) => OnTheWay(prog[p], s, h, link[h])
  BY Constants DEF ScansAreOnTheWay, CallsOwn, TypeOK
<1>1. /\ wired' = wired /\ prog[p].pc \notin {"idle", "list", "scan"}
      /\ \A c \in Channels : link'[c].index = link[c].index /\ (link[c].up => link'[c].up)
      /\ In(p, "bring up") /\ prog'[p].pc = "socket" => link'[prog[p].chan].up
  BY <1>0, OpeningSteps, OpeningKeepsLinks
<1>2. CASE \E r, n : Onward(p, r, n) /\ prog' = [prog EXCEPT ![p] = r]
  <2>1. PICK r, n : Onward(p, r, n) /\ prog' = [prog EXCEPT ![p] = r]
    BY <1>2
  <2>2. SUFFICES ASSUME Expected(r)
                 PROVE  OnTheWay(r, s, h, link'[h])
    BY <1>1, <2>1, OneOnTheWay
  <2>3. /\ r.chan = prog[p].chan /\ r.scan = prog[p].scan /\ r.todo = prog[p].todo
        /\ r.from = prog[p].from /\ r.steady = prog[p].steady /\ r.sock.queue = prog[p].sock.queue
        /\ r.pc \in Opened => r.pc = "socket" \/ prog[p].pc \in Opened
        /\ r.pc \in Bound => \/ In(p, "bind") /\ SameDevice(p) /\ r.sock.bound = prog[p].index
                             \/ prog[p].pc \in Bound /\ r.sock.bound = prog[p].sock.bound
        /\ r.pc = "observe" => r.sock.owed = Senders(prog[p].chan)
        /\ r.pc \notin {"idle", "list", "scan"} /\ prog'[p] = r
    BY <1>0, <2>1, OnwardKeeps, OnwardOwns
  <2>4. OnTheWay(prog[p], s, h, link[h])
    BY <1>0, <1>1, <2>2, <2>3 DEF Expected
  <2>5. /\ h \in Channels /\ link'[h].index = link[h].index /\ (link[h].up => link'[h].up)
        /\ In(p, "bring up") /\ r.pc = "socket" => link'[prog[p].chan].up
    BY <1>1, <2>3, <2>4 DEF OnTheWay
  <2>6. r.pc = "socket" /\ r.chan = h => link'[h].up
    <3>1. SUFFICES ASSUME r.pc = "socket", r.chan = h
                   PROVE  link'[h].up
      OBVIOUS
    <3>2. In(p, "bring up") \/ (In(p, "is up") /\ Named(p).up)
      BY <1>0, <2>1, <3>1, OnwardKeeps
    <3> QED
      BY <2>3, <2>5, <3>1, <3>2 DEF Named
  <2>7. r.pc \in Opened /\ r.chan = h => link'[h].up
    BY <2>3, <2>4, <2>5, <2>6 DEF OnTheWay
  <2>8. r.pc \in Bound /\ r.chan = h => r.sock.bound = link'[h].index
    <3>1. In(p, "bind") /\ SameDevice(p) /\ prog[p].chan = h => prog[p].index = link[h].index
      BY DEF SameDevice, Named
    <3> QED
      BY <2>3, <2>4, <2>5, <3>1 DEF OnTheWay
  <2>9. r.pc = "observe" /\ r.chan = h => s \in r.sock.owed
    <3>1. SUFFICES ASSUME r.pc = "observe", r.chan = h
                   PROVE  s \in r.sock.owed
      OBVIOUS
    <3>2. prog[p].pc \in Opened
      BY <2>3, <3>1 DEF Opened, Bound
    <3>3. link[h].up
      BY <2>3, <2>4, <3>1, <3>2 DEF OnTheWay
    <3>4. s \in Senders(h)
      BY <1>0, <3>3 DEF Senders
    <3> QED
      BY <2>3, <3>1, <3>4
  <2> HIDE DEF s, h
  <2>10. /\ r.scan => h \in r.todo \/ (r.chan = h /\ r.pc # "scan")
         /\ ~r.scan => r.chan = h
         /\ State(s) \in r.sock.queue => r.chan = h
         /\ h \in Channels /\ link'[h].index # 0
    BY <1>1, <2>3, <2>4, <2>5 DEF OnTheWay
  <2> QED
    BY <2>3, <2>7, <2>8, <2>9, <2>10 DEF OnTheWay
<1>3. CASE \E b \in BOOLEAN : /\ b => prog[p].steady /\ prog[p].chan # wired[Side[p]]
                              /\ prog' = [prog EXCEPT ![p] = [Back(prog[p]) EXCEPT !.steady = b]]
  <2>1. PICK b \in BOOLEAN : /\ b => prog[p].steady /\ prog[p].chan # h
                             /\ prog' = [prog EXCEPT ![p] = [Back(prog[p]) EXCEPT !.steady = b]]
    BY <1>3
  <2> DEFINE r == [Back(prog[p]) EXCEPT !.steady = b]
  <2>2. SUFFICES ASSUME Expected(r)
                 PROVE  OnTheWay(r, s, h, link'[h])
    BY <1>1, <2>1, OneOnTheWay
  <2>3. /\ r.steady = b /\ r.from = prog[p].from
        /\ ~prog[p].scan => r.pc = "idle"
        /\ prog[p].scan => r.pc = "scan" /\ r.scan /\ r.todo = prog[p].todo /\ r.sock = NoSocket
    BY <1>0 DEF Back, Closed, Ended, Calls
  <2> HIDE DEF r
  <2>4. OnTheWay(prog[p], s, h, link[h]) /\ prog[p].chan # h
    BY <1>0, <1>1, <2>1, <2>2, <2>3 DEF Expected
  <2>5. r.pc = "scan" /\ r.scan /\ r.todo = prog[p].todo /\ r.sock.queue = {} /\ prog[p].scan
    BY <2>2, <2>3, Constants DEF Expected
  <2>6. h \in Channels /\ link'[h].index # 0 /\ h \in r.todo
    BY <1>1, <2>4, <2>5 DEF OnTheWay
  <2> QED
    BY <2>5, <2>6 DEF OnTheWay, Opened, Bound
<1> QED
  BY <1>0, <1>2, <1>3, OpeningSteps

(* The steps of a scan: it takes every candidate, and what it hears of its *)
(* hand it hears on the channel of its hand.                               *)
LEMMA ElsewhereOnTheWay ==
  ASSUME ScansAreOnTheWay, NEW p \in Programs, Elsewhere(p)
  PROVE  \A q \in Programs : Expected(prog'[q]) => OnTheWay(prog'[q], Side[q], wired'[Side[q]], link'[wired'[Side[q]]])
<1> DEFINE s == Side[p]  h == wired[s]
<1>0. /\ CallsOwn /\ prog[p] \in Calls /\ prog[p].sock \in Sockets /\ Owns(prog[p], fds[p]) /\ SetUp(prog[p])
      /\ s \in Sides /\ wired[s] \in Channels \cup {Nowhere} /\ NoSocket.queue = {}
      /\ Expected(prog[p]) => OnTheWay(prog[p], s, h, link[h])
  BY Constants DEF ScansAreOnTheWay, CallsOwn, TypeOK, Calls
<1>1. UNCHANGED <<link, wired>>
  BY <1>0, CallSteps
<1>2. SUFFICES \E r : prog' = [prog EXCEPT ![p] = r] /\ (Expected(r) => OnTheWay(r, s, h, link[h]))
  BY <1>1, <1>2, OneOnTheWay
<1>3. CASE Connect(p)
  <2> DEFINE steady == h # Nowhere /\ link[h].index # 0
             call == [prog[p] EXCEPT !.code = "None", !.from = prog[p].name, !.steady = steady]
             r == IF call.name = AutoInterface THEN [call EXCEPT !.pc = "list"]
                  ELSE [call EXCEPT !.pc = "interface", !.chan = call.name, !.scan = FALSE]
  <2>1. prog' = [prog EXCEPT ![p] = r] /\ prog[p].pc = "idle" /\ ~prog[p].open
    BY <1>3 DEF Connect, Set, In
  <2>2. prog[p].sock = NoSocket
    BY <1>0, <2>1 DEF SetUp, Bound
  <2>3. CASE prog[p].name = AutoInterface
    <3>1. r = [prog[p] EXCEPT !.pc = "list", !.code = "None", !.from = prog[p].name, !.steady = steady]
      BY <1>0, <2>3 DEF Calls
    <3> HIDE DEF r, steady
    <3>2. r.pc = "list" /\ r.steady = steady /\ r.sock = NoSocket
      BY <1>0, <2>2, <3>1 DEF Calls
    <3>3. Expected(r) => h \in Channels /\ link[h].index # 0
      BY <1>0, <3>2 DEF Expected, steady
    <3>4. Expected(r) => OnTheWay(r, s, h, link[h])
      BY <1>0, <3>2, <3>3 DEF OnTheWay, Opened, Bound
    <3> QED
      BY <2>1, <3>4
  <2>4. CASE prog[p].name # AutoInterface
    <3>1. r = [prog[p] EXCEPT !.pc = "interface", !.code = "None", !.from = prog[p].name, !.steady = steady,
                              !.chan = prog[p].name, !.scan = FALSE]
      BY <1>0, <2>4 DEF Calls
    <3> HIDE DEF r, steady
    <3>2. r.from = prog[p].name
      BY <1>0, <3>1 DEF Calls
    <3> QED
      BY <2>1, <2>4, <3>2 DEF Expected
  <2> QED
    BY <2>3, <2>4
<1>4. CASE ListInterfaces(p)
  <2> DEFINE todo == {c \in Channels : link[c].index # 0}
             r == [At(p, "scan") EXCEPT !.todo = todo, !.scan = TRUE]
  <2>1. prog' = [prog EXCEPT ![p] = r] /\ prog[p].pc = "list"
    BY <1>4 DEF ListInterfaces, Set, In
  <2>2. h \in Channels /\ link[h].index # 0 => h \in todo
    OBVIOUS
  <2> HIDE DEF todo
  <2>3. /\ r.pc = "scan" /\ r.todo = todo /\ r.scan /\ r.from = prog[p].from /\ r.steady = prog[p].steady
        /\ r.sock = NoSocket
    BY <1>0, <2>1 DEF At, Calls, SetUp, Bound
  <2>4. Expected(r) => OnTheWay(prog[p], s, h, link[h])
    BY <1>0, <2>1, <2>3 DEF Expected
  <2> HIDE DEF r
  <2>5. Expected(r) => OnTheWay(r, s, h, link[h])
    BY <1>0, <2>2, <2>3, <2>4 DEF OnTheWay, Opened, Bound
  <2> QED
    BY <2>1, <2>5
<1>5. CASE NextCandidate(p)
  <2>1. PICK c \in prog[p].todo : prog' = [prog EXCEPT ![p] = [At(p, "interface") EXCEPT !.chan = c, !.todo = @ \ {c}]]
    BY <1>5 DEF NextCandidate, Set
  <2> DEFINE r == [At(p, "interface") EXCEPT !.chan = c, !.todo = prog[p].todo \ {c}]
  <2>2. prog[p].pc = "scan" /\ prog[p].scan /\ prog[p].sock = NoSocket
    BY <1>0, <1>5 DEF NextCandidate, In, Owns, SetUp, Bound
  <2>3. prog' = [prog EXCEPT ![p] = r]
    BY <1>0, <2>1 DEF At, Calls
  <2>4. /\ r.pc = "interface" /\ r.chan = c /\ r.todo = prog[p].todo \ {c} /\ r.scan = prog[p].scan
        /\ r.from = prog[p].from /\ r.steady = prog[p].steady /\ r.sock = NoSocket
    BY <1>0, <2>2 DEF At, Calls
  <2> HIDE DEF r
  <2>5. Expected(r) => OnTheWay(prog[p], s, h, link[h])
    BY <1>0, <2>2, <2>4 DEF Expected
  <2>6. Expected(r) => OnTheWay(r, s, h, link[h])
    BY <1>0, <2>2, <2>4, <2>5 DEF OnTheWay, Opened, Bound
  <2> QED
    BY <2>3, <2>6
<1>6. CASE ScanFails(p) \/ ConnectSucceeds(p) \/ Run(p)
  <2>1. PICK r : /\ prog' = [prog EXCEPT ![p] = r]
                 /\ \/ r = Closed(Ended(prog[p], "InterfaceUnavailable"))
                    \/ r = Ended(prog[p], "None")
                    \/ r = [prog[p] EXCEPT !.running = TRUE] /\ prog[p].pc = "idle"
    BY <1>6 DEF ScanFails, ConnectSucceeds, Run, Set, In
  <2>2. r.pc = "idle"
    BY <1>0, <2>1 DEF Closed, Ended, Calls
  <2> QED
    BY <2>1, <2>2 DEF Expected
<1>7. CASE ScanHears(p)
  <2>1. PICK f \in prog[p].sock.queue :
          \/ /\ Decode(p, f) = "Decoded"
             /\ Set(p, [At(p, "interface") EXCEPT !.name = prog[p].chan, !.scan = FALSE, !.todo = {}, !.sock = NoSocket])
          \/ Decode(p, f) # "Decoded" /\ Set(p, [prog[p] EXCEPT !.sock.queue = @ \ {f}])
    BY <1>7 DEF ScanHears
  <2>2. prog[p].pc = "observe" /\ prog[p].scan /\ f \in Frames
    BY <1>0, <1>7 DEF ScanHears, In, Owns, Sockets
  <2>3. CASE Decode(p, f) = "Decoded"
    <3> DEFINE r == [At(p, "interface") EXCEPT !.name = prog[p].chan, !.scan = FALSE, !.todo = {}, !.sock = NoSocket]
    <3>1. prog' = [prog EXCEPT ![p] = r]
      BY <2>1, <2>3 DEF Set
    <3>2. /\ r.pc = "interface" /\ ~r.scan /\ r.chan = prog[p].chan /\ r.sock = NoSocket
          /\ r.from = prog[p].from /\ r.steady = prog[p].steady
      BY <1>0 DEF At, Calls
    <3> HIDE DEF r
    <3>3. Expected(r) => OnTheWay(prog[p], s, h, link[h])
      BY <1>0, <2>2, <3>2 DEF Expected
    <3>4. f = State(s)
      BY <2>2, <2>3 DEF Decode, State, Frames
    <3>5. Expected(r) => r.chan = h
      BY <3>2, <3>3, <3>4 DEF OnTheWay
    <3>6. Expected(r) => OnTheWay(r, s, h, link[h])
      BY <1>0, <3>2, <3>3, <3>5 DEF OnTheWay, Opened, Bound
    <3> QED
      BY <3>1, <3>6
  <2>4. CASE Decode(p, f) # "Decoded"
    <3> DEFINE r == [prog[p] EXCEPT !.sock = [prog[p].sock EXCEPT !.queue = prog[p].sock.queue \ {f}]]
    <3>1. prog' = [prog EXCEPT ![p] = r]
      BY <1>0, <2>1, <2>4 DEF Set, Calls, Sockets
    <3>2. /\ r.pc = prog[p].pc /\ r.scan = prog[p].scan /\ r.chan = prog[p].chan /\ r.todo = prog[p].todo
          /\ r.from = prog[p].from /\ r.steady = prog[p].steady
          /\ r.sock.queue = prog[p].sock.queue \ {f} /\ r.sock.owed = prog[p].sock.owed
          /\ r.sock.bound = prog[p].sock.bound
      BY <1>0 DEF Calls, Sockets
    <3> HIDE DEF r
    <3>3. f # State(s)
      BY <1>0, <2>4 DEF Decode, State
    <3>4. Expected(r) => OnTheWay(prog[p], s, h, link[h])
      BY <1>0, <3>2 DEF Expected
    <3>5. Expected(r) => OnTheWay(r, s, h, link[h])
      BY <3>2, <3>3, <3>4 DEF OnTheWay
    <3> QED
      BY <3>1, <3>5
  <2> QED
    BY <2>1, <2>3, <2>4
<1>8. CASE ScanIsSilent(p)
  <2> DEFINE r == Back(prog[p])
  <2>1. /\ prog' = [prog EXCEPT ![p] = r] /\ prog[p].pc = "observe" /\ prog[p].scan
        /\ prog[p].sock.queue = {}
        /\ Live(p) => prog[p].sock.owed \cap Senders(prog[p].chan) = {}
    BY <1>0, <1>8 DEF ScanIsSilent, Set, In, Owns, WindowOver
  <2>2. /\ r.pc = "scan" /\ r.scan /\ r.todo = prog[p].todo /\ r.sock = NoSocket
        /\ r.from = prog[p].from /\ r.steady = prog[p].steady
    BY <1>0, <2>1 DEF Back, Calls
  <2> HIDE DEF r
  <2>3. Expected(r) => OnTheWay(prog[p], s, h, link[h])
    BY <1>0, <2>1, <2>2 DEF Expected
  <2>4. ASSUME Expected(r), prog[p].chan = h
        PROVE  FALSE
    <3>1. link[h].up /\ prog[p].sock.bound = link[h].index /\ link[h].index # 0 /\ s \in prog[p].sock.owed
      BY <2>1, <2>3, <2>4 DEF OnTheWay, Opened, Bound
    <3>2. s \in Senders(prog[p].chan) /\ Live(p)
      BY <1>0, <2>4, <3>1 DEF Senders, Live
    <3> QED
      BY <2>1, <3>1, <3>2
  <2>5. Expected(r) => OnTheWay(r, s, h, link[h])
    BY <1>0, <2>1, <2>2, <2>3, <2>4 DEF OnTheWay, Opened, Bound
  <2> QED
    BY <2>1, <2>5
<1>9. CASE ProbeHears(p)
  <2>1. PICK f \in prog[p].sock.queue :
          \/ Set(p, [Back(prog[p]) EXCEPT !.code = "Conflict"])
          \/ Set(p, [prog[p] EXCEPT !.sock.queue = @ \ {f}])
    BY <1>9 DEF ProbeHears
  <2>2. prog[p].pc = "probe" /\ ~prog[p].scan
    BY <1>0, <1>9 DEF ProbeHears, In, Owns
  <2>3. CASE Set(p, [Back(prog[p]) EXCEPT !.code = "Conflict"])
    <3> DEFINE r == [Back(prog[p]) EXCEPT !.code = "Conflict"]
    <3>1. r.pc = "idle"
      BY <1>0, <2>2 DEF Back, Closed, Ended, Calls
    <3>2. prog' = [prog EXCEPT ![p] = r]
      BY <2>3 DEF Set
    <3> HIDE DEF r
    <3> QED
      BY <3>1, <3>2 DEF Expected
  <2>4. CASE Set(p, [prog[p] EXCEPT !.sock.queue = @ \ {f}])
    <3> DEFINE r == [prog[p] EXCEPT !.sock = [prog[p].sock EXCEPT !.queue = prog[p].sock.queue \ {f}]]
    <3>1. prog' = [prog EXCEPT ![p] = r]
      BY <1>0, <2>4 DEF Set, Calls, Sockets
    <3>2. /\ r.pc = prog[p].pc /\ r.scan = prog[p].scan /\ r.chan = prog[p].chan /\ r.todo = prog[p].todo
          /\ r.from = prog[p].from /\ r.steady = prog[p].steady
          /\ r.sock.queue = prog[p].sock.queue \ {f} /\ r.sock.bound = prog[p].sock.bound
      BY <1>0 DEF Calls, Sockets
    <3> HIDE DEF r
    <3>3. Expected(r) => OnTheWay(prog[p], s, h, link[h])
      BY <1>0, <3>2 DEF Expected
    <3>4. Expected(r) => OnTheWay(r, s, h, link[h])
      BY <2>2, <3>2, <3>3 DEF OnTheWay
    <3> QED
      BY <3>1, <3>4
  <2> QED
    BY <2>1, <2>3, <2>4
<1> QED
  BY <1>3, <1>4, <1>5, <1>6, <1>7, <1>8, <1>9 DEF Elsewhere

(* Nobody else takes a scan that nothing disturbed off its way.            *)
LEMMA StepOnTheWay == ScansAreOnTheWay /\ [Next]_vars => ScansAreOnTheWay'
<1> DEFINE Goal == \A q \in Programs :
                      Expected(prog'[q]) => OnTheWay(prog'[q], Side[q], wired'[Side[q]], link'[wired'[Side[q]]])
<1> SUFFICES ASSUME ScansAreOnTheWay, [Next]_vars
             PROVE  Goal
  BY StepOwns DEF ScansAreOnTheWay
<1>0. /\ CallsOwn /\ prog \in [Programs -> Calls] /\ link \in [Channels -> Links]
      /\ wired \in [Sides -> Channels \cup {Nowhere}]
      /\ \A q \in Programs : Expected(prog[q]) => OnTheWay(prog[q], Side[q], wired[Side[q]], link[wired[Side[q]]])
      /\ \A q \in Programs : Side[q] \in Sides
  BY Constants DEF ScansAreOnTheWay, CallsOwn, TypeOK
<1>1. ASSUME NEW p \in Programs, Opening(p) \/ Elsewhere(p)
      PROVE  Goal
  BY <1>1, OpeningOnTheWay, ElsewhereOnTheWay
<1>2. ASSUME NEW p \in Programs, Disconnect(p)
      PROVE  Goal
  <2>1. UNCHANGED <<link, wired>>
    BY <1>2 DEF Disconnect
  <2>2. ASSUME NEW q \in Programs, Expected(prog'[q])
        PROVE  OnTheWay(prog'[q], Side[q], wired[Side[q]], link[wired[Side[q]]])
    <3>1. prog[q] \in Calls
      BY <1>0
    <3>2. prog'[q] = IF q = p THEN Closed(prog[p]) ELSE [prog[q] EXCEPT !.rivals = prog[q].rivals \ {p}]
      BY <1>2 DEF Disconnect
    <3>3. q # p
      BY <1>2, <2>2, <3>1, <3>2 DEF Disconnect, Closed, Calls, In, Expected
    <3>4. /\ prog'[q].pc = prog[q].pc /\ prog'[q].scan = prog[q].scan /\ prog'[q].chan = prog[q].chan
          /\ prog'[q].todo = prog[q].todo /\ prog'[q].sock = prog[q].sock
          /\ prog'[q].from = prog[q].from /\ prog'[q].steady = prog[q].steady
      BY <3>1, <3>2, <3>3 DEF Calls
    <3>5. OnTheWay(prog[q], Side[q], wired[Side[q]], link[wired[Side[q]]])
      BY <1>0, <2>2, <3>4 DEF Expected
    <3> QED
      BY <3>4, <3>5 DEF OnTheWay
  <2> QED
    BY <2>1, <2>2
<1>3. ASSUME NEW p \in Programs, Transmit(p)
      PROVE  Goal
  <2>1. UNCHANGED <<link, wired>> /\ Deliver(p, Command(Side[p]), prog[p].chan)
    BY <1>3 DEF Transmit, Command
  <2>2. ASSUME NEW q \in Programs, Expected(prog'[q])
        PROVE  OnTheWay(prog'[q], Side[q], wired[Side[q]], link[wired[Side[q]]])
    <3>1. /\ prog'[q].pc = prog[q].pc /\ prog'[q].scan = prog[q].scan /\ prog'[q].chan = prog[q].chan
          /\ prog'[q].todo = prog[q].todo /\ prog'[q].sock.bound = prog[q].sock.bound
          /\ prog'[q].from = prog[q].from /\ prog'[q].steady = prog[q].steady
          /\ prog[q].sock.queue \subseteq prog'[q].sock.queue
          /\ prog'[q].sock.queue \subseteq prog[q].sock.queue \cup {Command(Side[p])}
          /\ prog'[q].sock.owed = prog[q].sock.owed \/ prog'[q].sock.owed = prog[q].sock.owed \ {p}
      BY <1>0, <2>1, DeliverKeeps
    <3>2. OnTheWay(prog[q], Side[q], wired[Side[q]], link[wired[Side[q]]])
      BY <1>0, <2>2, <3>1 DEF Expected
    <3>3. State(Side[q]) # Command(Side[p]) /\ Side[q] # p
      BY <1>0, Constants DEF State, Command
    <3> QED
      BY <3>1, <3>2, <3>3 DEF OnTheWay
  <2> QED
    BY <2>1, <2>2
<1>4. ASSUME NEW s \in Sides, HandSpeaks(s)
      PROVE  Goal
  <2>1. UNCHANGED <<link, wired>> /\ Deliver(s, State(s), wired[s])
    BY <1>4 DEF HandSpeaks, State
  <2>2. ASSUME NEW q \in Programs, Expected(prog'[q])
        PROVE  OnTheWay(prog'[q], Side[q], wired[Side[q]], link[wired[Side[q]]])
    <3>1. /\ prog'[q].pc = prog[q].pc /\ prog'[q].scan = prog[q].scan /\ prog'[q].chan = prog[q].chan
          /\ prog'[q].todo = prog[q].todo /\ prog'[q].sock.bound = prog[q].sock.bound
          /\ prog'[q].from = prog[q].from /\ prog'[q].steady = prog[q].steady
          /\ prog[q].sock.queue \subseteq prog'[q].sock.queue
          /\ prog'[q].sock.queue \subseteq prog[q].sock.queue \cup {State(s)}
          /\ prog[q].chan # wired[s] => prog'[q].sock.queue = prog[q].sock.queue
          /\ \/ prog'[q].sock.owed = prog[q].sock.owed
             \/ /\ prog'[q].sock.owed = prog[q].sock.owed \ {s}
                /\ OwnIds(q, State(s)) => State(s) \in prog'[q].sock.queue
      BY <1>0, <2>1, DeliverKeeps
    <3>2. OnTheWay(prog[q], Side[q], wired[Side[q]], link[wired[Side[q]]])
      BY <1>0, <2>2, <3>1 DEF Expected
    <3>3. CASE s = Side[q]
      <4>1. OwnIds(q, State(s))
        BY <3>3 DEF OwnIds, State
      <4> QED
        BY <3>1, <3>2, <3>3, <4>1 DEF OnTheWay
    <3>4. CASE s # Side[q]
      <4>1. State(s) # State(Side[q])
        BY <3>4 DEF State
      <4> QED
        BY <3>1, <3>2, <3>4, <4>1 DEF OnTheWay
    <3> QED
      BY <3>3, <3>4
  <2> QED
    BY <2>1, <2>2
<1>5. ASSUME NEW s, Disturb(s), NEW q \in Programs, Expected(prog'[q])
      PROVE  prog'[q] = prog[q] /\ Side[q] \notin s /\ OnTheWay(prog[q], Side[q], wired[Side[q]], link[wired[Side[q]]])
  <2>1. prog[q] \in Calls /\ prog'[q] = IF Side[q] \in s THEN [prog[q] EXCEPT !.steady = FALSE] ELSE prog[q]
    BY <1>0, <1>5 DEF Disturb
  <2>2. Side[q] \notin s
    BY <1>5, <2>1 DEF Expected, Calls
  <2> QED
    BY <1>0, <1>5, <2>1, <2>2
<1>6. ASSUME NEW c \in Channels, Replug(c) \/ Unplug(c) \/ TakeDown(c) \/ BringUpByHand(c)
      PROVE  Goal
  <2>1. Disturb(On(c))
    BY <1>6 DEF Replug, Unplug, TakeDown, BringUpByHand, Event
  <2>2. PICK new : link' = [link EXCEPT ![c] = new] /\ wired' = wired
    BY <1>0, <1>6, EventSteps
  <2>3. ASSUME NEW q \in Programs, Expected(prog'[q])
        PROVE  OnTheWay(prog'[q], Side[q], wired[Side[q]], link'[wired[Side[q]]])
    <3>1. /\ prog'[q] = prog[q] /\ Side[q] \notin On(c)
          /\ OnTheWay(prog[q], Side[q], wired[Side[q]], link[wired[Side[q]]])
      BY <1>5, <2>1, <2>3
    <3>2. wired[Side[q]] # c /\ wired[Side[q]] \in Channels
      BY <1>0, <3>1 DEF On, OnTheWay
    <3>3. link'[wired[Side[q]]] = link[wired[Side[q]]]
      BY <1>0, <2>2, <3>2
    <3> QED
      BY <3>1, <3>3
  <2> QED
    BY <2>2, <2>3
<1>7. ASSUME NEW s \in Sides, Move(s)
      PROVE  Goal
  <2>1. Disturb({s}) /\ link' = link
    BY <1>7 DEF Move
  <2>2. PICK c : wired' = [wired EXCEPT ![s] = c]
    BY <1>7 DEF Move
  <2>3. ASSUME NEW q \in Programs, Expected(prog'[q])
        PROVE  OnTheWay(prog'[q], Side[q], wired'[Side[q]], link'[wired'[Side[q]]])
    <3>1. /\ prog'[q] = prog[q] /\ Side[q] # s
          /\ OnTheWay(prog[q], Side[q], wired[Side[q]], link[wired[Side[q]]])
      BY <1>5, <2>1, <2>3
    <3>2. wired'[Side[q]] = wired[Side[q]]
      BY <1>0, <2>2, <3>1
    <3> QED
      BY <2>1, <3>1, <3>2
  <2> QED
    BY <2>3
<1>8. CASE UNCHANGED vars
  BY <1>0, <1>8 DEF vars
<1> QED
  BY <1>1, <1>2, <1>3, <1>4, <1>6, <1>7, <1>8 DEF Next, InCall, Elsewhere

(* A call of a program ends only by a step of its own, which for a scan    *)
(* that nothing disturbed is one at the channel of its hand.               *)
LEMMA ScanEnds ==
  ASSUME ScansAreOnTheWay, Next, NEW p \in Programs, Returns(p), prog[p].from = AutoInterface, prog'[p].steady
  PROVE  prog'[p].code = "Conflict" \/ (prog'[p].open /\ prog'[p].chan = wired[Side[p]])
<1> DEFINE s == Side[p]  h == wired[s]
<1>0. /\ CallsOwn /\ prog \in [Programs -> Calls] /\ prog[p] \in Calls /\ Owns(prog[p], fds[p])
      /\ prog[p].pc # "idle" /\ prog'[p].pc = "idle"
      /\ prog[p].steady => OnTheWay(prog[p], s, h, link[h])
  BY DEF ScansAreOnTheWay, CallsOwn, TypeOK, Returns, In, Expected
<1>1. CASE ScanFails(p)
  <2>1. prog'[p] = Closed(Ended(prog[p], "InterfaceUnavailable")) /\ prog[p].pc = "scan" /\ prog[p].todo = {}
    BY <1>0, <1>1 DEF ScanFails, Set, In
  <2>2. prog[p].steady /\ prog[p].scan
    BY <1>0, <2>1 DEF Closed, Ended, Calls, Owns
  <2> QED
    BY <1>0, <2>1, <2>2 DEF OnTheWay
<1>2. CASE ConnectSucceeds(p)
  <2>1. prog'[p] = Ended(prog[p], "None") /\ prog[p].pc = "probe"
    BY <1>0, <1>2 DEF ConnectSucceeds, Set, In
  <2>2. prog'[p].steady = prog[p].steady /\ prog'[p].open = prog[p].open /\ prog'[p].chan = prog[p].chan
    BY <1>0, <2>1 DEF Ended, Calls
  <2>3. prog[p].open /\ ~prog[p].scan
    BY <1>0, <2>1 DEF Owns, Bound
  <2> QED
    BY <1>0, <2>1, <2>2, <2>3 DEF OnTheWay
<1>3. CASE ProbeHears(p)
  <2>1. PICK f : prog' = [prog EXCEPT ![p] = [Back(prog[p]) EXCEPT !.code = "Conflict"]]
                 \/ prog' = [prog EXCEPT ![p] = [prog[p] EXCEPT !.sock.queue = @ \ {f}]]
    BY <1>3 DEF ProbeHears, Set
  <2>2. CASE prog' = [prog EXCEPT ![p] = [Back(prog[p]) EXCEPT !.code = "Conflict"]]
    BY <1>0, <2>2 DEF Back, Closed, Ended, Calls
  <2>3. CASE prog' = [prog EXCEPT ![p] = [prog[p] EXCEPT !.sock.queue = @ \ {f}]]
    BY <1>0, <2>3 DEF Calls
  <2> QED
    BY <2>1, <2>2, <2>3
<1>4. CASE ListInterfaces(p) \/ NextCandidate(p) \/ ScanHears(p) \/ ScanIsSilent(p)
  <2>0. ASSUME NEW x, NEW y, NEW z
        PROVE  /\ [At(p, "scan") EXCEPT !.todo = x, !.scan = y].pc = "scan"
               /\ [At(p, "interface") EXCEPT !.chan = x, !.todo = y].pc = "interface"
               /\ [At(p, "interface") EXCEPT !.name = x, !.scan = FALSE, !.todo = y, !.sock = z].pc = "interface"
               /\ [prog[p] EXCEPT !.sock = x].pc = prog[p].pc
    BY <1>0 DEF At, Calls
  <2>1. ListInterfaces(p) \/ NextCandidate(p) => prog'[p].pc # "idle"
    <3>1. ASSUME ListInterfaces(p)
          PROVE  prog'[p].pc = "scan"
      BY <1>0, <2>0, <3>1 DEF ListInterfaces, Set
    <3>2. ASSUME NextCandidate(p)
          PROVE  prog'[p].pc = "interface"
      <4>1. PICK c : prog' = [prog EXCEPT ![p] = [At(p, "interface") EXCEPT !.chan = c, !.todo = @ \ {c}]]
        BY <3>2 DEF NextCandidate, Set
      <4>2. [At(p, "interface") EXCEPT !.chan = c, !.todo = @ \ {c}].pc = "interface"
        BY <1>0 DEF At, Calls
      <4> QED
        BY <1>0, <4>1, <4>2
    <3> QED
      BY <3>1, <3>2
  <2>2. ScanIsSilent(p) => prog'[p].pc # "idle"
    BY <1>0 DEF ScanIsSilent, Set, Back, Calls, Owns, In
  <2>3. ScanHears(p) => prog'[p].pc # "idle"
    <3>1. SUFFICES ASSUME ScanHears(p)
                   PROVE  prog'[p].pc # "idle"
      OBVIOUS
    <3>2. PICK f : \/ Set(p, [At(p, "interface") EXCEPT !.name = prog[p].chan, !.scan = FALSE, !.todo = {}, !.sock = NoSocket])
                   \/ Set(p, [prog[p] EXCEPT !.sock.queue = @ \ {f}])
      BY <3>1 DEF ScanHears
    <3>3. CASE Set(p, [At(p, "interface") EXCEPT !.name = prog[p].chan, !.scan = FALSE, !.todo = {}, !.sock = NoSocket])
      BY <1>0, <2>0, <3>3 DEF Set
    <3>4. CASE Set(p, [prog[p] EXCEPT !.sock.queue = @ \ {f}])
      <4>1. prog'[p] = [prog[p] EXCEPT !.sock.queue = @ \ {f}]
        BY <1>0, <3>4 DEF Set
      <4> QED
        BY <1>0, <4>1 DEF Calls
    <3> QED
      BY <3>2, <3>3, <3>4
  <2> QED
    BY <1>0, <1>4, <2>1, <2>2, <2>3
<1>5. CASE Opening(p)
  <2>1. CASE \E r, n : Onward(p, r, n) /\ prog' = [prog EXCEPT ![p] = r]
    BY <1>0, <2>1, OnwardOwns
  <2>2. CASE \E b \in BOOLEAN : /\ b => prog[p].steady /\ prog[p].chan # wired[Side[p]]
                                /\ prog' = [prog EXCEPT ![p] = [Back(prog[p]) EXCEPT !.steady = b]]
    <3>1. PICK b \in BOOLEAN : /\ b => prog[p].steady /\ prog[p].chan # h
                               /\ prog' = [prog EXCEPT ![p] = [Back(prog[p]) EXCEPT !.steady = b]]
      BY <2>2
    <3>2. prog'[p] = [Back(prog[p]) EXCEPT !.steady = b]
      BY <1>0, <3>1
    <3>3. b /\ ~prog[p].scan
      BY <1>0, <3>2 DEF Back, Closed, Ended, Calls
    <3>4. prog[p].pc # "list"
      BY <1>0, <1>5, OpeningKeepsLinks
    <3> QED
      BY <1>0, <3>1, <3>3, <3>4 DEF OnTheWay
  <2> QED
    BY <1>0, <1>5, <2>1, <2>2, OpeningSteps
<1>6. ASSUME NEW q \in Programs, q # p, Opening(q) \/ Elsewhere(q)
      PROVE  prog'[p] = prog[p]
  <2>1. Opening(q) => prog'[p] = prog[p]
    BY <1>0, <1>6, OpeningSteps
  <2>2. Elsewhere(q) => prog'[p] = prog[p]
    BY <1>0, <1>6, CallSteps
  <2> QED
    BY <1>6, <2>1, <2>2
<1>7. ASSUME NEW q \in Programs, Disconnect(q)
      PROVE  prog'[p].pc = prog[p].pc
  <2>1. q # p /\ prog'[p] = [prog[p] EXCEPT !.rivals = prog[p].rivals \ {q}]
    BY <1>0, <1>7 DEF Disconnect, In
  <2> QED
    BY <1>0, <2>1 DEF Calls
<1>8. ASSUME NEW q \in Programs, Transmit(q)
      PROVE  prog'[p].pc = prog[p].pc
  BY <1>0, <1>8, DeliverKeeps DEF Transmit
<1>9. ASSUME NEW q \in Sides, HandSpeaks(q)
      PROVE  prog'[p].pc = prog[p].pc
  BY <1>0, <1>9, DeliverKeeps DEF HandSpeaks
<1>10. ASSUME NEW q, Disturb(q)
       PROVE  prog'[p].pc = prog[p].pc
  BY <1>0, <1>10, DisturbKeeps DEF Calls
<1>11. ASSUME NEW q \in Sides, Move(q)
       PROVE  prog'[p].pc = prog[p].pc
  BY <1>10, <1>11 DEF Move
<1>12. ASSUME NEW c \in Channels, Replug(c) \/ Unplug(c) \/ TakeDown(c) \/ BringUpByHand(c)
       PROVE  prog'[p].pc = prog[p].pc
  BY <1>10, <1>12 DEF Replug, Unplug, TakeDown, BringUpByHand, Event
<1>13. ~Connect(p) /\ ~Run(p)
  BY <1>0 DEF Connect, Run, In
<1> QED
  BY <1>0, <1>1, <1>2, <1>3, <1>4, <1>5, <1>6, <1>7, <1>8, <1>9, <1>11, <1>12, <1>13 DEF Next, InCall, Elsewhere

(* A scan during which the hand stayed on one channel, and that channel    *)
(* gave no trouble, ends at its hand or names the other master, whatever   *)
(* the other candidates do (HandComms::discover_interface()).              *)
THEOREM ScanFinds == Spec => ScanFindsItsHand
<1>1. Init => ScansAreOnTheWay
  <2> SUFFICES ASSUME Init, NEW p \in Programs
               PROVE  prog[p].pc = "idle"
    BY InitOwns DEF ScansAreOnTheWay, Expected
  <2> QED
    BY DEF Init
<1>2. ScansAreOnTheWay /\ [Next]_vars =>
        [\A p \in Programs : Returns(p) /\ prog[p].from = AutoInterface => EndsAtItsHand(p)]_vars
  BY ScanEnds DEF EndsAtItsHand
<1> QED
  BY <1>1, <1>2, StepOnTheWay, PTL DEF Spec, ScanFindsItsHand
=============================================================================
