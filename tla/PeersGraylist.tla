---------------------------- MODULE PeersGraylist ----------------------------
(***************************************************************************)
(* The per-IP graylist (shell_automaton peers/graylist) and the parts of  *)
(* the node that drive it: a misbehaving connection is graylisted by IP    *)
(* and dropped, admission refuses graylisted IPs, and a periodic timeout   *)
(* check removes entries older than the window.                            *)
(*                                                                         *)
(* A connection is a socket address, an (IP, port) pair, while an entry is *)
(* per IP: several connections of one IP may be live when it offends.      *)
(*                                                                         *)
(* Time: the code stores `since` (the action's time in nanoseconds) and    *)
(* only ever compares `now - since` with the window.  The model stores     *)
(* that age, saturated at Window, which every such comparison reads alike. *)
(***************************************************************************)
EXTENDS Naturals, FiniteSets, TLC

CONSTANTS
    IPs,            \* remote IP addresses (model values)
    Ports,          \* ports; a connection is an (ip, port) address
    Window,         \* graylist duration, in ticks
    CheckPeriod     \* ticks between two runs of the timeout check

ASSUME Window \in Nat \ {0} /\ CheckPeriod \in Nat \ {0}

Addresses == IPs \X Ports
ip(a) == a[1]

(* Bound of the history counter `held`.                                   *)
MaxHeld == Window + CheckPeriod + 1

VARIABLES
    graylist,       \* partial function IP -> age: the ip_blacklist entries
    connected,      \* live connections (socket addresses)
    clock,          \* ticks since the timeout check last ran
    held            \* history: ticks since each entry was first added

vars == <<graylist, connected, clock, held>>

-----------------------------------------------------------------------------
(* A fault: `insert` in place of `entry().or_insert()`, so that a repeated *)
(* offense restarts the window (PROJECT.json "mutants").                   *)
IpInsert(gl, i) == [j \in DOMAIN gl \cup {i} |-> IF j = i THEN 0 ELSE gl[j]]

(* Action::PeersGraylistIpAdd: the entry is inserted, stamped with the     *)
(* action's time, only if the IP has none; the first offense wins.         *)
IpAdd(gl, i) == IF i \in DOMAIN gl THEN gl ELSE gl @@ (i :> 0)

(* Action::PeersGraylistIpRemove: the entry is deleted unconditionally.    *)
IpRemove(gl, i) == [j \in DOMAIN gl \ {i} |-> gl[j]]

Graylisted(i) == i \in DOMAIN graylist

(* The IpRemove actions of one timeout check, applied one after another.   *)
RECURSIVE RemoveAll(_, _)
RemoveAll(gl, S) ==
    IF S = {} THEN gl
    ELSE LET i == CHOOSE j \in S : TRUE IN RemoveAll(IpRemove(gl, i), S \ {i})

-----------------------------------------------------------------------------
Init ==
    /\ graylist = <<>>
    /\ connected = {}
    /\ clock = 0
    /\ held = [i \in IPs |-> 0]

(* Accept or dial: admission consults the graylist first.                  *)
Connect(a) ==
    /\ a \notin connected
    /\ ~Graylisted(ip(a))
    /\ connected' = connected \cup {a}
    /\ UNCHANGED <<graylist, clock, held>>

Disconnect(a) ==
    /\ a \in connected
    /\ connected' = connected \ {a}
    /\ UNCHANGED <<graylist, clock, held>>

(* A connection misbehaves (a framing or decode error, a protocol          *)
(* violation): its IP is graylisted and this connection is dropped.  Other *)
(* connections of the same IP stay up.                                     *)
GraylistAddress(a) ==
    /\ a \in connected
    /\ graylist' = IpAdd(graylist, ip(a))
    /\ connected' = connected \ {a}
    /\ held' = IF Graylisted(ip(a)) THEN held ELSE [held EXCEPT ![ip(a)] = 0]
    /\ UNCHANGED clock

(* Time passes.  The check runs every CheckPeriod ticks, so the clock      *)
(* cannot run past a due check.                                            *)
Tick ==
    /\ clock < CheckPeriod
    /\ clock' = clock + 1
    /\ graylist' = [i \in DOMAIN graylist |->
                        IF graylist[i] < Window THEN graylist[i] + 1 ELSE Window]
    /\ held' = [i \in IPs |->
                    IF Graylisted(i) /\ held[i] < MaxHeld THEN held[i] + 1 ELSE held[i]]
    /\ UNCHANGED connected

(* The timeout check: an IpRemove for every entry whose age reached the    *)
(* window.                                                                 *)
CheckTimeouts ==
    /\ graylist' = RemoveAll(graylist, {i \in DOMAIN graylist : graylist[i] >= Window})
    /\ clock' = 0
    /\ UNCHANGED <<connected, held>>

Next ==
    \/ \E a \in Addresses : Connect(a) \/ Disconnect(a) \/ GraylistAddress(a)
    \/ Tick
    \/ CheckTimeouts

(* Time always passes and the check always runs; peers owe nothing.        *)
Fairness == WF_vars(Tick) /\ WF_vars(CheckTimeouts)

Spec == Init /\ [][Next]_vars /\ Fairness

-----------------------------------------------------------------------------
(* §4.5: the first offense wins, so an IP is graylisted for no longer than *)
(* the window plus one check period after its first offense, however many *)
(* of its connections offend again while it is graylisted.                 *)
NoOverstay ==
    \A i \in DOMAIN graylist : held[i] <= Window + CheckPeriod

=============================================================================
